----------------------------- MODULE AgentWorkload -----------------------------
(***************************************************************************)
(* What an agent does on its Docker host for the jobs of one environment:  *)
(* apps/agent/src/docker-lifecycle.ts (containers), gateway-route.ts,      *)
(* gateway-network.ts and caddy-admin.ts (the public route), driven by     *)
(* job-worker.ts.  An agent runs one job at a time, every call to Docker,  *)
(* to Caddy or to the control plane may fail, and the agent may be killed  *)
(* between two calls: nothing of `exec` survives, everything of the host   *)
(* does, and the same job is run again under a new lease.                  *)
(***************************************************************************)
EXTENDS Naturals

CONSTANTS
    Revisions,      \* immutable revisions of the project, numbered from 1
    MaxFailures     \* bound: calls and health checks that fail

ASSUME WorkloadAssumption ==
    /\ Revisions \subseteq Nat \ {0}
    /\ MaxFailures \in Nat

VARIABLES
    managed,    \* target.routingMode is "managed-gateway", else "direct-port"
    container,  \* the container of each revision
    upstream,   \* the revision that the Caddy route leads to, 0 without a route
    attached,   \* the gateway is connected to the network of the workload
    exec,       \* the job that the agent is running, lost when it is killed
    failures    \* calls and health checks that have failed

hostVars == <<managed, container, upstream, attached, exec, failures>>

\* A candidate is named "-next-" until it has passed its health check.
Container == [name : {"none", "next", "base"}, up : BOOLEAN]
Missing == [name |-> "none", up |-> FALSE]

\* "activate" and "deactivate" are gateway-route jobs; `activation` is "deploy"
\* or "start" for the first of them.
HostJobs == [kind : {"deploy", "start", "stop", "remove", "activate", "deactivate"},
             rev : Revisions, activation : {"deploy", "start", "none"}]

Phases == {"idle", "workload", "waiting", "renaming", "final", "stopping",
           "removing", "connect", "switch", "verify", "commit", "restore",
           "discard", "detach", "clear", "disconnect", "reattach", "done"}

NoJob == [kind |-> "deploy", rev |-> 0, activation |-> "none"]

Resting == [pc |-> "idle", job |-> NoJob, previous |-> 0, attempted |-> 0,
            incomplete |-> FALSE, ok |-> FALSE, result |-> "unknown"]

\* `result`: the state and revision reported for a workload, or what the
\* message of a failed route job says of its rollback.
Results == {"running", "stopped", "missing", "serving", "unknown"}

HostTypeOK ==
    /\ managed \in BOOLEAN
    /\ container \in [Revisions -> Container]
    /\ upstream \in {0} \cup Revisions
    /\ attached \in BOOLEAN
    /\ exec \in [pc : Phases, job : HostJobs \cup {NoJob},
                 previous : {0} \cup Revisions, attempted : {0} \cup Revisions,
                 incomplete : BOOLEAN, ok : BOOLEAN, result : Results]
    /\ failures \in 0..MaxFailures

-----------------------------------------------------------------------------

Live(r) == container[r] = [name |-> "base", up |-> TRUE]

\* A request for the environment is answered by revision r.
Serves(r) == Live(r) /\ (managed => upstream = r /\ attached)

Run(pc) == exec' = [exec EXCEPT !.pc = pc]

Finish(ok, result) ==
    exec' = [Resting EXCEPT !.pc = "done", !.ok = ok, !.result = result]

\* Something fails, or not.
Fails(is) ==
    /\ is => failures < MaxFailures
    /\ failures' = IF is THEN failures + 1 ELSE failures

\* A failed route job says what was restored; job-worker.ts cuts the message
\* to 240 characters, and the end of a long one, which says it, is lost.
RouteFailed(result) == \E told \in {result, "unknown"} : Finish(FALSE, told)

First(work) ==
    CASE work.kind \in {"deploy", "start"} -> "workload"
      [] work.kind = "stop"                -> "stopping"
      [] work.kind = "remove"              -> "removing"
      [] work.kind = "activate"            -> "connect"
      [] work.kind = "deactivate"          -> "clear"

\* A route job starts by reading the route it will change: Caddy's currentRoute().
Take(work) ==
    /\ exec.pc = "idle"
    /\ exec' = [Resting EXCEPT !.pc = First(work), !.job = work, !.previous = upstream]

\* The process is killed, or gives the job up because its lease is lost.
Killed ==
    /\ exec.pc # "idle"
    /\ exec' = Resting
    /\ UNCHANGED <<managed, container, upstream, attached, failures>>

-----------------------------------------------------------------------------
(* The workload *)

\* The named container that the job is about: the slot of its revision, or on
\* a direct target the one published container, of whatever revision.
Published(work) ==
    {r \in Revisions : container[r].name = "base" /\ (managed => r = work.rev)}

Others(work) ==
    {r \in Revisions \ {work.rev} : container[r].name = "base"}

\* A call to Docker or a report of progress fails, or there is nothing to
\* start: the job fails where it is.
WorkloadFails ==
    /\ exec.pc \in {"workload", "waiting", "renaming", "final", "stopping", "removing"}
    /\ Finish(FALSE, "unknown")
    /\ Fails(~(exec.pc = "workload" /\ exec.job.kind = "start" /\ Published(exec.job) = {}))
    /\ UNCHANGED <<managed, container, upstream, attached>>

\* deploy() finds the revision published, or start() any: it is started.
ReuseWorkload ==
    /\ exec.pc = "workload"
    /\ \E r \in Published(exec.job) :
        /\ exec.job.kind = "deploy" => r = exec.job.rev
        /\ container' = [container EXCEPT ![r].up = TRUE]
    /\ Run("final")
    /\ UNCHANGED <<managed, upstream, attached, failures>>

\* deploy(): the candidate is created, or the one of an interrupted attempt started.
StartCandidate ==
    /\ exec.pc = "workload"
    /\ exec.job.kind = "deploy"
    /\ exec.job.rev \notin Published(exec.job)
    /\ container' = [container EXCEPT ![exec.job.rev] = [name |-> "next", up |-> TRUE]]
    /\ Run("waiting")
    /\ UNCHANGED <<managed, upstream, attached, failures>>

\* waitHealthy() on the candidate: a direct target loses its old revision now.
CandidateHealthy ==
    /\ exec.pc = "waiting"
    /\ container' = [r \in Revisions |->
                       IF ~managed /\ r \in Others(exec.job) THEN Missing ELSE container[r]]
    /\ Run("renaming")
    /\ UNCHANGED <<managed, upstream, attached, failures>>

CandidateUnhealthy ==
    /\ exec.pc = "waiting"
    /\ container' = [container EXCEPT ![exec.job.rev] = Missing]
    /\ Finish(FALSE, "unknown")
    /\ Fails(TRUE)
    /\ UNCHANGED <<managed, upstream, attached>>

PublishCandidate ==
    /\ exec.pc = "renaming"
    /\ container' = [container EXCEPT ![exec.job.rev].name = "base"]
    /\ Run("final")
    /\ UNCHANGED <<managed, upstream, attached, failures>>

\* The final health check passes, and status() is the result.
WorkloadRuns ==
    /\ exec.pc = "final"
    /\ Finish(TRUE, IF Live(exec.job.rev) THEN "running" ELSE "unknown")
    /\ UNCHANGED <<managed, container, upstream, attached, failures>>

\* stop(): a published container is stopped; status() is the result.
StopWorkload ==
    /\ exec.pc = "stopping"
    /\ container' = [r \in Revisions |->
                       IF r \in Published(exec.job)
                       THEN [container[r] EXCEPT !.up = FALSE] ELSE container[r]]
    /\ Finish(TRUE, IF exec.job.rev \in Published(exec.job) THEN "stopped" ELSE "missing")
    /\ UNCHANGED <<managed, upstream, attached, failures>>

\* removeProject(): every revision in turn; a direct target looks only for the
\* published container and the candidate of the revision being removed.
Removable(work) ==
    {r \in Revisions : /\ container[r].name # "none"
                       /\ managed \/ container[r].name = "base" \/ r = work.rev}

RemoveRevision ==
    /\ exec.pc = "removing"
    /\ \E r \in Removable(exec.job) : container' = [container EXCEPT ![r] = Missing]
    /\ UNCHANGED <<managed, upstream, attached, exec, failures>>

WorkloadRemoved ==
    /\ exec.pc = "removing"
    /\ Removable(exec.job) = {}
    /\ Finish(TRUE, "missing")
    /\ UNCHANGED <<managed, container, upstream, attached, failures>>

-----------------------------------------------------------------------------
(* The route *)

\* network.connect() and resolveUpstream(): exactly the running container of
\* the revision and its slot.
Connect ==
    /\ exec.pc = "connect"
    /\ Live(exec.job.rev)
    /\ attached' = TRUE
    /\ exec' = [exec EXCEPT !.pc = "switch", !.attempted = exec.job.rev]
    /\ UNCHANGED <<managed, container, upstream, failures>>

\* caddy.reconcileRoute(): one conditional PATCH.
Switch ==
    /\ exec.pc = "switch"
    /\ upstream' = exec.job.rev
    /\ Run("verify")
    /\ UNCHANGED <<managed, container, attached, failures>>

\* publicHealth.verify(): the new route answers over HTTPS.
Verify ==
    /\ exec.pc = "verify"
    /\ Run("commit")
    /\ UNCHANGED <<managed, container, upstream, attached, failures>>

\* There is no workload to connect to, a call fails, before or after it had its
\* effect, or the health check does.
ActivationFails ==
    /\ exec.pc \in {"connect", "switch", "verify"}
    /\ attached' \in {attached, attached \/ (exec.pc = "connect" /\ Live(exec.job.rev))}
    /\ upstream' \in {upstream, IF exec.pc = "switch" THEN exec.job.rev ELSE upstream}
    /\ Run("restore")
    /\ Fails(exec.pc # "connect" \/ Live(exec.job.rev))
    /\ UNCHANGED <<managed, container>>

\* rollbackActivation(): first the route is what it was when the job started.
Restore ==
    /\ exec.pc = "restore"
    /\ \E fails \in BOOLEAN :
        /\ Fails(fails)
        /\ upstream' \in {exec.previous} \cup (IF fails THEN {upstream} ELSE {})
        /\ IF exec.previous = 0 \/ exec.previous # exec.attempted
           THEN exec' = [exec EXCEPT !.pc = "discard", !.incomplete = fails]
           ELSE RouteFailed(IF fails THEN "unknown" ELSE "serving")
    /\ UNCHANGED <<managed, container, attached>>

\* What the message says when every part of the rollback is behind.
RolledBack(incomplete) ==
    RouteFailed(IF incomplete THEN "unknown"
                ELSE IF exec.previous # 0 THEN "serving" ELSE "stopped")

\* network.rollback(): a deployed candidate is removed, a started one stopped.
Discard ==
    /\ exec.pc = "discard"
    /\ \E fails \in BOOLEAN :
        LET incomplete == exec.incomplete \/ fails IN
        /\ IF Live(exec.job.rev) THEN Fails(fails) ELSE fails /\ Fails(FALSE)
        /\ container' = IF fails THEN container
                        ELSE [container EXCEPT ![exec.job.rev] =
                                IF exec.job.activation = "deploy" THEN Missing
                                ELSE [name |-> "base", up |-> FALSE]]
        /\ IF exec.previous = 0
           THEN exec' = [exec EXCEPT !.pc = "detach", !.incomplete = incomplete]
           ELSE RolledBack(incomplete)
    /\ UNCHANGED <<managed, upstream, attached>>

Detach ==
    /\ exec.pc = "detach"
    /\ \E fails \in BOOLEAN :
        /\ Fails(fails)
        /\ attached' = (fails /\ attached)
        /\ RolledBack(exec.incomplete \/ fails)
    /\ UNCHANGED <<managed, container, upstream>>

\* network.commit(): after a deployment the other revisions are removed, one
\* by one; a failure leaves them to the next one and is still a success.
RetireRevision ==
    /\ exec.pc = "commit"
    /\ exec.job.activation = "deploy"
    /\ \E r \in Revisions \ {exec.job.rev} :
        /\ container[r].name # "none"
        /\ container' = [container EXCEPT ![r] = Missing]
    /\ UNCHANGED <<managed, upstream, attached, exec, failures>>

RouteActive ==
    /\ exec.pc = "commit"
    /\ Finish(TRUE, "running")
    /\ UNCHANGED <<managed, container, upstream, attached, failures>>

\* A report of progress fails outside the part that is rolled back.
ReportFails ==
    /\ exec.pc = "commit"
    /\ Finish(FALSE, "unknown")
    /\ Fails(TRUE)
    /\ UNCHANGED <<managed, container, upstream, attached>>

\* A stopped or absent route is removed, and then the gateway disconnected.
ClearRoute ==
    /\ exec.pc = "clear"
    /\ upstream' = 0
    /\ Run("disconnect")
    /\ UNCHANGED <<managed, container, attached, failures>>

Disconnect ==
    /\ exec.pc = "disconnect"
    /\ attached' = FALSE
    /\ Finish(TRUE, "stopped")
    /\ UNCHANGED <<managed, container, upstream, failures>>

\* The PATCH or the disconnection fails, before or after it had its effect.
DeactivationFails ==
    /\ exec.pc \in {"clear", "disconnect"}
    /\ upstream' \in {upstream, 0}
    /\ attached' \in {attached, attached /\ exec.pc = "clear"}
    /\ Run("reattach")
    /\ Fails(TRUE)
    /\ UNCHANGED <<managed, container>>

\* restoreInactiveRoute(): the route again, and nothing but the route.
Reattach ==
    /\ exec.pc = "reattach"
    /\ \E fails \in BOOLEAN :
        /\ Fails(fails)
        /\ IF fails \/ exec.previous = 0
           THEN upstream' = upstream /\ Finish(FALSE, "unknown")
           ELSE upstream' = exec.previous /\ RouteFailed("serving")
    /\ UNCHANGED <<managed, container, attached>>

-----------------------------------------------------------------------------

WorkloadStep ==
    \/ WorkloadFails
    \/ ReuseWorkload
    \/ StartCandidate
    \/ CandidateHealthy
    \/ CandidateUnhealthy
    \/ PublishCandidate
    \/ WorkloadRuns
    \/ StopWorkload
    \/ RemoveRevision
    \/ WorkloadRemoved

RouteStep ==
    \/ Connect
    \/ Switch
    \/ Verify
    \/ ActivationFails
    \/ Restore
    \/ Discard
    \/ Detach
    \/ RetireRevision
    \/ RouteActive
    \/ ReportFails
    \/ ClearRoute
    \/ Disconnect
    \/ DeactivationFails
    \/ Reattach

=============================================================================
