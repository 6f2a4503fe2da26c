----------------------------- MODULE AgentDelivery -----------------------------
(***************************************************************************)
(* Operations that an agent carries out: project-agent-delivery.ts and     *)
(* gateway-routes.ts queue the jobs of an operation, the projection of     *)
(* agent-jobs.service.ts turns a decided job into the next step, into the  *)
(* observed route, into the result of the operation and into the state of  *)
(* the environment, and project-environment-lifecycle.ts cancels.  Below   *)
(* them the agent works on its host as AgentWorkload says.                 *)
(*                                                                         *)
(* On a managed gateway an operation has two jobs: deploy and start run    *)
(* the workload (step 1) and then give it the route (step 2), stop and     *)
(* remove take the route (step 1) and then the workload (step 2).  On a    *)
(* direct target it has only the workload job.  Every statement or         *)
(* transaction of the control plane is an action.  How leases are granted, *)
(* renewed and lost is the subject of AgentLease: here the one agent of    *)
(* the target claims a job, and claims it again when it was killed.        *)
(***************************************************************************)
EXTENDS AgentWorkload, FiniteSets

CONSTANTS
    MaxOps,         \* bound: operations, numbered by creation
    Starts,         \* the environment is "empty", or "deployed" by operation 1
    Requested,      \* the kinds of operation that users ask for
    Projectors,     \* requests that are projecting a decided job
    MaxKills,       \* bound: times the agent is killed during a job
    MaxStops,       \* bound: times a process of the control plane stops
    MaxCancels,     \* bound: calls of remove() that find an active operation
    MaxRefusals,    \* bound: calls of queueReconcile() that are refused
    MaxTrouble      \* bound: all of these together

ASSUME DeliveryAssumption ==
    /\ MaxOps \in Nat \ {0}
    /\ Revisions = 1..MaxOps
    /\ Starts \subseteq {"empty", "deployed"}
    /\ Requested \subseteq {"deploy", "start", "stop", "remove"}
    /\ MaxKills \in Nat
    /\ MaxStops \in Nat
    /\ MaxCancels \in Nat
    /\ MaxRefusals \in Nat
    /\ MaxTrouble \in Nat

VARIABLES
    env,        \* lock, status and version of the environment
    op,         \* the DeploymentOperation rows
    job,        \* the AgentJob rows of each operation, by operationStep
    route,      \* the GatewayRoute row
    queueing,   \* the request that queues the jobs of each operation
    projector,  \* what each projecting request has read
    removal,    \* a user's remove() of an environment with an active operation
    running,    \* the job that the agent holds: <<operation, step>>
    clock,      \* AgentJob.createdAt: jobs created so far
    faults,     \* kills, stops, cancellations and refusals so far
    strayed     \* history: an operation without the environment got a route
                \* generation or a worker, or another lost the environment to it

vars == <<hostVars, env, op, job, route, queueing, projector, removal, running,
          clock, faults, strayed>>

rows == <<env, op, job, route, clock>>

Ops == 1..MaxOps
Steps == 1..2
Keys == Ops \X Steps
Nobody == <<0, 0>>

JobStatus == {"absent", "blocked", "queued", "leased", "succeeded", "failed", "cancelled"}
Decided == {"succeeded", "failed"}

\* `born` orders the queue; `generation` is in the payload of a route job.
Job == [status : JobStatus, born : Nat, generation : Nat, result : Results]
NoJobRow == [status |-> "absent", born |-> 0, generation |-> 0, result |-> "unknown"]

Observation == [state : {"absent", "stopped", "active"}, rev : {0} \cup Revisions,
                generation : Nat]

NoProjection == [pc |-> "idle", key |-> Nobody, version |-> 0,
                 seen |-> [state |-> "absent", rev |-> 0, generation |-> 0]]

(***************************************************************************)
(* The type invariant of the rows, of the requests and of the host.        *)
(***************************************************************************)
TypeOK ==
    /\ HostTypeOK
    /\ env \in [lock : 0..MaxOps, version : {0} \cup Revisions,
                status : {"empty", "deploying", "running", "stopped", "failed"}]
    /\ op \in [Ops -> [kind : {"deploy", "start", "stop", "remove"},
                       status : {"absent", "running", "succeeded", "failed", "cancelled"},
                       finished : BOOLEAN, version : {0} \cup Revisions]]
    /\ \A o \in Ops : op[o].finished => op[o].status \notin {"absent", "running"}
    /\ job \in [Keys -> Job]
    /\ route.generation \in Nat /\ route.reconcile \in Keys \cup {Nobody}
    /\ route.desired \in Observation /\ route.observed \in Observation
    /\ queueing \in [Ops -> {"idle", "begun", "blocked", "stored", "failing", "recovering"}]
    /\ projector \in [Projectors ->
           [pc : {"idle", "route", "read", "act", "fail"}, key : Keys \cup {Nobody},
            version : {0} \cup Revisions, seen : Observation]]
    /\ removal \in [pc : {"idle", "deliver", "plain", "begin"}, op : 0..MaxOps]
    /\ running \in Keys \cup {Nobody}
    /\ clock \in Nat
    /\ faults \in [kills : 0..MaxKills, stops : 0..MaxStops, cancels : 0..MaxCancels,
                   refusals : 0..MaxRefusals]
    /\ strayed \in BOOLEAN

\* An environment that is empty, or on which operation 1 has deployed revision 1.
Init ==
    \E start \in Starts, gateway \in BOOLEAN :
        LET fresh == start = "empty"
            seen == IF fresh \/ ~gateway
                    THEN [state |-> "absent", rev |-> 0, generation |-> 0]
                    ELSE [state |-> "active", rev |-> 1, generation |-> 1]
            steps == IF fresh THEN {} ELSE IF gateway THEN {1, 2} ELSE {1} IN
        /\ managed = gateway
        /\ container = [r \in Revisions |-> IF ~fresh /\ r = 1
                                            THEN [name |-> "base", up |-> TRUE] ELSE Missing]
        /\ upstream = seen.rev
        /\ attached = (seen.rev = 1)
        /\ exec = Resting
        /\ failures = 0
        /\ env = [lock |-> 0, version |-> IF fresh THEN 0 ELSE 1,
                  status |-> IF fresh THEN "empty" ELSE "running"]
        /\ op = [o \in Ops |-> [kind |-> "deploy",
                    status |-> IF ~fresh /\ o = 1 THEN "succeeded" ELSE "absent",
                    finished |-> ~fresh /\ o = 1,
                    version |-> IF ~fresh /\ o = 1 THEN 1 ELSE 0]]
        /\ job = [k \in Keys |-> IF k[1] = 1 /\ k[2] \in steps
                    THEN [status |-> "succeeded", born |-> k[2],
                          generation |-> k[2] - 1, result |-> "running"]
                    ELSE NoJobRow]
        /\ route = [generation |-> seen.generation, desired |-> seen,
                    observed |-> seen, reconcile |-> Nobody]
        /\ queueing = [o \in Ops |-> "idle"]
        /\ projector = [p \in Projectors |-> NoProjection]
        /\ removal = [pc |-> "idle", op |-> 0]
        /\ running = Nobody
        /\ clock = Cardinality(steps)
        /\ faults = [kills |-> 0, stops |-> 0, cancels |-> 0, refusals |-> 0]
        /\ strayed = FALSE

-----------------------------------------------------------------------------

Trouble == faults.kills + faults.stops + faults.cancels + faults.refusals

Active(o) == op[o].status = "running" /\ ~op[o].finished
Teardown(o) == op[o].kind \in {"stop", "remove"}
JobsOf(o) == {k \in Keys : k[1] = o /\ job[k].status # "absent"}

\* The step of an operation that is its gateway-route job.
RouteStepOf(o) == IF Teardown(o) THEN 1 ELSE 2
IsRoute(k) == managed /\ k[2] = RouteStepOf(k[1])

\* The desired state that the route job of an operation asks for.
Desired(o) ==
    CASE op[o].kind \in {"deploy", "start"} -> [state |-> "active", rev |-> op[o].version]
      [] op[o].kind = "stop"                -> [state |-> "stopped", rev |-> op[o].version]
      [] op[o].kind = "remove"              -> [state |-> "absent", rev |-> 0]

\* agentJob.updateMany({ deploymentOperationId: o, status in S }, cancelled)
CancelJobs(jobs, o, S) ==
    [k \in Keys |-> IF k[1] = o /\ jobs[k].status \in S
                    THEN [jobs[k] EXCEPT !.status = "cancelled"] ELSE jobs[k]]

\* Mutant: the operation is finished without its result.
CloseWithoutResult(o, result) ==
    IF Active(o) THEN [op EXCEPT ![o].finished = TRUE] ELSE op

\* deploymentOperation.updateMany({ id, status: running, finishedAt: null }, result)
Close(o, result) ==
    IF Active(o) THEN [op EXCEPT ![o].status = result, ![o].finished = TRUE] ELSE op

\* environment.updateMany({ activeOperationId: o }): the new state, and unlocked.
Release(o, status, version) ==
    IF env.lock = o THEN [lock |-> 0, status |-> status, version |-> version] ELSE env

-----------------------------------------------------------------------------
(* Queueing *)

\* begin() after the checks of stop(), start(), remove() and deploy: the
\* version is the one of the environment, or a new or repeated revision.
Begin(kind) ==
    \E o \in Ops, version \in Revisions :
        /\ op[o].status = "absent"
        /\ \A p \in Ops : p < o => op[p].status # "absent"
        /\ env.lock = 0
        /\ kind = "stop" => env.status = "running"
        /\ kind = "start" => env.status = "stopped"
        /\ version \in {env.version} \cup (IF kind = "deploy" THEN {o} ELSE {})
        /\ op' = [op EXCEPT ![o] = [kind |-> kind, status |-> "running",
                                    finished |-> FALSE, version |-> version]]
        /\ env' = [env EXCEPT !.lock = o]
        /\ queueing' = [queueing EXCEPT ![o] = "begun"]
        /\ UNCHANGED <<hostVars, job, route, projector, removal, running, clock,
                       faults, strayed>>

InitialStatus(step) == IF step = 2 THEN "blocked" ELSE "queued"

\* queueDeployment() and queueLifecycle() up to the upsert of the workload job,
\* which waits as "blocked" when it is the second step.
StoreWorkloadJob(o) ==
    LET step == IF managed /\ Teardown(o) THEN 2 ELSE 1
        k == <<o, step>> IN
    /\ queueing[o] = "begun"
    /\ Active(o)
    /\ job' = [job EXCEPT ![k] = [NoJobRow EXCEPT
                  !.status = InitialStatus(step), !.born = clock + 1]]
    /\ clock' = clock + 1
    /\ queueing' = [queueing EXCEPT ![o] = IF step = 2 THEN "blocked" ELSE "stored"]
    /\ UNCHANGED <<hostVars, env, op, route, projector, removal, running, faults, strayed>>

\* loadOperation() finds the operation over, or an earlier check fails.
QueueingFails(o) ==
    /\ queueing[o] = "begun"
    /\ queueing' = [queueing EXCEPT ![o] = "failing"]
    /\ UNCHANGED <<hostVars, rows, projector, removal, running, faults, strayed>>

\* Operations that lose a queued route job to a newer generation of the route.
Superseded(o) == {p \in Ops \ {o} : job[<<p, RouteStepOf(p)>>].status = "queued" /\ managed}

\* queueReconcile(): a new generation of the route, in one transaction.  The
\* key of the job, route and operation, makes a repetition find the first one.
QueueRoute(o) ==
    LET k == <<o, RouteStepOf(o)>>
        generation == route.generation + 1 IN
    /\ job[k].status = "absent"
    /\ route' = [route EXCEPT !.generation = generation, !.reconcile = k,
                              !.desired = [state |-> Desired(o).state, rev |-> Desired(o).rev,
                                           generation |-> generation]]
    /\ job' = [x \in Keys |->
                 IF x = k THEN [NoJobRow EXCEPT !.status = "queued", !.born = clock + 1,
                                                !.generation = generation]
                 ELSE IF x[1] \in Superseded(o) /\ IsRoute(x)
                      THEN [job[x] EXCEPT !.status = "cancelled"] ELSE job[x]]
    /\ clock' = clock + 1
    /\ strayed' = (strayed \/ env.lock # o)

\* queueLifecycle(): the first step of a teardown.
StoreRouteJob(o) ==
    /\ queueing[o] = "blocked"
    /\ QueueRoute(o)
    /\ queueing' = [queueing EXCEPT ![o] = "stored"]
    /\ UNCHANGED <<hostVars, env, op, projector, removal, running, faults>>

\* queueReconcile() throws: the target lost its gateway, its agent or its access.
Refused ==
    /\ faults.refusals < MaxRefusals /\ Trouble < MaxTrouble
    /\ faults' = [faults EXCEPT !.refusals = @ + 1]

\* The blocked job is cancelled.
RouteRefused(o) ==
    /\ queueing[o] = "blocked"
    /\ Refused
    /\ job' = CancelJobs(job, o, {"blocked"})
    /\ queueing' = [queueing EXCEPT ![o] = "failing"]
    /\ UNCHANGED <<hostVars, env, op, route, clock, projector, removal, running, strayed>>

\* publishQueued()
PublishQueued(o) ==
    /\ queueing[o] = "stored"
    /\ env' = IF env.lock = o THEN [env EXCEPT !.status = "deploying"] ELSE env
    /\ queueing' = [queueing EXCEPT ![o] = "idle"]
    /\ UNCHANGED <<hostVars, op, job, route, clock, projector, removal, running, faults, strayed>>

\* failQueuedLifecycle() and complete(): the environment gets back its state
\* from before the operation, or is failed.
FailQueueing(o) ==
    /\ queueing[o] = "failing"
    /\ env' = Release(o, CASE op[o].kind = "stop"   -> "running"
                           [] op[o].kind = "remove" -> env.status
                           [] OTHER                 -> "failed", env.version)
    /\ op' = IF op[o].finished THEN op
             ELSE [op EXCEPT ![o].status = "failed", ![o].finished = TRUE]
    /\ queueing' = [queueing EXCEPT ![o] = "idle"]
    /\ UNCHANGED <<hostVars, job, route, clock, projector, removal, running, faults, strayed>>

\* The process stops.  recoverInterrupted() takes the operation only while no
\* job of it is stored: it leaves the others to their jobs, blocked or not.
QueueingStops(o) ==
    /\ queueing[o] \notin {"idle", "recovering"}
    /\ faults.stops < MaxStops /\ Trouble < MaxTrouble
    /\ faults' = [faults EXCEPT !.stops = @ + 1]
    /\ queueing' = [queueing EXCEPT ![o] = IF JobsOf(o) = {} THEN "recovering" ELSE "idle"]
    /\ UNCHANGED <<hostVars, rows, projector, removal, running, strayed>>

Recover(o) ==
    LET cancelled == op[o].status = "cancelled" IN
    /\ queueing[o] = "recovering"
    /\ op' = IF op[o].finished THEN op
             ELSE [op EXCEPT ![o].finished = TRUE,
                             ![o].status = IF cancelled THEN "cancelled" ELSE "failed"]
    /\ env' = IF op[o].finished THEN env
              ELSE IF cancelled THEN Release(o, "empty", 0)
              ELSE Release(o, "failed", env.version)
    /\ queueing' = [queueing EXCEPT ![o] = "idle"]
    /\ UNCHANGED <<hostVars, job, route, clock, projector, removal, running, faults, strayed>>

-----------------------------------------------------------------------------
(* The agent *)

HostJob(k) ==
    LET o == k[1] IN
    [rev |-> op[o].version,
     kind |-> IF ~IsRoute(k) THEN op[o].kind
              ELSE IF Teardown(o) THEN "deactivate" ELSE "activate",
     activation |-> IF IsRoute(k) /\ ~Teardown(o) THEN op[o].kind ELSE "none"]

\* claimOnce(): the oldest job that is queued, or whose lease has expired.
Claim ==
    \E k \in Keys :
        /\ running = Nobody
        /\ job[k].status \in {"queued", "leased"}
        /\ \A x \in Keys : job[x].status = "queued" => job[k].born <= job[x].born
        /\ Take(HostJob(k))
        /\ job' = [job EXCEPT ![k].status = "leased"]
        /\ running' = k
        /\ strayed' = (strayed \/ env.lock # k[1])
        /\ UNCHANGED <<managed, container, upstream, attached, failures, env, op, route, clock,
                       queueing, projector, removal, faults>>

HostStep ==
    /\ WorkloadStep \/ RouteStep
    /\ UNCHANGED <<rows, queueing, projector, removal, running, faults, strayed>>

\* complete(): the result is stored if the job is still leased, and refused otherwise.
Complete ==
    /\ exec.pc = "done"
    /\ job' = IF job[running].status # "leased" THEN job
              ELSE [job EXCEPT ![running].status = IF exec.ok THEN "succeeded" ELSE "failed",
                               ![running].result = exec.result]
    /\ exec' = Resting
    /\ running' = Nobody
    /\ UNCHANGED <<managed, container, upstream, attached, failures, env, op, route, clock,
                   queueing, projector, removal, faults, strayed>>

\* The agent is killed, or loses its lease, and its job stays leased until then.
Kill ==
    /\ faults.kills < MaxKills /\ Trouble < MaxTrouble
    /\ Killed
    /\ faults' = [faults EXCEPT !.kills = @ + 1]
    /\ running' = Nobody
    /\ UNCHANGED <<rows, queueing, projector, removal, strayed>>

-----------------------------------------------------------------------------
(* The projection of a decided job *)

\* The rest of complete(), a repetition of it by the agent whose answer was
\* lost, or onModuleInit() of a starting process.
Project(p, k) ==
    /\ projector[p].pc = "idle"
    /\ job[k].status \in Decided
    /\ Active(k[1]) \/ route.reconcile = k
    /\ projector' = [projector EXCEPT ![p] = [NoProjection EXCEPT
           !.pc = IF IsRoute(k) THEN "route" ELSE "read", !.key = k]]
    /\ UNCHANGED <<hostVars, rows, queueing, removal, running, faults, strayed>>

\* Mutant: a late result is written over the observation of a newer generation.
Unfenced(k) == TRUE

\* The result is about the generation of the route that is current.
Current(k) == route.generation = job[k].generation /\ route.reconcile = k

\* reconcileGatewayRoute()
ProjectRoute(p) ==
    LET k == projector[p].key IN
    /\ projector[p].pc = "route"
    /\ route' = IF ~Current(k) THEN route
                ELSE IF job[k].status = "failed" THEN [route EXCEPT !.reconcile = Nobody]
                ELSE [route EXCEPT !.reconcile = Nobody,
                        !.observed = [state |-> Desired(k[1]).state, rev |-> Desired(k[1]).rev,
                                      generation |-> job[k].generation]]
    /\ projector' = [projector EXCEPT ![p].pc = "read"]
    /\ UNCHANGED <<hostVars, env, op, job, clock, queueing, removal, running, faults, strayed>>

\* reconcileTerminalJobProjection() reads the job, the operation, the
\* environment and the route together.
ProjectRead(p) ==
    /\ projector[p].pc = "read"
    /\ projector' = [projector EXCEPT ![p] =
           IF Active(projector[p].key[1])
           THEN [@ EXCEPT !.pc = "act", !.version = env.version, !.seen = route.observed]
           ELSE NoProjection]
    /\ UNCHANGED <<hostVars, rows, queueing, removal, running, faults, strayed>>

Acting(p, k) == projector[p].pc = "act" /\ projector[p].key = k

End(p) == projector' = [projector EXCEPT ![p] = NoProjection]

\* The result that step k has to report.
ExpectedResult(k) ==
    IF IsRoute(k) THEN {"running", "stopped"}
    ELSE CASE op[k[1]].kind \in {"deploy", "start"} -> {"running"}
           [] op[k[1]].kind = "stop"                -> {"stopped"}
           [] op[k[1]].kind = "remove"              -> {"missing"}

\* Mutant: the result that the agent reports is not looked at.
GoodWhatever(k) == TRUE

Good(k) == job[k].status = "succeeded" /\ job[k].result \in ExpectedResult(k)

\* Mutant: the first step to succeed ends the operation.
AnyStep(k) == TRUE

LastStep(k) == k[2] = (IF managed THEN 2 ELSE 1)

\* A deployment or start on a gateway needs the route that was observed.
RouteObserved(p, k) ==
    LET seen == projector[p].seen IN
    Teardown(k[1]) \/ ~managed \/
    seen = [state |-> "active", rev |-> op[k[1]].version, generation |-> job[k].generation]

\* The last step succeeded: the environment and the operation, in one transaction.
FinishOperation(p) ==
    \E k \in Keys :
        /\ Acting(p, k)
        /\ LastStep(k)
        /\ Good(k)
        /\ RouteObserved(p, k)
        /\ env' = CASE op[k[1]].kind = "remove" -> Release(k[1], "empty", 0)
                    [] op[k[1]].kind = "stop"   -> Release(k[1], "stopped", env.version)
                    [] op[k[1]].kind = "start"  -> Release(k[1], "running", env.version)
                    [] op[k[1]].kind = "deploy" -> Release(k[1], "running", op[k[1]].version)
        /\ op' = Close(k[1], "succeeded")
        /\ End(p)
        /\ UNCHANGED <<hostVars, job, route, clock, queueing, removal, running, faults, strayed>>

\* The waiting workload job of a teardown may run.
Unblock(o) ==
    [job EXCEPT ![<<o, 2>>].status = IF @ = "blocked" THEN "queued" ELSE @]

\* The route of a teardown is gone.  When nothing is blocked any more, the
\* second step is under way, or succeeded and is projected in its turn.
StartTeardown(p) ==
    \E k \in Keys :
        LET next == job[<<k[1], 2>>].status IN
        /\ Acting(p, k)
        /\ Teardown(k[1]) /\ ~LastStep(k)
        /\ Good(k)
        /\ job' = Unblock(k[1])
        /\ projector' = [projector EXCEPT ![p] =
               CASE next \in {"blocked", "queued", "leased"} -> NoProjection
                 [] next = "succeeded" -> [NoProjection EXCEPT !.pc = "read", !.key = <<k[1], 2>>]
                 [] OTHER -> [@ EXCEPT !.pc = "fail"]]
        /\ UNCHANGED <<hostVars, env, op, route, clock, queueing, removal, running, faults,
                       strayed>>

\* The workload runs: the route job is queued, with no look at the operation.
StartActivation(p) ==
    \E k \in Keys :
        /\ Acting(p, k)
        /\ ~Teardown(k[1]) /\ ~LastStep(k)
        /\ Good(k)
        /\ QueueRoute(k[1])
        /\ End(p)
        /\ UNCHANGED <<hostVars, env, op, queueing, removal, running, faults>>

\* The route job was queued before; one that has succeeded is projected.
ActivationStarted(p) ==
    \E k \in Keys :
        LET next == job[<<k[1], 2>>].status IN
        /\ Acting(p, k)
        /\ ~Teardown(k[1]) /\ ~LastStep(k)
        /\ Good(k)
        /\ next # "absent"
        /\ projector' = [projector EXCEPT ![p] =
               IF next = "succeeded" THEN [NoProjection EXCEPT !.pc = "route", !.key = <<k[1], 2>>]
               ELSE NoProjection]
        /\ UNCHANGED <<hostVars, rows, queueing, removal, running, faults, strayed>>

\* The route job cannot be queued, or not any more: its checks come before the
\* look for the job of an earlier call.
ActivationRefused(p) ==
    /\ Refused
    /\ \E k \in Keys : Acting(p, k) /\ ~Teardown(k[1]) /\ ~LastStep(k) /\ Good(k)
    /\ projector' = [projector EXCEPT ![p].pc = "fail"]
    /\ UNCHANGED <<hostVars, rows, queueing, removal, running, strayed>>

\* What is known of the route after a failure: the message of a route job says
\* what was restored, and another job did not touch the route.
Rollback(p, k) ==
    IF ~IsRoute(k) \/ projector[p].pc = "fail" THEN "untouched"
    ELSE IF job[k].status = "failed" THEN job[k].result ELSE "unknown"

\* failManagedOperation(): the observed route leads to the recorded version still.
PreviousServes(p, k) ==
    /\ managed
    /\ projector[p].seen.state = "active"
    /\ projector[p].seen.rev = projector[p].version
    /\ Rollback(p, k) \in {"untouched", "serving"}

PreviousStopped(p, k) ==
    /\ managed
    /\ op[k[1]].kind = "start"
    /\ projector[p].seen.state = "stopped"
    /\ projector[p].seen.rev = projector[p].version
    /\ Rollback(p, k) \in {"untouched", "stopped"}

\* The job failed, or reported what its step cannot have as a result, or the
\* next step could not be queued: steps not begun are cancelled, in one
\* transaction with the environment and the operation.
FailOperation(p) ==
    \E k \in Keys :
        /\ projector[p].key = k
        /\ \/ projector[p].pc = "fail"
           \/ projector[p].pc = "act" /\ ~(Good(k) /\ (LastStep(k) => RouteObserved(p, k)))
        /\ job' = IF managed THEN CancelJobs(job, k[1], {"blocked", "queued"}) ELSE job
        /\ env' = Release(k[1], IF PreviousServes(p, k) THEN "running"
                                ELSE IF PreviousStopped(p, k) THEN "stopped" ELSE "failed",
                          env.version)
        /\ op' = Close(k[1], "failed")
        /\ End(p)
        /\ UNCHANGED <<hostVars, route, clock, queueing, removal, running, faults, strayed>>

\* The process stops, or a statement fails: the job is projected again later.
ProjectorStops(p) ==
    /\ projector[p].pc # "idle"
    /\ faults.stops < MaxStops /\ Trouble < MaxTrouble
    /\ faults' = [faults EXCEPT !.stops = @ + 1]
    /\ End(p)
    /\ UNCHANGED <<hostVars, rows, queueing, removal, running, strayed>>

-----------------------------------------------------------------------------
(* remove() of an environment that has an active operation *)

ReadActive ==
    /\ removal.pc = "idle"
    /\ env.lock # 0
    /\ faults.cancels < MaxCancels /\ Trouble < MaxTrouble
    /\ faults' = [faults EXCEPT !.cancels = @ + 1]
    /\ removal' = [pc |-> IF JobsOf(env.lock) # {} THEN "deliver" ELSE "plain", op |-> env.lock]
    /\ UNCHANGED <<hostVars, rows, queueing, projector, running, strayed>>

\* The jobs and the operation are cancelled and the environment is unlocked,
\* whatever has become of them since they were read.
CancelDelivery ==
    LET o == removal.op IN
    /\ removal.pc = "deliver"
    /\ job' = CancelJobs(job, o, {"blocked", "queued", "leased"})
    /\ op' = [op EXCEPT ![o].status = "cancelled", ![o].finished = TRUE]
    /\ env' = [env EXCEPT !.lock = 0]
    /\ removal' = [removal EXCEPT !.pc = "begin"]
    /\ strayed' = (strayed \/ env.lock \notin {0, o})
    /\ UNCHANGED <<hostVars, route, clock, queueing, projector, running, faults>>

\* No job was stored when it was read: the worker is left to notice the status.
CancelPlain ==
    LET o == removal.op IN
    /\ removal.pc = "plain"
    /\ op' = [op EXCEPT ![o].status = "cancelled"]
    /\ removal' = [pc |-> "idle", op |-> 0]
    /\ UNCHANGED <<hostVars, env, job, route, clock, queueing, projector, running, faults,
                   strayed>>

\* The cleanup is an operation of its own, if it gets the environment.
BeginCleanup ==
    /\ removal.pc = "begin"
    /\ removal' = [pc |-> "idle", op |-> 0]
    /\ \/ \E o \in Ops :
            /\ op[o].status = "absent"
            /\ \A p \in Ops : p < o => op[p].status # "absent"
            /\ env.lock = 0
            /\ op' = [op EXCEPT ![o] = [kind |-> "remove", status |-> "running",
                                        finished |-> FALSE, version |-> op[removal.op].version]]
            /\ env' = [env EXCEPT !.lock = o]
            /\ queueing' = [queueing EXCEPT ![o] = "begun"]
       \/ /\ env.lock # 0 \/ \A o \in Ops : op[o].status # "absent"
          /\ UNCHANGED <<op, env, queueing>>
    /\ UNCHANGED <<hostVars, job, route, clock, projector, running, faults, strayed>>

-----------------------------------------------------------------------------

Queueing(o) ==
    \/ StoreWorkloadJob(o)
    \/ QueueingFails(o)
    \/ StoreRouteJob(o)
    \/ RouteRefused(o)
    \/ PublishQueued(o)
    \/ FailQueueing(o)
    \/ Recover(o)

Projection(p) ==
    \/ ProjectRoute(p)
    \/ ProjectRead(p)
    \/ FinishOperation(p)
    \/ StartTeardown(p)
    \/ StartActivation(p)
    \/ ActivationStarted(p)
    \/ ActivationRefused(p)
    \/ FailOperation(p)

Removal ==
    \/ CancelDelivery
    \/ CancelPlain
    \/ BeginCleanup

Next ==
    \/ \E kind \in Requested : Begin(kind)
    \/ \E o \in Ops : Queueing(o) \/ QueueingStops(o)
    \/ \E p \in Projectors :
        \/ \E k \in Keys : Project(p, k)
        \/ Projection(p)
        \/ ProjectorStops(p)
    \/ Claim \/ HostStep \/ Complete \/ Kill
    \/ ReadActive \/ Removal

Spec == Init /\ [][Next]_vars

-----------------------------------------------------------------------------
(* Properties *)

\* The second job of an operation becomes claimable only after the first has
\* succeeded (public traffic stops before a workload is torn down, and a route
\* is switched only to a workload that runs), and the operation is reported as
\* succeeded only when each of its jobs was decided as a success, however often
\* results are repeated, lost or overtaken by a cancellation.
SuccessNeedsEveryStep ==
    \A o \in Ops :
        /\ job[<<o, 2>>].status \in {"queued", "leased", "succeeded", "failed"} =>
               job[<<o, 1>>].status = "succeeded"
        /\ op[o].status = "succeeded" =>
               \A s \in IF managed THEN Steps ELSE {1} : job[<<o, s>>].status = "succeeded"

\* A result about an older generation of the route is never taken for its
\* current state: observations go forward, and each is what its generation asked for.
ObservationsGoForward ==
    [][route'.observed # route.observed =>
         /\ route'.observed.generation > route.observed.generation
         /\ route'.observed.generation = route.generation
         /\ route'.observed = route.desired]_vars

\* When InitPad says that an environment is running and nothing is going on, the
\* revision it names answers requests, on a gateway through the public route.
RunningMeansServed ==
    env.status = "running" /\ env.lock = 0 => env.version # 0 /\ Serves(env.version)

\* What the operation is about is true of the host.
OnHost(o) ==
    CASE op[o].kind \in {"deploy", "start"} -> Serves(op[o].version)
      [] op[o].kind = "stop"   -> /\ upstream = 0
                                  /\ ~container[op[o].version].up
      [] op[o].kind = "remove" -> /\ upstream = 0
                                  /\ \A r \in Revisions : managed => container[r] = Missing

\* An operation is reported as succeeded only when that is so on the host at
\* that moment: killed agents, repeated results and failed calls included.
SuccessIsOnHost ==
    [][\A o \in Ops : op[o].status = "running" /\ op'[o].status = "succeeded" /\ ~strayed
                        => OnHost(o)]_vars

=============================================================================
