---------------------------- MODULE AgentSelfUpdate ----------------------------
(***************************************************************************)
(* The remote update of an Agent: the agent-update job that                *)
(* agent-updates.service.ts queues, the Agent that hands it over           *)
(* (agent-update.ts, job-worker.ts) and the one-shot updater container     *)
(* that replaces the Agent container under its fixed names                 *)
(* (agent-update-docker.ts).  An attempt of the job has its own updater.   *)
(* Signatures, images and plan files are taken as correct.                 *)
(***************************************************************************)
EXTENDS Naturals

CONSTANTS
    MaxUpdateAttempts,  \* bound: claims of the job
    MaxUpdateFaults     \* bound: failing calls, crashes and lapsed leases

ASSUME UpdateAssumption == MaxUpdateAttempts \in Nat \ {0} /\ MaxUpdateFaults \in Nat

VARIABLES
    named,      \* which Agent the names initpad-agent and initpad-agent-previous hold
    agentUp,    \* the container named initpad-agent runs
    handed,     \* its job loop waits after a hand-over
    updateJob,  \* status and attempt of the job; has its lease lapsed
    agentUpdater,    \* the updater of each attempt
    confirmed,  \* history: the new Agent's heartbeat was verified
    unparked,   \* history: an updater gave up before it had parked the Agent
    updateFaults

updateVars == <<named, agentUp, handed, updateJob, agentUpdater, confirmed, unparked, updateFaults>>

UpdateAttempts == 1..MaxUpdateAttempts

UpdateInit ==
    /\ named = [agent |-> "old", previous |-> "none"]
    /\ agentUp = TRUE
    /\ handed = FALSE
    /\ updateJob = [status |-> "queued", attempt |-> 0, lapsed |-> FALSE]
    /\ agentUpdater = [n \in UpdateAttempts |-> "none"]
    /\ confirmed = FALSE
    /\ unparked = FALSE
    /\ updateFaults = 0

UpdateFault == updateFaults < MaxUpdateFaults /\ updateFaults' = updateFaults + 1
HoldsUpdate(n) == updateJob.status = "leased" /\ updateJob.attempt = n /\ ~updateJob.lapsed
UpdaterAt(n, pc) == agentUpdater' = [agentUpdater EXCEPT ![n] = pc]

-----------------------------------------------------------------------------
(* The Agent in the slot *)

\* claim(); the old Agent hands over, the new one refuses a version that is not
\* newer than its own, and so does a failing verification or pull.
HandOver ==
    /\ agentUp /\ ~handed
    /\ updateJob.status = "queued" \/ (updateJob.status = "leased" /\ updateJob.lapsed)
    /\ updateJob.attempt < MaxUpdateAttempts
    /\ LET n == updateJob.attempt + 1 IN
        \/ /\ named.agent = "old"
           /\ updateJob' = [status |-> "leased", attempt |-> n, lapsed |-> FALSE]
           /\ agentUpdater' = [agentUpdater EXCEPT ![n] = "inspect"]
           /\ handed' = TRUE
           /\ UNCHANGED updateFaults
        \/ /\ IF named.agent = "old" THEN UpdateFault ELSE UNCHANGED updateFaults
           /\ updateJob' = [status |-> "failed", attempt |-> n, lapsed |-> FALSE]
           /\ UNCHANGED <<agentUpdater, handed>>
    /\ UNCHANGED <<named, agentUp, confirmed, unparked>>

\* The Agent's process stops; Docker starts it again, and it claims again.
AgentRestarts ==
    /\ agentUp /\ handed
    /\ UpdateFault
    /\ handed' = FALSE
    /\ UNCHANGED <<named, agentUp, updateJob, agentUpdater, confirmed, unparked>>

\* Thirty seconds pass without a renewal.
UpdateLeaseLapses ==
    /\ updateJob.status = "leased" /\ ~updateJob.lapsed
    /\ UpdateFault
    /\ updateJob' = [updateJob EXCEPT !.lapsed = TRUE]
    /\ UNCHANGED <<named, agentUp, handed, agentUpdater, confirmed, unparked>>

-----------------------------------------------------------------------------
(* The updater: apply() *)

\* A Docker call on the names: done, failed, or done although it seems to fail.
Done(n, pc) == UpdaterAt(n, pc) /\ UNCHANGED updateFaults
Failed(n, pc) == UpdateFault /\ UpdaterAt(n, pc)

\* An Agent under the previous name is left to an operator; the candidate is
\* tried before anything is stopped, and the lease is renewed after that.
Preflight(n) ==
    /\ agentUpdater[n] \in {"inspect", "candidate"}
    /\ IF agentUpdater[n] = "inspect"
       THEN Done(n, IF HoldsUpdate(n) /\ named.agent # "none" /\ named.previous = "none" THEN "candidate" ELSE "fail")
       ELSE Done(n, IF HoldsUpdate(n) THEN "stop" ELSE "fail") \/ Failed(n, "fail")
    /\ UNCHANGED <<named, agentUp, handed, updateJob, confirmed, unparked>>

StopAgent(n) ==
    /\ agentUpdater[n] = "stop"
    /\ \/ named.agent # "none" /\ Done(n, "park") /\ agentUp' = FALSE
       \/ named.agent = "none" /\ Done(n, "drop") /\ UNCHANGED agentUp
       \/ Failed(n, "drop") /\ agentUp' \in {agentUp, FALSE}
    /\ handed' = (handed /\ agentUp')
    /\ UNCHANGED <<named, updateJob, confirmed, unparked>>

ParkAgent(n) ==
    /\ agentUpdater[n] = "park"
    /\ LET parked == [agent |-> "none", previous |-> named.agent]
           free == named.agent # "none" /\ named.previous = "none" IN
        \/ free /\ Done(n, "create") /\ named' = parked
        \/ ~free /\ Done(n, "drop") /\ UNCHANGED named
        \/ Failed(n, "drop") /\ named' \in {named} \cup (IF free THEN {parked} ELSE {})
    /\ UNCHANGED <<agentUp, handed, updateJob, confirmed, unparked>>

\* Creates and starts the replacement, then renews the lease.
StartReplacement(n) ==
    /\ agentUpdater[n] = "create"
    /\ \/ /\ named.agent = "none"
          /\ named' = [named EXCEPT !.agent = "new"]
          /\ agentUp' = TRUE
          /\ Done(n, IF HoldsUpdate(n) THEN "verify" ELSE "remove")
       \/ named.agent # "none" /\ Done(n, "remove") /\ UNCHANGED <<named, agentUp>>
       \/ Failed(n, "remove") /\ UNCHANGED <<named, agentUp>>
    /\ UNCHANGED <<handed, updateJob, confirmed, unparked>>

\* Mutant: the exit code of the heartbeat is not looked at.
VerifyAnyway(n) ==
    /\ agentUpdater[n] = "verify"
    /\ Done(n, "clean")
    /\ UNCHANGED <<named, agentUp, handed, updateJob, confirmed, unparked>>

\* execOnce(): one heartbeat from inside the replacement, and the lease again.
VerifyReplacement(n) ==
    /\ agentUpdater[n] = "verify"
    /\ \/ /\ named.agent = "new" /\ agentUp
          /\ confirmed' = TRUE
          /\ Done(n, IF HoldsUpdate(n) THEN "clean" ELSE "remove")
       \/ ~(named.agent = "new" /\ agentUp) /\ Done(n, "remove") /\ UNCHANGED confirmed
       \/ Failed(n, "remove") /\ UNCHANGED confirmed
    /\ UNCHANGED <<named, agentUp, handed, updateJob, unparked>>

RemovePrevious(n) ==
    /\ agentUpdater[n] = "clean"
    /\ \/ named' = [named EXCEPT !.previous = "none"] /\ Done(n, "succeed")
       \/ Failed(n, "remove") /\ named' \in {named, [named EXCEPT !.previous = "none"]}
    /\ UNCHANGED <<agentUp, handed, updateJob, confirmed, unparked>>

\* The catch: whatever holds the Agent's name is removed by force, also when the
\* old Agent was not parked yet ("drop"); failures are swallowed.
RollBack(n) ==
    /\ agentUpdater[n] \in {"drop", "remove"}
    /\ LET next == IF agentUpdater[n] = "drop" THEN "fail" ELSE "restore" IN
        \/ named' = [named EXCEPT !.agent = "none"] /\ agentUp' = FALSE /\ Done(n, next)
        \/ Failed(n, next) /\ UNCHANGED <<named, agentUp>>
    /\ handed' = (handed /\ agentUp')
    /\ unparked' = (unparked \/ agentUpdater[n] = "drop")
    /\ UNCHANGED <<updateJob, confirmed>>

\* Renames the parked Agent back and starts whatever has the name now.
RestoreAgent(n) ==
    /\ agentUpdater[n] = "restore"
    /\ \/ /\ Done(n, "fail")
          /\ IF named.agent = "none" /\ named.previous # "none"
             THEN named' = [agent |-> named.previous, previous |-> "none"]
             ELSE UNCHANGED named
          /\ agentUp' = (named'.agent # "none")
       \/ Failed(n, "fail") /\ UNCHANGED <<named, agentUp>>
    /\ UNCHANGED <<handed, updateJob, confirmed, unparked>>

\* complete() counts only under a lease that has not lapsed.
ReportUpdate(n) ==
    /\ agentUpdater[n] \in {"succeed", "fail"}
    /\ updateJob' = IF HoldsUpdate(n)
                    THEN [updateJob EXCEPT !.status = IF agentUpdater[n] = "succeed" THEN "succeeded" ELSE "failed"]
                    ELSE updateJob
    /\ UpdaterAt(n, "none")
    /\ UNCHANGED <<named, agentUp, handed, confirmed, unparked, updateFaults>>

\* The updater removes itself and is not restarted.
UpdaterCrash(n) ==
    /\ agentUpdater[n] # "none"
    /\ Failed(n, "none")
    /\ UNCHANGED <<named, agentUp, handed, updateJob, confirmed, unparked>>

UpdateNext ==
    \/ HandOver \/ AgentRestarts \/ UpdateLeaseLapses
    \/ \E n \in UpdateAttempts :
        \/ Preflight(n) \/ StopAgent(n) \/ ParkAgent(n) \/ StartReplacement(n)
        \/ VerifyReplacement(n) \/ RemovePrevious(n) \/ RollBack(n) \/ RestoreAgent(n)
        \/ ReportUpdate(n) \/ UpdaterCrash(n)

UpdateSpec == UpdateInit /\ [][UpdateNext]_updateVars

-----------------------------------------------------------------------------
(* Properties *)

OldAgentKept == "old" \in {named.agent, named.previous}

\* An update that fails leaves the Agent it found, running or parked: ADR-110
\* says that the updater restores the previous version.  The catch of apply()
\* removes the container named initpad-agent even when stopping or renaming the
\* old Agent is what failed.
FailedUpdateKeepsAgent == OldAgentKept \/ confirmed

\* Apart from that, the old Agent is gone only after the new one has sent its
\* heartbeat (apply(): stop, rename, create, execOnce, remove).
OldAgentOutlivesDoubt == OldAgentKept \/ confirmed \/ unparked
=============================================================================
