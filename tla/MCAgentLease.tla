----------------------------- MODULE MCAgentLease -----------------------------
(***************************************************************************)
(* Model checking AgentLease: the agents are interchangeable, and a        *)
(* behaviour is of one of two instances.  "requests": one job, and two     *)
(* requests in flight with progress reports, which may be late or sent     *)
(* again.  "jobs": two jobs, one request in flight, and a target that may  *)
(* be disconnected and enrolled again.                                     *)
(***************************************************************************)
EXTENDS AgentLease, TLC

VARIABLE instance

AgentSymmetry == Permutations(Workers)

\* What an instance leaves out of the bounds of the configuration.
InstanceOf(i, jobs, time, requests, sequences, credentials) ==
    /\ i = "requests" => jobs[2] = NoJob /\ credentials =< 1
    /\ i = "jobs" => time =< 2 /\ Cardinality(requests) =< 1 /\ sequences = {0}

Reported == {job[j].sequence : j \in Jobs} \cup {worker[w].sequence : w \in Workers}

InstanceInit == instance \in {"requests", "jobs"} /\ Init

InstanceNext ==
    /\ Next
    /\ UNCHANGED instance
    /\ InstanceOf(instance, job', clock', calls', Reported', agent'.generation)

InstanceSpec == InstanceInit /\ [][InstanceNext]_<<vars, instance>>

=============================================================================
