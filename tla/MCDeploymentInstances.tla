------------------------- MODULE MCDeploymentInstances ------------------------
(***************************************************************************)
(* Model checking two instances of DeploymentOperations in one run.        *)
(* "users": the operations users ask for, in two processes.  "ci":         *)
(* ci-retries and deployments, and every interleaving of their handlers in *)
(* one process.  No process crashes: one that takes no further step does   *)
(* the same to the others, and MCDeploymentTakeover has the crashes.       *)
(***************************************************************************)
EXTENDS MCDeploymentOperations

VARIABLE instance   \* the one that this behaviour is of

InstanceInit == instance \in {"users", "ci"} /\ Init

\* At most one process has anything to do.
OneProcess(tasks) ==
    \E p \in Replicas : \A r \in Runners, o \in Ops : Process(r) # p => tasks[r][o] = Idle

InstanceOf(i, kinds, tasks) ==
    /\ i = "users" => "ci-retry" \notin kinds
    /\ i = "ci" => kinds \subseteq {"deploy", "ci-retry"} /\ OneProcess(tasks)

InstanceNext ==
    /\ Next
    /\ UNCHANGED <<instance, dead>>
    /\ InstanceOf(instance, {op'[o].kind : o \in Ops}, task')

InstanceSpec == InstanceInit /\ [][InstanceNext]_<<vars, instance>>

=============================================================================
