------------------------- MODULE MCDeploymentTakeover -------------------------
(***************************************************************************)
(* Model checking the takeovers of one operation, under fairness.          *)
(* "workers": an operation of any kind, and a task for it in each of two   *)
(* processes, which may crash.  "callbacks": a ci-retry whose callbacks    *)
(* meet, two tasks in one of the processes and one in the other, without   *)
(* publishCiFailure(), which "workers" has.                                *)
(***************************************************************************)
EXTENDS MCDeploymentOperations

VARIABLE instance   \* the one that this behaviour is of

InstanceInit == instance \in {"workers", "callbacks"} /\ Init

\* The process has no use for a lane but the first.
OneLane(p, tasks) ==
    \A r \in Runners, o \in Ops : Process(r) = p /\ r # <<p, 1>> => tasks[r][o] = Idle

\* What an instance leaves out of the bounds of the configuration.
InstanceOf(i, rows, tasks, crashed, failing) ==
    /\ i = "workers" => \A p \in Replicas : OneLane(p, tasks)
    /\ i = "callbacks" =>
        /\ \A o \in Ops : rows[o].kind = "ci-retry" /\ rows[o].generation =< 2
        /\ \E p \in Replicas : OneLane(p, tasks)
        /\ crashed = {}
        /\ failing = NoRequest

InstanceNext ==
    /\ Next
    /\ UNCHANGED instance
    /\ InstanceOf(instance, op', task', dead', failure')

InstanceSpec == InstanceInit /\ [][InstanceNext]_<<vars, instance>> /\ Fairness

=============================================================================
