-------------------------- MODULE AgentDeliveryProofs --------------------------
(***************************************************************************)
(* Proofs about AgentDelivery and the AgentWorkload below it, for every    *)
(* number of operations, projectors, failures and troubles.  DeliveryInv   *)
(* relates the rows of the control plane, the requests that queue and      *)
(* project, and the agent on its host: in particular an operation that has *)
(* kept the environment to itself (Undisturbed) finds on the host what its *)
(* decided jobs reported, because the agent knows in each phase what lies  *)
(* behind it (HostSound) and no other job is worked on meanwhile.          *)
(* Most actions of the control plane are shown to move each variable only  *)
(* as ControlStep allows, and ControlStep to keep the invariant; the       *)
(* agent's steps are shown to be HostMoves, and those to keep it too.      *)
(***************************************************************************)
EXTENDS AgentDelivery, FiniteSetTheorems, TLAPS

EnvRow == [lock : 0..MaxOps, version : {0} \cup Revisions,
           status : {"empty", "deploying", "running", "stopped", "failed"}]
OpRow == [kind : {"deploy", "start", "stop", "remove"},
          status : {"absent", "running", "succeeded", "failed", "cancelled"},
          finished : BOOLEAN, version : {0} \cup Revisions]
RouteRow == [generation : Nat, desired : Observation, observed : Observation,
             reconcile : Keys \cup {Nobody}]
QueueSteps == {"idle", "begun", "blocked", "stored", "failing", "recovering"}
ProjectorRow == [pc : {"idle", "route", "read", "act", "fail"}, key : Keys \cup {Nobody},
                 version : {0} \cup Revisions, seen : Observation]
RemovalRow == [pc : {"idle", "deliver", "plain", "begin"}, op : 0..MaxOps]
FaultRow == [kills : 0..MaxKills, stops : 0..MaxStops, cancels : 0..MaxCancels,
             refusals : 0..MaxRefusals]

\* The rows and the requests.
RowTypes ==
    /\ env \in EnvRow
    /\ op \in [Ops -> OpRow]
    /\ \A o \in Ops : op[o].finished => op[o].status \notin {"absent", "running"}
    /\ job \in [Keys -> Job]
    /\ route \in RouteRow
    /\ queueing \in [Ops -> QueueSteps]
    /\ projector \in [Projectors -> ProjectorRow]
    /\ removal \in RemovalRow
    /\ running \in Keys \cup {Nobody}
    /\ clock \in Nat
    /\ faults \in FaultRow
    /\ strayed \in BOOLEAN

Begun(o) == op[o].status # "absent"
NoJobs(o) == \A s \in Steps : job[<<o, s>>].status = "absent"

\* Of an operation that has not begun there is nothing; the others have a version.
NothingBeforeBegin ==
    /\ \A o \in Ops : ~Begun(o) => queueing[o] = "idle" /\ NoJobs(o)
    /\ \A o \in Ops : Begun(o) => op[o].version # 0
    /\ env.lock # 0 => Begun(env.lock)
    /\ removal.pc # "idle" => removal.op # 0 /\ Begun(removal.op)

\* The request that queues has stored no job yet, or the second of a teardown.
QueueingSound ==
    \A o \in Ops :
        /\ queueing[o] = "begun" => NoJobs(o)
        /\ queueing[o] = "blocked" => managed /\ Teardown(o)
        /\ ~managed => job[<<o, 2>>].status = "absent"

ProjectorsSound ==
    \A p \in Projectors : projector[p].pc # "idle" =>
        projector[p].key \in Keys /\ job[projector[p].key].status \in Decided

\* What the route is to become is what the operation of its last generation asks for.
RouteFits(row) ==
    /\ row.observed.generation <= row.generation
    /\ row.reconcile # Nobody =>
           LET o == row.reconcile[1] IN
           /\ Begun(o)
           /\ row.desired = [state |-> Desired(o).state, rev |-> Desired(o).rev,
                             generation |-> row.generation]
           /\ row.observed.generation < row.generation

\* The agent works on a job that is still leased, or was cancelled meanwhile.
RunningSound ==
    exec.pc # "idle" => running \in Keys /\ job[running].status \in {"leased", "cancelled"}

-----------------------------------------------------------------------------

\* A report that the control plane takes for the success of step k.
Reported(ok, result, k) == ok /\ (IsRoute(k) \/ result \in ExpectedResult(k))

\* What step k is to bring about on the host.
Achieved(k) ==
    LET o == k[1] IN
    IF IsRoute(k) THEN IF Teardown(o) THEN upstream = 0 ELSE Serves(op[o].version)
    ELSE CASE op[o].kind \in {"deploy", "start"} -> Live(op[o].version)
           [] op[o].kind = "stop"   -> ~container[op[o].version].up
           [] op[o].kind = "remove" -> \A r \in Revisions : managed => container[r] = Missing

PhasesOf(kind) ==
    CASE kind = "deploy"     -> {"workload", "waiting", "renaming", "final"}
      [] kind = "start"      -> {"workload", "final"}
      [] kind = "stop"       -> {"stopping"}
      [] kind = "remove"     -> {"removing"}
      [] kind = "activate"   -> {"connect", "switch", "verify", "commit", "restore", "discard",
                                 "detach"}
      [] kind = "deactivate" -> {"clear", "disconnect", "reattach"}

\* The agent is on the course of the job that it runs, and has done what lies behind it.
HostSound ==
    /\ ~managed => upstream = 0
    /\ \A r \in Revisions : container[r].name = "none" => container[r] = Missing
    /\ exec.pc \notin {"idle", "done"} =>
           exec.job = HostJob(running) /\ exec.pc \in PhasesOf(exec.job.kind)
    /\ exec.pc \in {"switch", "verify", "commit"} => Live(exec.job.rev) /\ attached
    /\ exec.pc \in {"verify", "commit"} => upstream = exec.job.rev
    /\ exec.pc = "disconnect" => upstream = 0
    /\ exec.pc = "done" /\ Reported(exec.ok, exec.result, running) => Achieved(running)

LastKey(o) == <<o, IF managed THEN 2 ELSE 1>>

Succeeded(k) == job[k].status = "succeeded" /\ Reported(TRUE, job[k].result, k)

\* An active operation has the environment, the agent and the host to itself.
HasHost(o) ==
    /\ env.lock = o
    /\ exec.pc # "idle" /\ running[1] # o =>
           \A s \in Steps : job[<<o, s>>].status \in {"absent", "blocked", "queued", "cancelled"}
    /\ managed /\ Teardown(o) /\ job[<<o, 1>>].status = "succeeded" => upstream = 0
    /\ Succeeded(LastKey(o)) => OnHost(o)

Undisturbed == ~strayed => \A o \in Ops : Active(o) => HasHost(o)

DeliveryInv ==
    /\ HostTypeOK
    /\ RowTypes
    /\ NothingBeforeBegin
    /\ QueueingSound
    /\ ProjectorsSound
    /\ RunningSound
    /\ SuccessNeedsEveryStep
    /\ RouteFits(route)
    /\ HostSound
    /\ Undisturbed

-----------------------------------------------------------------------------

(* Keys are pairs of an operation and a step, and Nobody is none of them. *)
LEMMA KeyFacts ==
    /\ \A o \in Ops : <<o, 1>> \in Keys /\ <<o, 2>> \in Keys
    /\ \A o \in Ops, s \in Steps : <<o, s>> \in Keys /\ <<o, s>>[1] = o /\ <<o, s>>[2] = s
    /\ \A k \in Keys : k[1] \in Ops /\ k[2] \in Steps /\ k = <<k[1], k[2]>>
    /\ \A k \in Keys : k[2] = 1 \/ k[2] = 2
    /\ Nobody \notin Keys
    /\ \A o \in Ops : LastKey(o) \in Keys /\ RouteStepOf(o) \in Steps
    /\ \A o \in Ops : <<o, RouteStepOf(o)>> \in Keys
    /\ 0 \notin Ops /\ Ops \subseteq 0..MaxOps
  BY DeliveryAssumption DEF Keys, Ops, Steps, Nobody, LastKey, RouteStepOf

(* What control-plane actions may do, variable by variable.  None leases or decides a job. *)
JobMoves(k) ==
    \/ job'[k] = job[k]
    \/ /\ job[k].status = "absent" /\ job'[k].status \in {"queued", "blocked"}
       /\ Begun(k[1]) /\ queueing'[k[1]] # "begun"
       /\ k[2] = 2 => managed
       /\ k[2] = 2 /\ job'[k].status = "queued" => job[<<k[1], 1>>].status = "succeeded"
    \/ /\ job[k].status = "blocked" /\ job'[k].status = "queued"
       /\ k[2] = 2 => job[<<k[1], 1>>].status = "succeeded"
    \/ job[k].status \in {"blocked", "queued", "leased"} /\ job'[k].status = "cancelled"

JobsMove == \A k \in Keys : JobMoves(k)

Begins(o) ==
    /\ op'[o].version # 0 /\ op'[o].status = "running" /\ queueing'[o] = "begun"
    /\ env.lock = 0 /\ env'.lock = o

OpMoves(o) ==
    /\ Begun(o) => op'[o].status # "absent" /\ op'[o].kind = op[o].kind
                   /\ op'[o].version = op[o].version
    /\ Begun(o) /\ op'[o].status = "running" => op'[o] = op[o]
    /\ ~Begun(o) => op'[o] = op[o] \/ Begins(o)
    /\ op'[o].status = "succeeded" /\ op[o].status # "succeeded" =>
           \A s \in IF managed THEN Steps ELSE {1} : job[<<o, s>>].status = "succeeded"

OpsMove == \A o \in Ops : OpMoves(o)

LockMoves ==
    /\ \/ env'.lock \in {env.lock, 0}
       \/ ~Begun(env'.lock) /\ op'[env'.lock].status # "absent"
    /\ env'.lock # env.lock /\ env.lock # 0 => strayed' \/ op'[env.lock].status # "running"

QueueMoves ==
    \A o \in Ops :
        \/ queueing'[o] = queueing[o]
        \/ /\ op'[o].status # "absent"
           /\ queueing'[o] = "begun" => ~Begun(o)
           /\ queueing'[o] = "blocked" => managed /\ Teardown(o) /\ Begun(o)

RemovalMoves == removal'.pc # "idle" => removal'.op # 0 /\ Begun(removal'.op)

ProjectorsMove ==
    \A p \in Projectors : projector'[p].pc # "idle" =>
        projector'[p].key \in Keys /\ job[projector'[p].key].status \in Decided

ControlStep ==
    /\ UNCHANGED <<hostVars, running>>
    /\ JobsMove /\ OpsMove /\ LockMoves /\ QueueMoves /\ RemovalMoves /\ ProjectorsMove
    /\ RouteFits(route')
    /\ strayed => strayed'

(* What an action leaves alone moves as it may. *)
LEMMA Stays ==
  ASSUME DeliveryInv
  PROVE  /\ UNCHANGED job => JobsMove
         /\ UNCHANGED op => OpsMove
         /\ UNCHANGED env => LockMoves
         /\ UNCHANGED queueing => QueueMoves
         /\ UNCHANGED removal => RemovalMoves
         /\ UNCHANGED projector => ProjectorsMove
         /\ UNCHANGED route => RouteFits(route')
<1>1. UNCHANGED job => JobsMove
  BY DEF JobsMove, JobMoves
<1>2. UNCHANGED op => OpsMove
  BY DEF OpsMove, OpMoves, Begins, Begun
<1>3. UNCHANGED env => LockMoves
  BY DEF LockMoves
<1>4. UNCHANGED queueing => QueueMoves
  BY DEF QueueMoves
<1>5. UNCHANGED removal => RemovalMoves
  BY DEF RemovalMoves, DeliveryInv, NothingBeforeBegin
<1>6. UNCHANGED projector => ProjectorsMove
  BY DEF ProjectorsMove, DeliveryInv, ProjectorsSound
<1>7. UNCHANGED route => RouteFits(route')
  BY DEF RouteFits, DeliveryInv
<1> QED
  BY <1>1, <1>2, <1>3, <1>4, <1>5, <1>6, <1>7

(* The control plane's actions disturb nothing of the invariant. *)
LEMMA ControlKeeps ==
  ASSUME DeliveryInv, ControlStep, RowTypes'
  PROVE  DeliveryInv'
<1> USE KeyFacts
<1>1. /\ HostTypeOK /\ RowTypes /\ NothingBeforeBegin /\ QueueingSound /\ ProjectorsSound
      /\ RunningSound /\ SuccessNeedsEveryStep /\ HostSound /\ Undisturbed
      /\ RouteFits(route)
  BY DEF DeliveryInv
<1>2. /\ JobsMove /\ OpsMove /\ LockMoves /\ QueueMoves /\ RemovalMoves /\ ProjectorsMove
      /\ RouteFits(route') /\ (strayed => strayed')
      /\ UNCHANGED <<hostVars, running>>
  BY DEF ControlStep
<1>3. /\ managed' = managed /\ container' = container /\ upstream' = upstream
      /\ attached' = attached /\ exec' = exec /\ running' = running /\ failures' = failures
  BY <1>2 DEF hostVars
<1>4. /\ env \in EnvRow /\ env' \in EnvRow /\ removal' \in RemovalRow /\ removal \in RemovalRow
      /\ op \in [Ops -> OpRow] /\ op' \in [Ops -> OpRow]
      /\ \A o \in Ops : op'[o].finished => op'[o].status \notin {"absent", "running"}
      /\ route' \in RouteRow
  BY <1>1 DEF RowTypes
<1>5. /\ env'.lock \in 0..MaxOps /\ removal'.op \in 0..MaxOps /\ env.lock \in 0..MaxOps
      /\ \A o \in 0..MaxOps : o # 0 => o \in Ops
  BY <1>4, DeliveryAssumption DEF EnvRow, RemovalRow, Ops
<1> HIDE DEF EnvRow, RemovalRow, OpRow
<1>6. \A o \in Ops : Begun(o) => op'[o].status # "absent" /\ op'[o].kind = op[o].kind
                                 /\ op'[o].version = op[o].version
  BY <1>2 DEF OpsMove, OpMoves
<1>7. ASSUME NEW o \in Ops, NEW s \in Steps, job[<<o, s>>].status = "absent"
      PROVE  job'[<<o, s>>].status = "absent" \/ (Begun(o) /\ queueing'[o] # "begun")
  <2>1. JobMoves(<<o, s>>)
    BY <1>2 DEF JobsMove
  <2>2. <<o, s>>[1] = o
    OBVIOUS
  <2> QED
    BY <2>1, <2>2, <1>7 DEF JobMoves
<1>8. \A o \in Ops : ~Begun(o) => op'[o] = op[o] \/ Begins(o)
  BY <1>2 DEF OpsMove, OpMoves
<1>9. HostTypeOK'
  BY <1>1, <1>3 DEF HostTypeOK
<1>10. NothingBeforeBegin'
  <2>1. ASSUME NEW o \in Ops, ~Begun(o)'
        PROVE  queueing'[o] = "idle" /\ NoJobs(o)'
    <3>1. ~Begun(o) /\ op'[o] = op[o] /\ queueing[o] = "idle" /\ NoJobs(o)
      BY <2>1, <1>1, <1>6, <1>8 DEF Begun, Begins, NothingBeforeBegin
    <3>2. queueing'[o] = "idle"
      BY <2>1, <3>1, <1>2 DEF QueueMoves, Begun
    <3>3. ASSUME NEW s \in Steps PROVE job'[<<o, s>>].status = "absent"
      BY <3>1, <3>3, <1>7 DEF NoJobs
    <3> QED
      BY <3>2, <3>3 DEF NoJobs
  <2>2. ASSUME NEW o \in Ops, Begun(o)' PROVE op'[o].version # 0
    BY <2>2, <1>1, <1>6, <1>8 DEF Begun, Begins, NothingBeforeBegin
  <2>3. env'.lock # 0 => op'[env'.lock].status # "absent"
    BY <1>1, <1>2, <1>5, <1>6 DEF LockMoves, NothingBeforeBegin, Begun
  <2>4. removal'.pc # "idle" => removal'.op # 0 /\ op'[removal'.op].status # "absent"
    BY <1>2, <1>5, <1>6 DEF RemovalMoves, Begun
  <2> QED
    BY <2>1, <2>2, <2>3, <2>4 DEF NothingBeforeBegin, Begun
<1>11. QueueingSound'
  <2> SUFFICES ASSUME NEW o \in Ops
               PROVE  /\ queueing'[o] = "begun" => NoJobs(o)'
                      /\ queueing'[o] = "blocked" => managed' /\ Teardown(o)'
                      /\ ~managed' => job'[<<o, 2>>].status = "absent"
    BY DEF QueueingSound
  <2>1. ASSUME queueing'[o] = "begun", NEW s \in Steps PROVE job'[<<o, s>>].status = "absent"
    <3>1. NoJobs(o)
      BY <2>1, <1>1, <1>2 DEF QueueMoves, QueueingSound, NothingBeforeBegin
    <3> QED
      BY <2>1, <3>1, <1>7 DEF NoJobs
  <2>2. queueing'[o] = "blocked" => managed' /\ Teardown(o)'
    <3>1. queueing'[o] = "blocked" => managed /\ Teardown(o) /\ Begun(o)
      BY <1>1, <1>2 DEF QueueMoves, QueueingSound, NothingBeforeBegin
    <3> QED
      BY <3>1, <1>3, <1>6 DEF Teardown
  <2>3. ~managed' => job'[<<o, 2>>].status = "absent"
    <3>1. JobMoves(<<o, 2>>)
      BY <1>2 DEF JobsMove
    <3> QED
      BY <3>1, <1>1, <1>3 DEF JobMoves, QueueingSound
  <2> QED
    BY <2>1, <2>2, <2>3 DEF NoJobs
<1>12. ProjectorsSound'
  <2>1. \A k \in Keys : job[k].status \in Decided => job'[k].status = job[k].status
    BY <1>2 DEF JobsMove, JobMoves, Decided
  <2> QED
    BY <2>1, <1>2 DEF ProjectorsMove, ProjectorsSound
<1>13. RunningSound'
  <2>1. \A k \in Keys : job[k].status \in {"leased", "cancelled"} =>
                            job'[k].status \in {"leased", "cancelled"}
    BY <1>2 DEF JobsMove, JobMoves
  <2> QED
    BY <2>1, <1>1, <1>3 DEF RunningSound
<1>14. SuccessNeedsEveryStep'
  <2>1. \A k \in Keys : job[k].status = "succeeded" => job'[k].status = "succeeded"
    BY <1>2 DEF JobsMove, JobMoves
  <2> SUFFICES ASSUME NEW o \in Ops
               PROVE  /\ job'[<<o, 2>>].status \in {"queued", "leased", "succeeded", "failed"} =>
                             job'[<<o, 1>>].status = "succeeded"
                      /\ op'[o].status = "succeeded" =>
                             \A s \in IF managed' THEN Steps ELSE {1} :
                                 job'[<<o, s>>].status = "succeeded"
    BY DEF SuccessNeedsEveryStep
  <2>2. job'[<<o, 2>>].status \in {"queued", "leased", "succeeded", "failed"} =>
            job[<<o, 1>>].status = "succeeded"
    <3>1. JobMoves(<<o, 2>>)
      BY <1>2 DEF JobsMove
    <3> QED
      BY <3>1, <1>1 DEF JobMoves, SuccessNeedsEveryStep
  <2>3. op'[o].status = "succeeded" =>
            \A s \in IF managed THEN Steps ELSE {1} : job[<<o, s>>].status = "succeeded"
    BY <1>1, <1>2 DEF OpsMove, OpMoves, SuccessNeedsEveryStep
  <2>4. (IF managed THEN Steps ELSE {1}) \subseteq Steps
    BY DEF Steps
  <2> QED
    BY <2>1, <2>2, <2>3, <2>4, <1>3
<1>15. RouteFits(route)'
  <2>1. route'.reconcile # Nobody => route'.reconcile[1] \in Ops
    BY <1>4 DEF RouteRow
  <2>2. \A o \in Ops : Begun(o) => Desired(o)' = Desired(o)
    BY <1>6 DEF Desired
  <2> QED
    BY <2>1, <2>2, <1>2, <1>6 DEF RouteFits, Begun
<1>16. HostSound'
  <2>1. ASSUME exec.pc # "idle"
        PROVE  /\ running \in Keys /\ running[1] \in Ops
               /\ op'[running[1]].kind = op[running[1]].kind
               /\ op'[running[1]].version = op[running[1]].version
               /\ op[running[1]].kind \in {"deploy", "start", "stop", "remove"}
    <3>1. running \in Keys /\ job[running].status # "absent"
      BY <2>1, <1>1 DEF RunningSound
    <3>2. Begun(running[1])
      BY <3>1, <1>1 DEF NothingBeforeBegin, NoJobs
    <3> QED
      BY <3>1, <3>2, <1>4, <1>6 DEF OpRow
  <2>2. ASSUME exec.pc # "idle"
        PROVE  /\ HostJob(running)' = HostJob(running)
               /\ Achieved(running)' = Achieved(running)
               /\ Reported(exec.ok, exec.result, running)' = Reported(exec.ok, exec.result, running)
    <3>1. IsRoute(running)' = IsRoute(running) /\ Teardown(running[1])' = Teardown(running[1])
      BY <2>1, <2>2, <1>3 DEF IsRoute, Teardown, RouteStepOf
    <3>2. HostJob(running)' = HostJob(running)
      BY <2>1, <2>2, <3>1, <1>3 DEF HostJob
    <3>3. Achieved(running)' = Achieved(running)
      BY <2>1, <2>2, <3>1, <1>3 DEF Achieved, Serves, Live
    <3>4. ExpectedResult(running)' = ExpectedResult(running)
      BY <2>1, <2>2, <3>1, <1>3 DEF ExpectedResult
    <3> QED
      BY <3>1, <3>2, <3>3, <3>4, <1>3 DEF Reported
  <2>3. /\ exec.pc \notin {"idle", "done"} => exec.job = HostJob(running)
        /\ exec.pc = "done" /\ Reported(exec.ok, exec.result, running) => Achieved(running)
    BY <1>1 DEF HostSound
  <2>4. exec.pc = "done" /\ Reported(exec.ok, exec.result, running)' => Achieved(running)'
    BY <2>2, <2>3, <1>3
  <2>5. exec.pc \notin {"idle", "done"} => exec.job = HostJob(running)'
    BY <2>2, <2>3
  <2> QED
    BY <2>4, <2>5, <1>1, <1>3 DEF HostSound, Live
<1>17. Undisturbed'
  <2> SUFFICES ASSUME NEW o \in Ops, ~strayed', Active(o)' PROVE HasHost(o)'
    BY DEF Undisturbed
  <2>1. op'[o].status = "running" /\ ~strayed /\ o # 0
    BY <1>2 DEF Active
  <2>2. CASE ~Begun(o)
    <3>1. env'.lock = o /\ queueing'[o] = "begun"
      BY <2>1, <2>2, <1>8 DEF Begun, Begins
    <3>2. \A s \in Steps : job'[<<o, s>>].status = "absent"
      BY <3>1, <1>11 DEF QueueingSound, NoJobs
    <3>3. job'[<<o, 1>>].status = "absent" /\ job'[LastKey(o)'].status = "absent"
      BY <3>2 DEF LastKey, Steps
    <3> QED
      BY <3>1, <3>2, <3>3 DEF HasHost, Succeeded
  <2>3. CASE Begun(o)
    <3>1. op'[o] = op[o]
      BY <2>1, <2>3, <1>2 DEF OpsMove, OpMoves
    <3>2. Active(o) /\ HasHost(o)
      BY <2>1, <3>1, <1>1 DEF Active, Undisturbed
    <3>3. env'.lock = o
      BY <2>1, <3>1, <3>2, <1>2 DEF LockMoves, HasHost
    <3>4. ASSUME NEW s \in Steps
          PROVE  /\ job[<<o, s>>].status \in {"absent", "blocked", "queued", "cancelled"} =>
                       job'[<<o, s>>].status \in {"absent", "blocked", "queued", "cancelled"}
                 /\ job'[<<o, s>>].status = "succeeded" => job'[<<o, s>>] = job[<<o, s>>]
      BY <1>2 DEF JobsMove, JobMoves
    <3>5. 1 \in Steps /\ \E s \in Steps : LastKey(o) = <<o, s>>
      BY DEF LastKey, Steps
    <3>6. Teardown(o)' = Teardown(o) /\ OnHost(o)' = OnHost(o) /\ LastKey(o)' = LastKey(o)
      BY <3>1, <1>3 DEF Teardown, OnHost, Serves, Live, LastKey
    <3>7. Succeeded(LastKey(o))' => Succeeded(LastKey(o))
      <4>1. job'[LastKey(o)].status = "succeeded" => job'[LastKey(o)] = job[LastKey(o)]
        BY <3>4, <3>5
      <4>2. LastKey(o)[1] = o
        BY DEF LastKey
      <4>3. op[o].kind \in {"deploy", "start", "stop", "remove"}
        BY <1>4 DEF OpRow
      <4> QED
        BY <4>1, <4>2, <4>3, <3>1, <3>6, <1>3
        DEF Succeeded, Reported, IsRoute, RouteStepOf, Teardown, ExpectedResult
    <3>8. /\ managed /\ Teardown(o) /\ job[<<o, 1>>].status = "succeeded" => upstream = 0
          /\ Succeeded(LastKey(o)) => OnHost(o)
          /\ exec.pc # "idle" /\ running[1] # o =>
               \A s \in Steps :
                   job[<<o, s>>].status \in {"absent", "blocked", "queued", "cancelled"}
      BY <3>2 DEF HasHost
    <3> QED
      BY <3>3, <3>4, <3>5, <3>6, <3>7, <3>8, <1>3 DEF HasHost
  <2> QED
    BY <2>2, <2>3
<1> QED
  BY <1>9, <1>10, <1>11, <1>12, <1>13, <1>14, <1>15, <1>16, <1>17 DEF DeliveryInv, RowTypes

(* The row of an operation, the environment and the request that queues, once it has begun. *)
LEMMA BeginMoves ==
  ASSUME DeliveryInv, NEW o \in Ops, NEW version \in Revisions,
         NEW kind \in {"deploy", "start", "stop", "remove"},
         op[o].status = "absent", env.lock = 0,
         op' = [op EXCEPT ![o] = [kind |-> kind, status |-> "running",
                                  finished |-> FALSE, version |-> version]],
         env' = [env EXCEPT !.lock = o],
         queueing' = [queueing EXCEPT ![o] = "begun"]
  PROVE  /\ op' \in [Ops -> OpRow] /\ env' \in EnvRow /\ queueing' \in [Ops -> QueueSteps]
         /\ \A q \in Ops : op'[q].finished => op'[q].status \notin {"absent", "running"}
         /\ OpsMove /\ LockMoves /\ QueueMoves
<1> USE KeyFacts
<1>1. RowTypes
  BY DEF DeliveryInv
<1>2. op \in [Ops -> OpRow] /\ env \in EnvRow /\ queueing \in [Ops -> QueueSteps]
      /\ \A q \in Ops : op[q].finished => op[q].status \notin {"absent", "running"}
  BY <1>1 DEF RowTypes
<1>3. version # 0
  BY WorkloadAssumption
<1>4. /\ op'[o] = [kind |-> kind, status |-> "running", finished |-> FALSE, version |-> version]
      /\ \A q \in Ops : q # o => op'[q] = op[q]
      /\ queueing'[o] = "begun"
      /\ \A q \in Ops : q # o => queueing'[q] = queueing[q]
  BY <1>2
<1>5. [kind |-> kind, status |-> "running", finished |-> FALSE, version |-> version] \in OpRow
  BY DEF OpRow
<1>6. op' \in [Ops -> OpRow] /\ queueing' \in [Ops -> QueueSteps]
  <2> HIDE DEF OpRow
  <2> QED
    BY <1>2, <1>5 DEF QueueSteps
<1>7. env' \in EnvRow /\ env'.lock = o
  BY <1>2 DEF EnvRow
<1>8. OpsMove
  BY <1>3, <1>4, <1>7 DEF OpsMove, OpMoves, Begins, Begun
<1>9. LockMoves
  BY <1>4, <1>7 DEF LockMoves, Begun
<1>10. QueueMoves
  BY <1>4 DEF QueueMoves, Begun
<1>11. \A q \in Ops : op'[q].finished => op'[q].status \notin {"absent", "running"}
  BY <1>2, <1>4
<1> QED
  BY <1>6, <1>7, <1>8, <1>9, <1>10, <1>11

(* One operation's row is closed or marked; what it is about stays. *)
LEMMA OneOpMoves ==
  ASSUME DeliveryInv, NEW o \in Ops, Begun(o),
         NEW status \in {"succeeded", "failed", "cancelled"}, NEW finished \in BOOLEAN,
         status = "succeeded" /\ op[o].status # "succeeded" =>
             \A s \in IF managed THEN Steps ELSE {1} : job[<<o, s>>].status = "succeeded",
         op' = [op EXCEPT ![o].status = status, ![o].finished = finished]
  PROVE  /\ op' \in [Ops -> OpRow] /\ OpsMove
         /\ \A q \in Ops : op'[q].finished => op'[q].status \notin {"absent", "running"}
         /\ op'[o].status # "running"
<1>1. RowTypes
  BY DEF DeliveryInv
<1>2. op \in [Ops -> OpRow]
      /\ \A q \in Ops : op[q].finished => op[q].status \notin {"absent", "running"}
  BY <1>1 DEF RowTypes
<1> DEFINE row == [[op[o] EXCEPT !.status = status] EXCEPT !.finished = finished]
<1>3. op' = [op EXCEPT ![o] = row]
  BY <1>2
<1>4. row \in OpRow /\ row.kind = op[o].kind /\ row.version = op[o].version
      /\ row.status = status
  BY <1>2 DEF OpRow
<1> HIDE DEF row
<1>5. op'[o] = row /\ \A q \in Ops : q # o => op'[q] = op[q]
  BY <1>2, <1>3
<1>6. op' \in [Ops -> OpRow]
  <2> HIDE DEF OpRow
  <2> QED
    BY <1>2, <1>3, <1>4
<1>7. OpsMove
  <2> SUFFICES ASSUME NEW q \in Ops PROVE OpMoves(q)
    BY DEF OpsMove
  <2>1. CASE q = o
    BY <2>1, <1>4, <1>5 DEF OpMoves, Begun
  <2>2. CASE q # o
    BY <2>2, <1>5 DEF OpMoves, Begun
  <2> QED
    BY <2>1, <2>2
<1> QED
  BY <1>2, <1>4, <1>5, <1>6, <1>7

(* The environment is released, if the operation has it. *)
LEMMA ReleaseMoves ==
  ASSUME DeliveryInv, NEW o \in Ops,
         NEW status \in {"empty", "deploying", "running", "stopped", "failed"},
         NEW version \in {0} \cup Revisions,
         env' = Release(o, status, version), op'[o].status # "running"
  PROVE  env' \in EnvRow /\ LockMoves
<1> USE KeyFacts
<1>1. env \in EnvRow
  BY DEF DeliveryInv, RowTypes
<1>2. env' = env \/ (env.lock = o /\ env' = [lock |-> 0, status |-> status, version |-> version])
  BY DEF Release
<1>3. [lock |-> 0, status |-> status, version |-> version] \in EnvRow
  BY DeliveryAssumption DEF EnvRow
<1>4. env' \in EnvRow /\ (env' = env \/ (env.lock = o /\ env'.lock = 0))
  BY <1>1, <1>2, <1>3
<1> QED
  BY <1>4 DEF LockMoves

(* One request that queues goes on. *)
LEMMA QueueingMoves ==
  ASSUME DeliveryInv, NEW o \in Ops, queueing[o] # "idle",
         NEW step \in QueueSteps \ {"begun"},
         step = "blocked" => managed /\ Teardown(o),
         op'[o].status # "absent",
         queueing' = [queueing EXCEPT ![o] = step]
  PROVE  queueing' \in [Ops -> QueueSteps] /\ QueueMoves /\ Begun(o)
<1>1. queueing \in [Ops -> QueueSteps]
  BY DEF DeliveryInv, RowTypes
<1>2. Begun(o)
  BY DEF DeliveryInv, NothingBeforeBegin
<1>3. queueing' \in [Ops -> QueueSteps] /\ queueing'[o] = step
      /\ \A q \in Ops : q # o => queueing'[q] = queueing[q]
  BY <1>1
<1> QED
  BY <1>2, <1>3 DEF QueueMoves

(* A job row that is cancelled or given another status stays a job row. *)
LEMMA JobRows ==
  /\ NoJobRow \in Job
  /\ \A row \in Job, status \in JobStatus :
         [row EXCEPT !.status = status] \in Job /\ [row EXCEPT !.status = status].status = status
  /\ \A row \in Job : [row EXCEPT !.status = "cancelled"] \in Job
                     /\ [row EXCEPT !.status = "cancelled"].status = "cancelled"
<1>1. NoJobRow \in Job
  BY DEF Job, NoJobRow, JobStatus, Results
<1>2. \A row \in Job, status \in JobStatus :
         [row EXCEPT !.status = status] \in Job /\ [row EXCEPT !.status = status].status = status
  BY DEF Job
<1>3. "cancelled" \in JobStatus
  BY DEF JobStatus
<1> QED
  BY <1>1, <1>2, <1>3

(* What is stored with a new job. *)
LEMMA NewJobRow ==
  ASSUME NEW status \in JobStatus, NEW n \in Nat, NEW g \in Nat
  PROVE  LET row == [NoJobRow EXCEPT !.status = status, !.born = n, !.generation = g] IN
         row \in Job /\ row.status = status
  BY DEF Job, NoJobRow, JobStatus, Results

(* Jobs that are not decided are cancelled. *)
LEMMA CancelMoves ==
  ASSUME DeliveryInv, NEW o \in Ops, NEW S \in SUBSET {"blocked", "queued", "leased"},
         job' = CancelJobs(job, o, S)
  PROVE  job' \in [Keys -> Job] /\ JobsMove
<1>1. job \in [Keys -> Job]
  BY DEF DeliveryInv, RowTypes
<1>2. ASSUME NEW k \in Keys
      PROVE  \/ job'[k] = job[k]
             \/ /\ job[k].status \in S
                /\ job'[k] = [job[k] EXCEPT !.status = "cancelled"]
  BY <1>1 DEF CancelJobs
<1>3. \A k \in Keys : [job[k] EXCEPT !.status = "cancelled"] \in Job
                      /\ [job[k] EXCEPT !.status = "cancelled"].status = "cancelled"
  BY <1>1, JobRows
<1>4. job' \in [Keys -> Job]
  <2>1. \A k \in Keys : job'[k] \in Job
    BY <1>1, <1>2, <1>3
  <2>2. job' = [k \in Keys |-> job'[k]]
    BY DEF CancelJobs
  <2> QED
    BY <2>1, <2>2
<1>5. JobsMove
  BY <1>2, <1>3 DEF JobsMove, JobMoves
<1> QED
  BY <1>4, <1>5

(* A new generation of the route. *)
LEMMA QueueRouteMoves ==
  ASSUME DeliveryInv, NEW o \in Ops, Begun(o), managed, QueueRoute(o),
         queueing'[o] # "begun",
         Teardown(o) \/ job[<<o, 1>>].status = "succeeded"
  PROVE  /\ job' \in [Keys -> Job] /\ JobsMove
         /\ route' \in RouteRow /\ RouteFits(route')
         /\ clock' \in Nat
         /\ strayed' \in BOOLEAN /\ (strayed => strayed')
<1> USE KeyFacts
<1> DEFINE k == <<o, RouteStepOf(o)>>
           generation == route.generation + 1
           row == [NoJobRow EXCEPT !.status = "queued", !.born = clock + 1,
                                   !.generation = generation]
<1>1. /\ job \in [Keys -> Job] /\ route \in RouteRow /\ clock \in Nat /\ strayed \in BOOLEAN
      /\ op \in [Ops -> OpRow]
  BY DEF DeliveryInv, RowTypes
<1>2. /\ job[k].status = "absent"
      /\ route' = [route EXCEPT !.generation = generation, !.reconcile = k,
                                !.desired = [state |-> Desired(o).state, rev |-> Desired(o).rev,
                                             generation |-> generation]]
      /\ job' = [x \in Keys |->
                   IF x = k THEN row
                   ELSE IF x[1] \in Superseded(o) /\ IsRoute(x)
                        THEN [job[x] EXCEPT !.status = "cancelled"] ELSE job[x]]
      /\ clock' = clock + 1
      /\ strayed' = (strayed \/ env.lock # o)
  BY DEF QueueRoute
<1>3. generation \in Nat /\ k \in Keys /\ k[1] = o /\ k[2] = RouteStepOf(o)
  BY <1>1 DEF RouteRow
<1>4. row \in Job /\ row.status = "queued"
  <2>1. clock + 1 \in Nat /\ "queued" \in JobStatus
    BY <1>1 DEF JobStatus
  <2> HIDE DEF generation
  <2> QED
    BY <2>1, <1>3, NewJobRow
<1> HIDE DEF row
<1>5. ASSUME NEW x \in Keys, x[1] \in Superseded(o), IsRoute(x) PROVE job[x].status = "queued"
  <2>1. x = <<x[1], RouteStepOf(x[1])>>
    BY <1>5 DEF IsRoute
  <2> QED
    BY <2>1, <1>5 DEF Superseded
<1>6. \A x \in Keys : [job[x] EXCEPT !.status = "cancelled"] \in Job
                      /\ [job[x] EXCEPT !.status = "cancelled"].status = "cancelled"
  BY <1>1, JobRows
<1>7. job' \in [Keys -> Job]
  <2>1. \A x \in Keys : job'[x] \in Job
    BY <1>1, <1>2, <1>4, <1>6
  <2> QED
    BY <2>1, <1>2
<1>8. JobsMove
  <2> SUFFICES ASSUME NEW x \in Keys PROVE JobMoves(x)
    BY DEF JobsMove
  <2>1. CASE x = k
    <3>1. job'[x].status = "queued"
      BY <2>1, <1>2, <1>4
    <3>2. x[2] = 2 => ~Teardown(o)
      BY <2>1, <1>3 DEF RouteStepOf
    <3> HIDE DEF k
    <3> QED
      BY <2>1, <3>1, <3>2, <1>2, <1>3 DEF JobMoves
  <2>2. CASE x # k /\ x[1] \in Superseded(o) /\ IsRoute(x)
    <3>1. job'[x] = [job[x] EXCEPT !.status = "cancelled"]
      BY <2>2, <1>2
    <3> QED
      BY <2>2, <3>1, <1>5, <1>6 DEF JobMoves
  <2>3. CASE x # k /\ ~(x[1] \in Superseded(o) /\ IsRoute(x))
    BY <2>3, <1>2 DEF JobMoves
  <2> QED
    BY <2>1, <2>2, <2>3
<1>9. Desired(o).state \in {"absent", "stopped", "active"} /\ Desired(o).rev \in {0} \cup Revisions
  <2>1. op[o].kind \in {"deploy", "start", "stop", "remove"} /\ op[o].version \in {0} \cup Revisions
    BY <1>1 DEF OpRow
  <2> QED
    BY <2>1 DEF Desired
<1> DEFINE desired == [state |-> Desired(o).state, rev |-> Desired(o).rev,
                       generation |-> generation]
<1>10. desired \in Observation /\ desired.generation = generation
  BY <1>3, <1>9 DEF Observation
<1> HIDE DEF desired
<1>11. /\ route' \in RouteRow /\ route'.generation = generation /\ route'.reconcile = k
       /\ route'.desired = desired /\ route'.observed = route.observed
  <2>1. route' = [route EXCEPT !.generation = generation, !.reconcile = k, !.desired = desired]
    BY <1>2 DEF desired
  <2> HIDE DEF k, generation
  <2> QED
    BY <2>1, <1>1, <1>3, <1>10 DEF RouteRow
<1>12. RouteFits(route')
  <2>1. route.observed.generation <= route.generation
    BY DEF DeliveryInv, RouteFits
  <2>2. route.observed.generation \in Nat /\ route.generation \in Nat
    BY <1>1 DEF RouteRow, Observation
  <2>3. route'.observed.generation < route'.generation
        /\ route'.observed.generation <= route'.generation
    BY <2>1, <2>2, <1>11
  <2>4. route'.desired = [state |-> Desired(o).state, rev |-> Desired(o).rev,
                          generation |-> route'.generation]
    BY <1>11 DEF desired
  <2>5. route'.reconcile[1] = o
    BY <1>3, <1>11
  <2> QED
    BY <2>3, <2>4, <2>5 DEF RouteFits
<1> QED
  BY <1>1, <1>2, <1>7, <1>8, <1>11, <1>12

-----------------------------------------------------------------------------
(* The requests that queue. *)

(* Only an operation that has begun has a request that queues. *)
LEMMA BegunWhenQueueing ==
  ASSUME DeliveryInv, NEW o \in Ops, queueing[o] # "idle" PROVE Begun(o)
  BY DEF DeliveryInv, NothingBeforeBegin

(* queueDeployment() and queueLifecycle(): the workload job is stored. *)
LEMMA StoreWorkloadJobMoves ==
  ASSUME DeliveryInv, NEW o \in Ops, StoreWorkloadJob(o) PROVE ControlStep /\ RowTypes'
<1> USE KeyFacts
<1> DEFINE step == IF managed /\ Teardown(o) THEN 2 ELSE 1
           k == <<o, step>>
           row == [NoJobRow EXCEPT !.status = InitialStatus(step), !.born = clock + 1]
           place == IF step = 2 THEN "blocked" ELSE "stored"
<1>1. /\ queueing[o] = "begun" /\ Active(o)
      /\ job' = [job EXCEPT ![k] = row]
      /\ clock' = clock + 1
      /\ queueing' = [queueing EXCEPT ![o] = place]
      /\ UNCHANGED <<hostVars, env, op, route, projector, removal, running, faults, strayed>>
  BY DEF StoreWorkloadJob
<1>2. RowTypes /\ NoJobs(o) /\ Begun(o)
  BY <1>1, BegunWhenQueueing DEF DeliveryInv, QueueingSound
<1>3. job \in [Keys -> Job] /\ clock \in Nat
  BY <1>2 DEF RowTypes
<1>4. k \in Keys /\ k[1] = o /\ k[2] = step /\ step \in Steps
  BY DEF Steps
<1>5. row \in Job /\ row.status = InitialStatus(step)
  <2>1. clock + 1 \in Nat /\ InitialStatus(step) \in JobStatus
    BY <1>3 DEF JobStatus, InitialStatus
  <2> HIDE DEF step
  <2> QED
    BY <2>1 DEF Job, NoJobRow, Results
<1>6. QueueMoves /\ queueing' \in [Ops -> QueueSteps] /\ queueing'[o] = place
  <2>1. op'[o].status # "absent"
    BY <1>1, <1>2 DEF Begun
  <2>2. place \in QueueSteps \ {"begun"} /\ (place = "blocked" => managed /\ Teardown(o))
    BY DEF QueueSteps
  <2>3. queueing[o] # "idle"
    BY <1>1
  <2>4. queueing \in [Ops -> QueueSteps] /\ queueing' = [queueing EXCEPT ![o] = place]
    BY <1>1, <1>2 DEF RowTypes
  <2> HIDE DEF place
  <2>5. QueueMoves /\ queueing' \in [Ops -> QueueSteps]
    BY <2>1, <2>2, <2>3, <2>4, <1>2, QueueingMoves
  <2> QED
    BY <2>4, <2>5
<1>7. job[k].status = "absent"
  BY <1>2, <1>4 DEF NoJobs
<1>8. step = 2 => managed /\ InitialStatus(step) = "blocked"
  BY DEF InitialStatus
<1>9. place # "begun" /\ InitialStatus(step) \in {"queued", "blocked"}
  BY DEF InitialStatus
<1> HIDE DEF row, k, step, place
<1>10. job' \in [Keys -> Job] /\ job'[k] = row /\ \A x \in Keys : x # k => job'[x] = job[x]
  BY <1>1, <1>3, <1>4, <1>5
<1>11. JobsMove
  <2> SUFFICES ASSUME NEW x \in Keys PROVE JobMoves(x)
    BY DEF JobsMove
  <2>1. CASE x = k
    BY <2>1, <1>2, <1>4, <1>5, <1>6, <1>7, <1>8, <1>9, <1>10 DEF JobMoves
  <2>2. CASE x # k
    BY <2>2, <1>10 DEF JobMoves
  <2> QED
    BY <2>1, <2>2
<1>12. clock' \in Nat
  BY <1>1, <1>3
<1>13. RowTypes'
  BY <1>1, <1>2, <1>6, <1>10, <1>12 DEF RowTypes
<1> QED
  BY <1>1, <1>6, <1>11, <1>13, Stays DEF ControlStep

(* loadOperation() finds the operation over, or a check fails. *)
LEMMA QueueingFailsMoves ==
  ASSUME DeliveryInv, NEW o \in Ops, QueueingFails(o) PROVE ControlStep /\ RowTypes'
<1>1. /\ queueing[o] # "idle"
      /\ queueing' = [queueing EXCEPT ![o] = "failing"]
      /\ UNCHANGED <<hostVars, env, op, job, route, clock, projector, removal, running, faults,
                     strayed>>
  BY DEF QueueingFails, rows
<1>2. RowTypes
  BY DEF DeliveryInv
<1>3. op'[o].status # "absent"
  BY <1>1, BegunWhenQueueing DEF Begun
<1>4. QueueMoves /\ queueing' \in [Ops -> QueueSteps]
  BY <1>1, <1>3, QueueingMoves DEF QueueSteps
<1>5. RowTypes'
  BY <1>1, <1>2, <1>4 DEF RowTypes
<1> QED
  BY <1>1, <1>4, <1>5, Stays DEF ControlStep

(* queueLifecycle(): the first step of a teardown. *)
LEMMA StoreRouteJobMoves ==
  ASSUME DeliveryInv, NEW o \in Ops, StoreRouteJob(o) PROVE ControlStep /\ RowTypes'
<1>1. /\ queueing[o] = "blocked" /\ QueueRoute(o)
      /\ queueing' = [queueing EXCEPT ![o] = "stored"]
      /\ UNCHANGED <<hostVars, env, op, projector, removal, running, faults>>
  BY DEF StoreRouteJob
<1>2. RowTypes /\ managed /\ Teardown(o) /\ Begun(o)
  BY <1>1, BegunWhenQueueing DEF DeliveryInv, QueueingSound
<1>3. op'[o].status # "absent" /\ queueing[o] # "idle"
  BY <1>1, <1>2 DEF Begun
<1>4. QueueMoves /\ queueing' \in [Ops -> QueueSteps]
  BY <1>1, <1>3, QueueingMoves DEF QueueSteps
<1>5. queueing'[o] # "begun"
  BY <1>1, <1>2 DEF RowTypes
<1>6. /\ job' \in [Keys -> Job] /\ JobsMove
      /\ route' \in RouteRow /\ RouteFits(route')
      /\ clock' \in Nat
      /\ strayed' \in BOOLEAN /\ (strayed => strayed')
  BY <1>1, <1>2, <1>5, QueueRouteMoves
<1>7. RowTypes'
  BY <1>1, <1>2, <1>4, <1>6 DEF RowTypes
<1> QED
  BY <1>1, <1>4, <1>6, <1>7, Stays DEF ControlStep

(* Troubles are counted up to their bounds. *)
LEMMA Troubles ==
  ASSUME faults \in FaultRow
  PROVE  /\ faults.kills < MaxKills => [faults EXCEPT !.kills = @ + 1] \in FaultRow
         /\ faults.stops < MaxStops => [faults EXCEPT !.stops = @ + 1] \in FaultRow
         /\ faults.cancels < MaxCancels => [faults EXCEPT !.cancels = @ + 1] \in FaultRow
         /\ faults.refusals < MaxRefusals => [faults EXCEPT !.refusals = @ + 1] \in FaultRow
<1>1. faults.kills < MaxKills => [faults EXCEPT !.kills = @ + 1] \in FaultRow
  <2>1. faults.kills \in Nat /\ MaxKills \in Nat
    BY DeliveryAssumption DEF FaultRow
  <2>2. faults.kills < MaxKills => faults.kills + 1 \in 0..MaxKills
    BY <2>1
  <2> QED
    BY <2>2 DEF FaultRow
<1>2. faults.stops < MaxStops => [faults EXCEPT !.stops = @ + 1] \in FaultRow
  <2>1. faults.stops \in Nat /\ MaxStops \in Nat
    BY DeliveryAssumption DEF FaultRow
  <2>2. faults.stops < MaxStops => faults.stops + 1 \in 0..MaxStops
    BY <2>1
  <2> QED
    BY <2>2 DEF FaultRow
<1>3. faults.cancels < MaxCancels => [faults EXCEPT !.cancels = @ + 1] \in FaultRow
  <2>1. faults.cancels \in Nat /\ MaxCancels \in Nat
    BY DeliveryAssumption DEF FaultRow
  <2>2. faults.cancels < MaxCancels => faults.cancels + 1 \in 0..MaxCancels
    BY <2>1
  <2> QED
    BY <2>2 DEF FaultRow
<1>4. faults.refusals < MaxRefusals => [faults EXCEPT !.refusals = @ + 1] \in FaultRow
  <2>1. faults.refusals \in Nat /\ MaxRefusals \in Nat
    BY DeliveryAssumption DEF FaultRow
  <2>2. faults.refusals < MaxRefusals => faults.refusals + 1 \in 0..MaxRefusals
    BY <2>1
  <2> QED
    BY <2>2 DEF FaultRow
<1> QED
  BY <1>1, <1>2, <1>3, <1>4

(* queueReconcile() throws, and the blocked job is cancelled. *)
LEMMA RouteRefusedMoves ==
  ASSUME DeliveryInv, NEW o \in Ops, RouteRefused(o) PROVE ControlStep /\ RowTypes'
<1>1. /\ queueing[o] # "idle" /\ Refused
      /\ job' = CancelJobs(job, o, {"blocked"})
      /\ queueing' = [queueing EXCEPT ![o] = "failing"]
      /\ UNCHANGED <<hostVars, env, op, route, clock, projector, removal, running, strayed>>
  BY DEF RouteRefused
<1>2. RowTypes
  BY DEF DeliveryInv
<1>3. op'[o].status # "absent"
  BY <1>1, BegunWhenQueueing DEF Begun
<1>4. QueueMoves /\ queueing' \in [Ops -> QueueSteps]
  BY <1>1, <1>3, QueueingMoves DEF QueueSteps
<1>5. job' \in [Keys -> Job] /\ JobsMove
  BY <1>1, CancelMoves
<1>6. faults' \in FaultRow
  BY <1>1, <1>2, Troubles DEF Refused, RowTypes
<1>7. RowTypes'
  BY <1>1, <1>2, <1>4, <1>5, <1>6 DEF RowTypes
<1> QED
  BY <1>1, <1>4, <1>5, <1>7, Stays DEF ControlStep

(* publishQueued() touches the environment that it still has. *)
LEMMA PublishQueuedMoves ==
  ASSUME DeliveryInv, NEW o \in Ops, PublishQueued(o) PROVE ControlStep /\ RowTypes'
<1>1. /\ queueing[o] # "idle"
      /\ env' = IF env.lock = o THEN [env EXCEPT !.status = "deploying"] ELSE env
      /\ queueing' = [queueing EXCEPT ![o] = "idle"]
      /\ UNCHANGED <<hostVars, op, job, route, clock, projector, removal, running, faults, strayed>>
  BY DEF PublishQueued
<1>2. RowTypes
  BY DEF DeliveryInv
<1>3. op'[o].status # "absent"
  BY <1>1, BegunWhenQueueing DEF Begun
<1>4. QueueMoves /\ queueing' \in [Ops -> QueueSteps]
  BY <1>1, <1>3, QueueingMoves DEF QueueSteps
<1>5. env' \in EnvRow /\ env'.lock = env.lock
  BY <1>1, <1>2 DEF RowTypes, EnvRow
<1>6. LockMoves
  BY <1>5 DEF LockMoves
<1>7. RowTypes'
  BY <1>1, <1>2, <1>4, <1>5 DEF RowTypes
<1> QED
  BY <1>1, <1>4, <1>6, <1>7, Stays DEF ControlStep

(* failQueuedLifecycle() and complete() end the operation. *)
LEMMA FailQueueingMoves ==
  ASSUME DeliveryInv, NEW o \in Ops, FailQueueing(o) PROVE ControlStep /\ RowTypes'
<1> DEFINE status == CASE op[o].kind = "stop"   -> "running"
                       [] op[o].kind = "remove" -> env.status
                       [] OTHER                 -> "failed"
<1>1. /\ queueing[o] # "idle"
      /\ env' = Release(o, status, env.version)
      /\ op' = IF op[o].finished THEN op
               ELSE [op EXCEPT ![o].status = "failed", ![o].finished = TRUE]
      /\ queueing' = [queueing EXCEPT ![o] = "idle"]
      /\ UNCHANGED <<hostVars, job, route, clock, projector, removal, running, faults, strayed>>
  BY DEF FailQueueing
<1>2. RowTypes /\ Begun(o)
  BY <1>1, BegunWhenQueueing DEF DeliveryInv
<1>3. /\ op' \in [Ops -> OpRow] /\ OpsMove
      /\ \A q \in Ops : op'[q].finished => op'[q].status \notin {"absent", "running"}
      /\ op'[o].status # "running"
  <2>1. CASE op[o].finished
    BY <2>1, <1>1, <1>2, Stays DEF RowTypes
  <2>2. CASE ~op[o].finished
    BY <2>2, <1>1, <1>2, OneOpMoves
  <2> QED
    BY <2>1, <2>2
<1>4. env' \in EnvRow /\ LockMoves
  <2>1. env.version \in {0} \cup Revisions
        /\ status \in {"empty", "deploying", "running", "stopped", "failed"}
    BY <1>2 DEF RowTypes, EnvRow
  <2> HIDE DEF status
  <2> QED
    BY <2>1, <1>1, <1>3, ReleaseMoves
<1>5. op'[o].status # "absent"
  BY <1>2, <1>3 DEF OpsMove, OpMoves
<1>6. QueueMoves /\ queueing' \in [Ops -> QueueSteps]
  BY <1>1, <1>5, QueueingMoves DEF QueueSteps
<1>7. RowTypes'
  BY <1>1, <1>2, <1>3, <1>4, <1>6 DEF RowTypes
<1> QED
  BY <1>1, <1>3, <1>4, <1>6, <1>7, Stays DEF ControlStep

(* The process stops: recovery takes the operation only if it has no job. *)
LEMMA QueueingStopsMoves ==
  ASSUME DeliveryInv, NEW o \in Ops, QueueingStops(o) PROVE ControlStep /\ RowTypes'
<1> DEFINE place == IF JobsOf(o) = {} THEN "recovering" ELSE "idle"
<1>1. /\ queueing[o] # "idle"
      /\ faults.stops < MaxStops /\ faults' = [faults EXCEPT !.stops = @ + 1]
      /\ queueing' = [queueing EXCEPT ![o] = place]
      /\ UNCHANGED <<hostVars, env, op, job, route, clock, projector, removal, running, strayed>>
  BY DEF QueueingStops, rows
<1>2. RowTypes
  BY DEF DeliveryInv
<1>3. op'[o].status # "absent"
  BY <1>1, BegunWhenQueueing DEF Begun
<1>4. QueueMoves /\ queueing' \in [Ops -> QueueSteps]
  <2>1. place \in QueueSteps \ {"begun"} /\ place # "blocked"
    BY DEF QueueSteps
  <2> HIDE DEF place
  <2> QED
    BY <2>1, <1>1, <1>3, QueueingMoves
<1>5. faults' \in FaultRow
  BY <1>1, <1>2, Troubles DEF RowTypes
<1>6. RowTypes'
  BY <1>1, <1>2, <1>4, <1>5 DEF RowTypes
<1> QED
  BY <1>1, <1>4, <1>6, Stays DEF ControlStep

(* recoverInterrupted() ends the operation that it takes. *)
LEMMA RecoverMoves ==
  ASSUME DeliveryInv, NEW o \in Ops, Recover(o) PROVE ControlStep /\ RowTypes'
<1> DEFINE cancelled == op[o].status = "cancelled"
           status == IF cancelled THEN "cancelled" ELSE "failed"
<1>1. /\ queueing[o] # "idle"
      /\ op' = IF op[o].finished THEN op
               ELSE [op EXCEPT ![o].finished = TRUE, ![o].status = status]
      /\ env' = IF op[o].finished THEN env
                ELSE IF cancelled THEN Release(o, "empty", 0)
                ELSE Release(o, "failed", env.version)
      /\ queueing' = [queueing EXCEPT ![o] = "idle"]
      /\ UNCHANGED <<hostVars, job, route, clock, projector, removal, running, faults, strayed>>
  BY DEF Recover
<1>2. RowTypes /\ Begun(o)
  BY <1>1, BegunWhenQueueing DEF DeliveryInv
<1>3. /\ op' \in [Ops -> OpRow] /\ OpsMove /\ env' \in EnvRow /\ LockMoves
      /\ \A q \in Ops : op'[q].finished => op'[q].status \notin {"absent", "running"}
  <2>1. CASE op[o].finished
    BY <2>1, <1>1, <1>2, Stays DEF RowTypes
  <2>2. CASE ~op[o].finished
    <3>1. status \in {"succeeded", "failed", "cancelled"} /\ status # "succeeded"
      OBVIOUS
    <3> HIDE DEF status, cancelled
    <3>2. op' = [op EXCEPT ![o].status = status, ![o].finished = TRUE]
      BY <2>2, <1>1, <1>2 DEF RowTypes
    <3>3. /\ op' \in [Ops -> OpRow] /\ OpsMove
          /\ \A q \in Ops : op'[q].finished => op'[q].status \notin {"absent", "running"}
          /\ op'[o].status # "running"
      BY <3>1, <3>2, <1>2, OneOpMoves
    <3>4. env.version \in {0} \cup Revisions
      BY <1>2 DEF RowTypes, EnvRow
    <3>5. env' \in EnvRow /\ LockMoves
      BY <3>3, <3>4, <2>2, <1>1, ReleaseMoves
    <3> QED
      BY <3>3, <3>5
  <2> QED
    BY <2>1, <2>2
<1>4. op'[o].status # "absent"
  BY <1>2, <1>3 DEF OpsMove, OpMoves
<1>5. QueueMoves /\ queueing' \in [Ops -> QueueSteps]
  BY <1>1, <1>4, QueueingMoves DEF QueueSteps
<1>6. RowTypes'
  BY <1>1, <1>2, <1>3, <1>5 DEF RowTypes
<1> QED
  BY <1>1, <1>3, <1>5, <1>6, Stays DEF ControlStep

-----------------------------------------------------------------------------
(* The projection of decided jobs. *)

(* One projector moves on, with a decided job or with none. *)
LEMMA OneProjectorMoves ==
  ASSUME DeliveryInv, NEW p \in Projectors, NEW row \in ProjectorRow,
         row.pc # "idle" => row.key \in Keys /\ job[row.key].status \in Decided,
         projector' = [projector EXCEPT ![p] = row]
  PROVE  projector' \in [Projectors -> ProjectorRow] /\ ProjectorsMove
<1>1. projector \in [Projectors -> ProjectorRow]
  BY DEF DeliveryInv, RowTypes
<1> HIDE DEF ProjectorRow
<1>2. /\ projector' \in [Projectors -> ProjectorRow] /\ projector'[p] = row
      /\ \A q \in Projectors : q # p => projector'[q] = projector[q]
  BY <1>1
<1> QED
  BY <1>2 DEF ProjectorsMove, DeliveryInv, ProjectorsSound

(* A projector is through. *)
LEMMA EndMoves ==
  ASSUME DeliveryInv, NEW p \in Projectors, End(p)
  PROVE  projector' \in [Projectors -> ProjectorRow] /\ ProjectorsMove
<1>1. NoProjection \in ProjectorRow /\ NoProjection.pc = "idle"
  BY DeliveryAssumption DEF NoProjection, ProjectorRow, Observation
<1> QED
  BY <1>1, OneProjectorMoves DEF End

(* What a projector works on is a decided job. *)
LEMMA ProjectorFacts ==
  ASSUME DeliveryInv, NEW p \in Projectors, projector[p].pc # "idle"
  PROVE  /\ projector[p] \in ProjectorRow
         /\ projector[p].key \in Keys /\ projector[p].key[1] \in Ops
         /\ job[projector[p].key].status \in Decided
         /\ Begun(projector[p].key[1])
<1>1. RowTypes /\ ProjectorsSound /\ NothingBeforeBegin
  BY DEF DeliveryInv
<1>2. projector[p] \in ProjectorRow
  BY <1>1 DEF RowTypes
<1>3. projector[p].key \in Keys /\ job[projector[p].key].status \in Decided
  BY <1>1 DEF ProjectorsSound
<1> QED
  BY <1>1, <1>2, <1>3, KeyFacts DEF NothingBeforeBegin, NoJobs, Decided

(* A step that is not the last has a successor only on a gateway. *)
LEMMA FirstStep ==
  ASSUME DeliveryInv, NEW k \in Keys, job[k].status = "succeeded", ~LastStep(k)
  PROVE  managed /\ k = <<k[1], 1>> /\ <<k[1], 2>> \in Keys
<1>1. k[1] \in Ops /\ (k[2] = 1 \/ k[2] = 2) /\ k = <<k[1], k[2]>> /\ <<k[1], 2>> \in Keys
  BY KeyFacts
<1>2. ~managed => job[<<k[1], 2>>].status = "absent"
  BY <1>1 DEF DeliveryInv, QueueingSound
<1> QED
  BY <1>1, <1>2 DEF LastStep

(* A request begins to project a decided job. *)
LEMMA ProjectMoves ==
  ASSUME DeliveryInv, NEW p \in Projectors, NEW k \in Keys, Project(p, k)
  PROVE  ControlStep /\ RowTypes'
<1> DEFINE row == [NoProjection EXCEPT !.pc = IF IsRoute(k) THEN "route" ELSE "read", !.key = k]
<1>1. /\ job[k].status \in Decided
      /\ projector' = [projector EXCEPT ![p] = row]
      /\ UNCHANGED <<hostVars, env, op, job, route, clock, queueing, removal, running, faults,
                     strayed>>
  BY DEF Project, rows
<1>2. RowTypes
  BY DEF DeliveryInv
<1>3. row \in ProjectorRow /\ row.key = k
  BY DeliveryAssumption DEF NoProjection, ProjectorRow, Observation
<1> HIDE DEF row
<1>4. projector' \in [Projectors -> ProjectorRow] /\ ProjectorsMove
  BY <1>1, <1>3, OneProjectorMoves
<1>5. RowTypes'
  BY <1>1, <1>2, <1>4 DEF RowTypes
<1> QED
  BY <1>1, <1>4, <1>5, Stays DEF ControlStep

(* What is observed is what was desired, and newer than what was observed before. *)
LEMMA Observes ==
  ASSUME DeliveryInv, NEW p \in Projectors, ProjectRoute(p)
  PROVE  \/ route' = route
         \/ /\ route' = [route EXCEPT !.reconcile = Nobody]
            /\ route' \in RouteRow /\ RouteFits(route')
            /\ route'.observed = route.observed
         \/ /\ route' = [route EXCEPT !.reconcile = Nobody, !.observed = route.desired]
            /\ route' \in RouteRow /\ RouteFits(route')
            /\ route'.observed = route.desired
            /\ route.observed.generation < route.generation
            /\ route.desired.generation = route.generation
<1> DEFINE k == projector[p].key
           o == k[1]
<1>1. /\ projector[p].pc # "idle"
      /\ route' = IF ~Current(k) THEN route
                  ELSE IF job[k].status = "failed" THEN [route EXCEPT !.reconcile = Nobody]
                  ELSE [route EXCEPT !.reconcile = Nobody,
                          !.observed = [state |-> Desired(o).state, rev |-> Desired(o).rev,
                                        generation |-> job[k].generation]]
  BY DEF ProjectRoute
<1>2. k \in Keys /\ Nobody \notin Keys
  BY <1>1, ProjectorFacts, KeyFacts
<1>3. route \in RouteRow /\ RouteFits(route)
  BY DEF DeliveryInv, RowTypes
<1> HIDE DEF k
<1>4. CASE ~Current(k)
  BY <1>1, <1>4
<1>5. CASE Current(k)
  <2>1. /\ route.reconcile = k /\ job[k].generation = route.generation
        /\ route.desired = [state |-> Desired(o).state, rev |-> Desired(o).rev,
                            generation |-> route.generation]
        /\ route.observed.generation < route.generation
    BY <1>2, <1>3, <1>5 DEF Current, RouteFits
  <2>2. \/ route' = [route EXCEPT !.reconcile = Nobody]
        \/ route' = [route EXCEPT !.reconcile = Nobody, !.observed = route.desired]
    BY <1>1, <1>5, <2>1
  <2>3. /\ route' \in RouteRow /\ route'.reconcile = Nobody
        /\ route'.generation = route.generation
        /\ route'.observed = route.observed \/ route'.observed = route.desired
    BY <2>2, <1>3 DEF RouteRow
  <2>4. route.generation \in Nat /\ route.desired.generation = route.generation
        /\ route.observed.generation \in Nat
    BY <1>3, <2>1 DEF RouteRow, Observation
  <2>5. route'.observed.generation <= route'.generation
    BY <2>1, <2>3, <2>4
  <2>6. RouteFits(route')
    BY <2>3, <2>5 DEF RouteFits
  <2>7. CASE route' = [route EXCEPT !.reconcile = Nobody]
    BY <2>3, <2>6, <2>7, <1>3 DEF RouteRow
  <2>8. CASE route' = [route EXCEPT !.reconcile = Nobody, !.observed = route.desired]
    BY <2>1, <2>3, <2>4, <2>6, <2>8, <1>3 DEF RouteRow
  <2> QED
    BY <2>2, <2>7, <2>8
<1> QED
  BY <1>4, <1>5

(* reconcileGatewayRoute() *)
LEMMA ProjectRouteMoves ==
  ASSUME DeliveryInv, NEW p \in Projectors, ProjectRoute(p) PROVE ControlStep /\ RowTypes'
<1> DEFINE row == [projector[p] EXCEPT !.pc = "read"]
<1>1. /\ projector[p].pc # "idle"
      /\ projector' = [projector EXCEPT ![p].pc = "read"]
      /\ UNCHANGED <<hostVars, env, op, job, clock, queueing, removal, running, faults, strayed>>
  BY DEF ProjectRoute
<1>2. RowTypes
  BY DEF DeliveryInv
<1>3. /\ projector[p] \in ProjectorRow /\ projector[p].key \in Keys
      /\ job[projector[p].key].status \in Decided
  BY <1>1, ProjectorFacts
<1>4. row \in ProjectorRow /\ row.key = projector[p].key
  BY <1>3 DEF ProjectorRow
<1>5. projector' = [projector EXCEPT ![p] = row]
  BY <1>1
<1> HIDE DEF row
<1>6. projector' \in [Projectors -> ProjectorRow] /\ ProjectorsMove
  BY <1>3, <1>4, <1>5, OneProjectorMoves
<1>7. route' \in RouteRow /\ RouteFits(route')
  BY <1>2, Observes, Stays DEF RowTypes
<1>8. RowTypes'
  BY <1>1, <1>2, <1>6, <1>7 DEF RowTypes
<1> QED
  BY <1>1, <1>6, <1>7, <1>8, Stays DEF ControlStep

(* reconcileTerminalJobProjection() reads what it decides on. *)
LEMMA ProjectReadMoves ==
  ASSUME DeliveryInv, NEW p \in Projectors, ProjectRead(p) PROVE ControlStep /\ RowTypes'
<1> DEFINE read == [projector[p] EXCEPT !.pc = "act", !.version = env.version,
                                        !.seen = route.observed]
           row == IF Active(projector[p].key[1]) THEN read ELSE NoProjection
<1>1. /\ projector[p].pc # "idle"
      /\ projector' = [projector EXCEPT ![p] = row]
      /\ UNCHANGED <<hostVars, env, op, job, route, clock, queueing, removal, running, faults,
                     strayed>>
  BY DEF ProjectRead, rows
<1>2. RowTypes
  BY DEF DeliveryInv
<1>3. /\ projector[p] \in ProjectorRow /\ projector[p].key \in Keys
      /\ job[projector[p].key].status \in Decided
  BY <1>1, ProjectorFacts
<1>4. read \in ProjectorRow /\ read.key = projector[p].key
  <2>1. env.version \in {0} \cup Revisions /\ route.observed \in Observation
    BY <1>2 DEF RowTypes, EnvRow, RouteRow
  <2> QED
    BY <1>3, <2>1 DEF ProjectorRow
<1>5. NoProjection \in ProjectorRow /\ NoProjection.pc = "idle"
  BY DeliveryAssumption DEF NoProjection, ProjectorRow, Observation
<1> HIDE DEF read
<1>6. row \in ProjectorRow
      /\ (row.pc # "idle" => row.key \in Keys /\ job[row.key].status \in Decided)
  BY <1>3, <1>4, <1>5
<1> HIDE DEF row
<1>7. projector' \in [Projectors -> ProjectorRow] /\ ProjectorsMove
  BY <1>1, <1>6, OneProjectorMoves
<1>8. RowTypes'
  BY <1>1, <1>2, <1>7 DEF RowTypes
<1> QED
  BY <1>1, <1>7, <1>8, Stays DEF ControlStep

(* An operation is closed, if it is still active. *)
LEMMA CloseMoves ==
  ASSUME DeliveryInv, NEW o \in Ops, NEW result \in {"succeeded", "failed"},
         result = "succeeded" =>
             \A s \in IF managed THEN Steps ELSE {1} : job[<<o, s>>].status = "succeeded",
         op' = Close(o, result)
  PROVE  /\ op' \in [Ops -> OpRow] /\ OpsMove
         /\ \A q \in Ops : op'[q].finished => op'[q].status \notin {"absent", "running"}
         /\ op'[o].status # "running"
<1>1. RowTypes
  BY DEF DeliveryInv
<1>2. CASE Active(o)
  <2>1. op' = [op EXCEPT ![o].status = result, ![o].finished = TRUE] /\ Begun(o)
    BY <1>2 DEF Close, Active, Begun
  <2> QED
    BY <2>1, OneOpMoves
<1>3. CASE ~Active(o)
  <2>1. op' = op /\ op[o].status # "running"
    BY <1>1, <1>3 DEF Close, Active, RowTypes, OpRow
  <2> QED
    BY <1>1, <2>1, Stays DEF RowTypes
<1> QED
  BY <1>2, <1>3

(* The last step that succeeds is preceded by successes. *)
LEMMA AllSteps ==
  ASSUME DeliveryInv, NEW k \in Keys, LastStep(k), job[k].status = "succeeded"
  PROVE  \A s \in IF managed THEN Steps ELSE {1} : job[<<k[1], s>>].status = "succeeded"
<1>1. k[1] \in Ops /\ k = <<k[1], k[2]>>
  BY KeyFacts
<1>2. CASE managed
  <2>1. k = <<k[1], 2>>
    BY <1>1, <1>2 DEF LastStep
  <2>2. job[<<k[1], 1>>].status = "succeeded"
    BY <1>1, <2>1 DEF DeliveryInv, SuccessNeedsEveryStep
  <2> QED
    BY <1>2, <2>1, <2>2 DEF Steps
<1>3. CASE ~managed
  BY <1>1, <1>3 DEF LastStep
<1> QED
  BY <1>2, <1>3

(* The last step succeeded, and with it every other. *)
LEMMA FinishOperationMoves ==
  ASSUME DeliveryInv, NEW p \in Projectors, FinishOperation(p) PROVE ControlStep /\ RowTypes'
<1>1. PICK k \in Keys :
        /\ Acting(p, k) /\ LastStep(k) /\ Good(k)
        /\ env' = CASE op[k[1]].kind = "remove" -> Release(k[1], "empty", 0)
                    [] op[k[1]].kind = "stop"   -> Release(k[1], "stopped", env.version)
                    [] op[k[1]].kind = "start"  -> Release(k[1], "running", env.version)
                    [] op[k[1]].kind = "deploy" -> Release(k[1], "running", op[k[1]].version)
        /\ op' = Close(k[1], "succeeded")
        /\ End(p)
        /\ UNCHANGED <<hostVars, job, route, clock, queueing, removal, running, faults, strayed>>
  BY DEF FinishOperation
<1>2. RowTypes /\ k[1] \in Ops /\ job[k].status = "succeeded"
  BY <1>1, KeyFacts DEF DeliveryInv, Good
<1>3. \A s \in IF managed THEN Steps ELSE {1} : job[<<k[1], s>>].status = "succeeded"
  BY <1>1, <1>2, AllSteps
<1>4. /\ op' \in [Ops -> OpRow] /\ OpsMove
      /\ \A q \in Ops : op'[q].finished => op'[q].status \notin {"absent", "running"}
      /\ op'[k[1]].status # "running"
  BY <1>1, <1>2, <1>3, CloseMoves
<1>5. env' \in EnvRow /\ LockMoves
  <2>1. /\ op[k[1]].kind \in {"deploy", "start", "stop", "remove"}
        /\ op[k[1]].version \in {0} \cup Revisions /\ env.version \in {0} \cup Revisions
    BY <1>2 DEF RowTypes, OpRow, EnvRow
  <2>2. \E status \in {"empty", "stopped", "running"}, version \in {0} \cup Revisions :
            env' = Release(k[1], status, version)
    BY <1>1, <2>1
  <2>3. PICK status \in {"empty", "stopped", "running"}, version \in {0} \cup Revisions :
            env' = Release(k[1], status, version)
    BY <2>2
  <2> QED
    BY <2>3, <1>2, <1>4, ReleaseMoves
<1>6. projector' \in [Projectors -> ProjectorRow] /\ ProjectorsMove
  BY <1>1, EndMoves
<1>7. RowTypes'
  BY <1>1, <1>2, <1>4, <1>5, <1>6 DEF RowTypes
<1> QED
  BY <1>1, <1>4, <1>5, <1>6, <1>7, Stays DEF ControlStep

(* The route of a teardown is gone: its workload job may run. *)
LEMMA StartTeardownMoves ==
  ASSUME DeliveryInv, NEW p \in Projectors, StartTeardown(p) PROVE ControlStep /\ RowTypes'
<1>1. PICK k \in Keys :
        LET next == job[<<k[1], 2>>].status IN
        /\ Acting(p, k) /\ ~LastStep(k) /\ Good(k)
        /\ job' = Unblock(k[1])
        /\ projector' = [projector EXCEPT ![p] =
               CASE next \in {"blocked", "queued", "leased"} -> NoProjection
                 [] next = "succeeded" -> [NoProjection EXCEPT !.pc = "read", !.key = <<k[1], 2>>]
                 [] OTHER -> [@ EXCEPT !.pc = "fail"]]
        /\ UNCHANGED <<hostVars, env, op, route, clock, queueing, removal, running, faults,
                       strayed>>
  BY DEF StartTeardown
<1> DEFINE x == <<k[1], 2>>
           next == job[x].status
           on == [NoProjection EXCEPT !.pc = "read", !.key = x]
           fails == [projector[p] EXCEPT !.pc = "fail"]
           row == CASE next \in {"blocked", "queued", "leased"} -> NoProjection
                    [] next = "succeeded" -> on
                    [] OTHER -> fails
           status == IF next = "blocked" THEN "queued" ELSE next
<1>2. /\ job[k].status = "succeeded" /\ projector[p].pc # "idle" /\ RowTypes
      /\ projector' = [projector EXCEPT ![p] = row]
  BY <1>1 DEF Good, Acting, DeliveryInv
<1>3. managed /\ k = <<k[1], 1>> /\ x \in Keys
  BY <1>1, <1>2, FirstStep
<1>4. /\ projector[p] \in ProjectorRow /\ projector[p].key \in Keys
      /\ job[projector[p].key].status \in Decided
  BY <1>2, ProjectorFacts
<1>5. /\ on \in ProjectorRow /\ on.key = x
      /\ fails \in ProjectorRow /\ fails.key = projector[p].key
      /\ NoProjection \in ProjectorRow /\ NoProjection.pc = "idle"
  <2>1. on \in ProjectorRow /\ on.key = x
    BY <1>3, DeliveryAssumption DEF NoProjection, ProjectorRow, Observation
  <2>2. fails \in ProjectorRow /\ fails.key = projector[p].key
    BY <1>4 DEF ProjectorRow
  <2>3. NoProjection \in ProjectorRow /\ NoProjection.pc = "idle"
    BY DeliveryAssumption DEF NoProjection, ProjectorRow, Observation
  <2> QED
    BY <2>1, <2>2, <2>3
<1>6. row \in ProjectorRow
      /\ (row.pc # "idle" => row.key \in Keys /\ job[row.key].status \in Decided)
  <2> HIDE DEF on, fails
  <2> QED
    BY <1>3, <1>4, <1>5 DEF Decided
<1>7. job \in [Keys -> Job] /\ job' = [job EXCEPT ![x].status = status]
  BY <1>1, <1>2, <1>3 DEF Unblock, RowTypes
<1>8. x[1] = k[1] /\ next \in JobStatus /\ status \in JobStatus
  BY <1>3, <1>7 DEF Job, JobStatus
<1> HIDE DEF row, x
<1>9. projector' \in [Projectors -> ProjectorRow] /\ ProjectorsMove
  BY <1>2, <1>6, OneProjectorMoves
<1> HIDE DEF Job, JobStatus, status
<1>10. job' \in [Keys -> Job] /\ job'[x].status = status
       /\ \A y \in Keys : y # x => job'[y] = job[y]
  <2> DEFINE new == [job[x] EXCEPT !.status = status]
  <2>1. new \in Job /\ new.status = status
    BY <1>3, <1>7, <1>8, JobRows
  <2>2. job' = [job EXCEPT ![x] = new]
    BY <1>7
  <2> HIDE DEF new
  <2> QED
    BY <2>1, <2>2, <1>3, <1>7
<1>11. JobsMove
  <2> SUFFICES ASSUME NEW y \in Keys PROVE JobMoves(y)
    BY DEF JobsMove
  <2>1. CASE y = x /\ next = "blocked"
    <3>1. job'[y].status = "queued" /\ job[y].status = "blocked"
      BY <2>1, <1>10 DEF status
    <3>2. job[<<y[1], 1>>].status = "succeeded"
      BY <2>1, <1>2, <1>3, <1>8
    <3> QED
      BY <3>1, <3>2 DEF JobMoves
  <2>2. CASE y = x /\ next # "blocked"
    <3>1. job' = [job EXCEPT ![x].status = next]
      BY <2>2, <1>7 DEF status
    <3>2. job'[y] = job[y]
      BY <2>2, <3>1, <1>3, <1>7 DEF Job
    <3> QED
      BY <3>2 DEF JobMoves
  <2>3. CASE y # x
    BY <2>3, <1>10 DEF JobMoves
  <2> QED
    BY <2>1, <2>2, <2>3
<1>12. RowTypes'
  BY <1>1, <1>2, <1>9, <1>10 DEF RowTypes
<1> QED
  BY <1>1, <1>9, <1>11, <1>12, Stays DEF ControlStep

(* The workload runs: the route job is queued. *)
LEMMA StartActivationMoves ==
  ASSUME DeliveryInv, NEW p \in Projectors, StartActivation(p) PROVE ControlStep /\ RowTypes'
<1>1. PICK k \in Keys :
        /\ Acting(p, k) /\ ~LastStep(k) /\ Good(k)
        /\ QueueRoute(k[1])
        /\ End(p)
        /\ UNCHANGED <<hostVars, env, op, queueing, removal, running, faults>>
  BY DEF StartActivation
<1>2. RowTypes /\ k[1] \in Ops /\ job[k].status = "succeeded" /\ projector[p].pc # "idle"
      /\ projector[p].key = k
  BY <1>1, KeyFacts DEF DeliveryInv, Good, Acting
<1>3. managed /\ k = <<k[1], 1>>
  BY <1>1, <1>2, FirstStep
<1>4. Begun(k[1])
  BY <1>2, ProjectorFacts
<1>5. queueing[k[1]] # "begun"
  <2>1. 1 \in Steps /\ job[<<k[1], 1>>].status # "absent"
    BY <1>2, <1>3 DEF Steps
  <2> QED
    BY <2>1, <1>2 DEF DeliveryInv, QueueingSound, NoJobs
<1>6. /\ job' \in [Keys -> Job] /\ JobsMove
      /\ route' \in RouteRow /\ RouteFits(route')
      /\ clock' \in Nat
      /\ strayed' \in BOOLEAN /\ (strayed => strayed')
  BY <1>1, <1>2, <1>3, <1>4, <1>5, QueueRouteMoves
<1>7. projector' \in [Projectors -> ProjectorRow] /\ ProjectorsMove
  BY <1>1, EndMoves
<1>8. RowTypes'
  BY <1>1, <1>2, <1>6, <1>7 DEF RowTypes
<1> QED
  BY <1>1, <1>6, <1>7, <1>8, Stays DEF ControlStep

(* The route job was queued before. *)
LEMMA ActivationStartedMoves ==
  ASSUME DeliveryInv, NEW p \in Projectors, ActivationStarted(p) PROVE ControlStep /\ RowTypes'
<1>1. PICK k \in Keys :
        LET next == job[<<k[1], 2>>].status IN
        /\ Acting(p, k) /\ ~LastStep(k) /\ Good(k)
        /\ projector' = [projector EXCEPT ![p] =
               IF next = "succeeded" THEN [NoProjection EXCEPT !.pc = "route", !.key = <<k[1], 2>>]
               ELSE NoProjection]
        /\ UNCHANGED <<hostVars, env, op, job, route, clock, queueing, removal, running, faults,
                       strayed>>
  BY DEF ActivationStarted, rows
<1> DEFINE x == <<k[1], 2>>
           on == [NoProjection EXCEPT !.pc = "route", !.key = x]
           row == IF job[x].status = "succeeded" THEN on ELSE NoProjection
<1>2. /\ job[k].status = "succeeded" /\ RowTypes
      /\ projector' = [projector EXCEPT ![p] = row]
  BY <1>1 DEF Good, DeliveryInv
<1>3. x \in Keys
  BY <1>1, <1>2, FirstStep
<1>4. on \in ProjectorRow /\ on.key = x
  BY <1>3, DeliveryAssumption DEF NoProjection, ProjectorRow, Observation
<1>5. NoProjection \in ProjectorRow /\ NoProjection.pc = "idle"
  BY DeliveryAssumption DEF NoProjection, ProjectorRow, Observation
<1>6. row \in ProjectorRow
      /\ (row.pc # "idle" => row.key \in Keys /\ job[row.key].status \in Decided)
  <2> HIDE DEF on
  <2> QED
    BY <1>3, <1>4, <1>5 DEF Decided
<1> HIDE DEF row
<1>7. projector' \in [Projectors -> ProjectorRow] /\ ProjectorsMove
  BY <1>2, <1>6, OneProjectorMoves
<1>8. RowTypes'
  BY <1>1, <1>2, <1>7 DEF RowTypes
<1> QED
  BY <1>1, <1>7, <1>8, Stays DEF ControlStep

(* The route job cannot be queued. *)
LEMMA ActivationRefusedMoves ==
  ASSUME DeliveryInv, NEW p \in Projectors, ActivationRefused(p) PROVE ControlStep /\ RowTypes'
<1> DEFINE row == [projector[p] EXCEPT !.pc = "fail"]
<1>1. /\ Refused
      /\ projector[p].pc # "idle"
      /\ projector' = [projector EXCEPT ![p].pc = "fail"]
      /\ UNCHANGED <<hostVars, env, op, job, route, clock, queueing, removal, running, strayed>>
  BY DEF ActivationRefused, rows, Acting
<1>2. RowTypes
  BY DEF DeliveryInv
<1>3. /\ projector[p] \in ProjectorRow /\ projector[p].key \in Keys
      /\ job[projector[p].key].status \in Decided
  BY <1>1, ProjectorFacts
<1>4. row \in ProjectorRow /\ row.key = projector[p].key
  BY <1>3 DEF ProjectorRow
<1>5. projector' = [projector EXCEPT ![p] = row]
  BY <1>1
<1> HIDE DEF row
<1>6. projector' \in [Projectors -> ProjectorRow] /\ ProjectorsMove
  BY <1>3, <1>4, <1>5, OneProjectorMoves
<1>7. faults' \in FaultRow
  BY <1>1, <1>2, Troubles DEF Refused, RowTypes
<1>8. RowTypes'
  BY <1>1, <1>2, <1>6, <1>7 DEF RowTypes
<1> QED
  BY <1>1, <1>6, <1>8, Stays DEF ControlStep

(* A step failed: those not begun are cancelled with the operation. *)
LEMMA FailOperationMoves ==
  ASSUME DeliveryInv, NEW p \in Projectors, FailOperation(p) PROVE ControlStep /\ RowTypes'
<1>1. PICK k \in Keys :
        /\ projector[p].key = k
        /\ job' = IF managed THEN CancelJobs(job, k[1], {"blocked", "queued"}) ELSE job
        /\ env' = Release(k[1], IF PreviousServes(p, k) THEN "running"
                                ELSE IF PreviousStopped(p, k) THEN "stopped" ELSE "failed",
                          env.version)
        /\ op' = Close(k[1], "failed")
        /\ End(p)
        /\ UNCHANGED <<hostVars, route, clock, queueing, removal, running, faults, strayed>>
  BY DEF FailOperation
<1>2. RowTypes /\ k[1] \in Ops
  BY KeyFacts DEF DeliveryInv
<1>3. /\ op' \in [Ops -> OpRow] /\ OpsMove
      /\ \A q \in Ops : op'[q].finished => op'[q].status \notin {"absent", "running"}
      /\ op'[k[1]].status # "running"
  BY <1>1, <1>2, CloseMoves
<1>4. env' \in EnvRow /\ LockMoves
  <2>1. env.version \in {0} \cup Revisions
    BY <1>2 DEF RowTypes, EnvRow
  <2>2. PICK status \in {"running", "stopped", "failed"} :
            env' = Release(k[1], status, env.version)
    BY <1>1
  <2> QED
    BY <2>1, <2>2, <1>2, <1>3, ReleaseMoves
<1>5. job' \in [Keys -> Job] /\ JobsMove
  BY <1>1, <1>2, CancelMoves, Stays DEF RowTypes
<1>6. projector' \in [Projectors -> ProjectorRow] /\ ProjectorsMove
  BY <1>1, EndMoves
<1>7. RowTypes'
  BY <1>1, <1>2, <1>3, <1>4, <1>5, <1>6 DEF RowTypes
<1> QED
  BY <1>1, <1>3, <1>4, <1>5, <1>6, <1>7, Stays DEF ControlStep

(* The process stops, and the job is projected again later. *)
LEMMA ProjectorStopsMoves ==
  ASSUME DeliveryInv, NEW p \in Projectors, ProjectorStops(p) PROVE ControlStep /\ RowTypes'
<1>1. /\ faults.stops < MaxStops /\ faults' = [faults EXCEPT !.stops = @ + 1]
      /\ End(p)
      /\ UNCHANGED <<hostVars, env, op, job, route, clock, queueing, removal, running, strayed>>
  BY DEF ProjectorStops, rows
<1>2. RowTypes
  BY DEF DeliveryInv
<1>3. projector' \in [Projectors -> ProjectorRow] /\ ProjectorsMove
  BY <1>1, EndMoves
<1>4. faults' \in FaultRow
  BY <1>1, <1>2, Troubles DEF RowTypes
<1>5. RowTypes'
  BY <1>1, <1>2, <1>3, <1>4 DEF RowTypes
<1> QED
  BY <1>1, <1>3, <1>5, Stays DEF ControlStep

-----------------------------------------------------------------------------
(* Users: begin(), and remove() of an environment with an active operation. *)

(* begin() takes a free environment for a new operation. *)
LEMMA BeginActionMoves ==
  ASSUME DeliveryInv, NEW kind \in Requested, Begin(kind) PROVE ControlStep /\ RowTypes'
<1>1. PICK o \in Ops, version \in Revisions :
        /\ op[o].status = "absent" /\ env.lock = 0
        /\ op' = [op EXCEPT ![o] = [kind |-> kind, status |-> "running",
                                    finished |-> FALSE, version |-> version]]
        /\ env' = [env EXCEPT !.lock = o]
        /\ queueing' = [queueing EXCEPT ![o] = "begun"]
        /\ UNCHANGED <<hostVars, job, route, projector, removal, running, clock,
                       faults, strayed>>
  BY DEF Begin
<1>2. RowTypes /\ kind \in {"deploy", "start", "stop", "remove"}
  BY DeliveryAssumption DEF DeliveryInv
<1>3. /\ op' \in [Ops -> OpRow] /\ env' \in EnvRow /\ queueing' \in [Ops -> QueueSteps]
      /\ \A q \in Ops : op'[q].finished => op'[q].status \notin {"absent", "running"}
      /\ OpsMove /\ LockMoves /\ QueueMoves
  BY <1>1, <1>2, BeginMoves
<1>4. RowTypes'
  BY <1>1, <1>2, <1>3 DEF RowTypes
<1> QED
  BY <1>1, <1>3, <1>4, Stays DEF ControlStep

(* remove() reads which operation is active. *)
LEMMA ReadActiveMoves ==
  ASSUME DeliveryInv, ReadActive PROVE ControlStep /\ RowTypes'
<1>1. /\ env.lock # 0
      /\ faults.cancels < MaxCancels /\ faults' = [faults EXCEPT !.cancels = @ + 1]
      /\ removal' = [pc |-> IF JobsOf(env.lock) # {} THEN "deliver" ELSE "plain", op |-> env.lock]
      /\ UNCHANGED <<hostVars, env, op, job, route, clock, queueing, projector, running, strayed>>
  BY DEF ReadActive, rows
<1>2. RowTypes /\ Begun(env.lock)
  BY <1>1 DEF DeliveryInv, NothingBeforeBegin
<1>3. removal' \in RemovalRow /\ removal'.op = env.lock
  BY <1>1, <1>2 DEF RowTypes, EnvRow, RemovalRow
<1>4. RemovalMoves
  BY <1>1, <1>2, <1>3 DEF RemovalMoves
<1>5. faults' \in FaultRow
  BY <1>1, <1>2, Troubles DEF RowTypes
<1>6. RowTypes'
  BY <1>1, <1>2, <1>3, <1>5 DEF RowTypes
<1> QED
  BY <1>1, <1>4, <1>6, Stays DEF ControlStep

(* The operation that remove() has read. *)
LEMMA RemovalFacts ==
  ASSUME DeliveryInv, removal.pc # "idle"
  PROVE  removal.op \in Ops /\ Begun(removal.op)
<1>1. removal.op \in 0..MaxOps /\ removal.op # 0 /\ Begun(removal.op)
  BY DEF DeliveryInv, RowTypes, RemovalRow, NothingBeforeBegin
<1> QED
  BY <1>1, DeliveryAssumption DEF Ops

(* remove() cancels the jobs and the operation that it has read. *)
LEMMA CancelDeliveryMoves ==
  ASSUME DeliveryInv, CancelDelivery PROVE ControlStep /\ RowTypes'
<1> DEFINE o == removal.op
<1>1. /\ removal.pc # "idle"
      /\ job' = CancelJobs(job, o, {"blocked", "queued", "leased"})
      /\ op' = [op EXCEPT ![o].status = "cancelled", ![o].finished = TRUE]
      /\ env' = [env EXCEPT !.lock = 0]
      /\ removal' = [removal EXCEPT !.pc = "begin"]
      /\ strayed' = (strayed \/ env.lock \notin {0, o})
      /\ UNCHANGED <<hostVars, route, clock, queueing, projector, running, faults>>
  BY DEF CancelDelivery
<1>2. RowTypes /\ o \in Ops /\ Begun(o)
  BY <1>1, RemovalFacts DEF DeliveryInv
<1>3. /\ op' \in [Ops -> OpRow] /\ OpsMove
      /\ \A q \in Ops : op'[q].finished => op'[q].status \notin {"absent", "running"}
      /\ op'[o].status # "running"
  BY <1>1, <1>2, OneOpMoves
<1>4. job' \in [Keys -> Job] /\ JobsMove
  BY <1>1, <1>2, CancelMoves
<1>5. env' \in EnvRow /\ env'.lock = 0
  BY <1>1, <1>2, DeliveryAssumption DEF RowTypes, EnvRow
<1>6. LockMoves
  BY <1>1, <1>3, <1>5 DEF LockMoves
<1>7. removal' \in RemovalRow /\ removal'.op = o
  BY <1>1, <1>2 DEF RowTypes, RemovalRow
<1>8. RemovalMoves
  BY <1>2, <1>7, KeyFacts DEF RemovalMoves
<1>9. strayed' \in BOOLEAN /\ (strayed => strayed')
  BY <1>1, <1>2 DEF RowTypes
<1>10. RowTypes'
  BY <1>1, <1>2, <1>3, <1>4, <1>5, <1>7, <1>9 DEF RowTypes
<1> QED
  BY <1>1, <1>3, <1>4, <1>6, <1>8, <1>9, <1>10, Stays DEF ControlStep

(* remove() finds no job and only marks the operation. *)
LEMMA CancelPlainMoves ==
  ASSUME DeliveryInv, CancelPlain PROVE ControlStep /\ RowTypes'
<1> DEFINE o == removal.op
<1>1. /\ removal.pc # "idle"
      /\ op' = [op EXCEPT ![o].status = "cancelled"]
      /\ removal' = [pc |-> "idle", op |-> 0]
      /\ UNCHANGED <<hostVars, env, job, route, clock, queueing, projector, running, faults,
                     strayed>>
  BY DEF CancelPlain
<1>2. RowTypes /\ o \in Ops /\ Begun(o)
  BY <1>1, RemovalFacts DEF DeliveryInv
<1>3. op[o] \in OpRow /\ op[o].finished \in BOOLEAN
  BY <1>2 DEF RowTypes, OpRow
<1>4. op' = [op EXCEPT ![o].status = "cancelled", ![o].finished = op[o].finished]
  <2> DEFINE row == [op[o] EXCEPT !.status = "cancelled"]
             same == [[op[o] EXCEPT !.status = "cancelled"] EXCEPT !.finished = op[o].finished]
  <2>1. row = same
    BY <1>3 DEF OpRow
  <2> QED
    BY <2>1, <1>1, <1>2 DEF RowTypes
<1>5. /\ op' \in [Ops -> OpRow] /\ OpsMove
      /\ \A q \in Ops : op'[q].finished => op'[q].status \notin {"absent", "running"}
  BY <1>2, <1>3, <1>4, OneOpMoves
<1>6. removal' \in RemovalRow /\ RemovalMoves
  BY <1>1, DeliveryAssumption DEF RemovalRow, RemovalMoves
<1>7. RowTypes'
  BY <1>1, <1>2, <1>5, <1>6 DEF RowTypes
<1> QED
  BY <1>1, <1>5, <1>6, <1>7, Stays DEF ControlStep

(* The cleanup is begun like any other operation. *)
LEMMA BeginCleanupMoves ==
  ASSUME DeliveryInv, BeginCleanup PROVE ControlStep /\ RowTypes'
<1>1. /\ removal.pc # "idle"
      /\ removal' = [pc |-> "idle", op |-> 0]
      /\ \/ \E o \in Ops :
              /\ op[o].status = "absent" /\ env.lock = 0
              /\ op' = [op EXCEPT ![o] = [kind |-> "remove", status |-> "running",
                                          finished |-> FALSE, version |-> op[removal.op].version]]
              /\ env' = [env EXCEPT !.lock = o]
              /\ queueing' = [queueing EXCEPT ![o] = "begun"]
         \/ UNCHANGED <<op, env, queueing>>
      /\ UNCHANGED <<hostVars, job, route, clock, projector, running, faults, strayed>>
  BY DEF BeginCleanup
<1>2. RowTypes /\ removal.op \in Ops /\ Begun(removal.op)
  BY <1>1, RemovalFacts DEF DeliveryInv
<1>3. op[removal.op].version \in Revisions
  <2>1. op[removal.op].version # 0
    BY <1>2 DEF DeliveryInv, NothingBeforeBegin
  <2> QED
    BY <2>1, <1>2 DEF RowTypes, OpRow
<1>4. /\ op' \in [Ops -> OpRow] /\ env' \in EnvRow /\ queueing' \in [Ops -> QueueSteps]
      /\ \A q \in Ops : op'[q].finished => op'[q].status \notin {"absent", "running"}
      /\ OpsMove /\ LockMoves /\ QueueMoves
  <2>1. CASE UNCHANGED <<op, env, queueing>>
    BY <2>1, <1>2, Stays DEF RowTypes
  <2>2. CASE ~UNCHANGED <<op, env, queueing>>
    BY <2>2, <1>1, <1>3, BeginMoves
  <2> QED
    BY <2>1, <2>2
<1>5. removal' \in RemovalRow /\ RemovalMoves
  BY <1>1, DeliveryAssumption DEF RemovalRow, RemovalMoves
<1>6. RowTypes'
  BY <1>1, <1>2, <1>4, <1>5 DEF RowTypes
<1> QED
  BY <1>1, <1>4, <1>5, <1>6, Stays DEF ControlStep

\* The actions of the control plane.
Control ==
    \/ \E kind \in Requested : Begin(kind)
    \/ \E o \in Ops : Queueing(o) \/ QueueingStops(o)
    \/ \E p \in Projectors :
        \/ \E k \in Keys : Project(p, k)
        \/ Projection(p)
        \/ ProjectorStops(p)
    \/ ReadActive \/ Removal

(* Every action of the control plane is a control step. *)
LEMMA ControlMoves ==
  ASSUME DeliveryInv, Control PROVE ControlStep /\ RowTypes'
<1>1. CASE \E kind \in Requested : Begin(kind)
  BY <1>1, BeginActionMoves
<1>2. ASSUME NEW o \in Ops, Queueing(o) \/ QueueingStops(o) PROVE ControlStep /\ RowTypes'
  BY <1>2, StoreWorkloadJobMoves, QueueingFailsMoves, StoreRouteJobMoves, RouteRefusedMoves,
     PublishQueuedMoves, FailQueueingMoves, RecoverMoves, QueueingStopsMoves
  DEF Queueing
<1>3. ASSUME NEW p \in Projectors, NEW k \in Keys, Project(p, k) PROVE ControlStep /\ RowTypes'
  BY <1>3, ProjectMoves
<1>4. ASSUME NEW p \in Projectors, Projection(p) \/ ProjectorStops(p) PROVE ControlStep /\ RowTypes'
  BY <1>4, ProjectRouteMoves, ProjectReadMoves, FinishOperationMoves, StartTeardownMoves,
     StartActivationMoves, ActivationStartedMoves, ActivationRefusedMoves, FailOperationMoves,
     ProjectorStopsMoves
  DEF Projection
<1>5. CASE ReadActive \/ Removal
  BY <1>5, ReadActiveMoves, CancelDeliveryMoves, CancelPlainMoves, BeginCleanupMoves DEF Removal
<1> QED
  BY <1>1, <1>2, <1>3, <1>4, <1>5 DEF Control

(* Every action of the control plane preserves the invariant. *)
LEMMA ControlPreserves ==
  ASSUME DeliveryInv, Control PROVE DeliveryInv'
  BY ControlMoves, ControlKeeps

-----------------------------------------------------------------------------
(* The agent between its steps. *)

ExecRow == [pc : Phases, job : HostJobs \cup {NoJob},
            previous : {0} \cup Revisions, attempted : {0} \cup Revisions,
            incomplete : BOOLEAN, ok : BOOLEAN, result : Results]

(* An agent at rest is in a state that it can be in. *)
LEMMA RestingRow ==
  Resting \in ExecRow /\ Resting.pc = "idle"
  BY DEF Resting, ExecRow, Phases, NoJob, Results

(* The job that a key is about is one that the agent can be given. *)
LEMMA HostJobRow ==
  ASSUME DeliveryInv, NEW k \in Keys, Begun(k[1])
  PROVE  HostJob(k) \in HostJobs /\ HostJob(k).rev = op[k[1]].version
<1>1. k[1] \in Ops
  BY KeyFacts
<1>2. op[k[1]] \in OpRow /\ op[k[1]].version # 0
  BY <1>1 DEF DeliveryInv, RowTypes, NothingBeforeBegin
<1>3. op[k[1]].version \in Revisions /\ op[k[1]].kind \in {"deploy", "start", "stop", "remove"}
  BY <1>2 DEF OpRow
<1> QED
  BY <1>3 DEF HostJob, HostJobs, Teardown

(* A job belongs to an operation that has begun. *)
LEMMA JobBegun ==
  ASSUME DeliveryInv, NEW k \in Keys, job[k].status # "absent" PROVE Begun(k[1])
  BY KeyFacts DEF DeliveryInv, NothingBeforeBegin, NoJobs

(* The oldest job is claimed: it belongs to the operation that has the environment, or strays. *)
LEMMA ClaimPreserves ==
  ASSUME DeliveryInv, Claim PROVE DeliveryInv'
<1> USE KeyFacts
<1>1. PICK k \in Keys :
        /\ running = Nobody
        /\ job[k].status \in {"queued", "leased"}
        /\ Take(HostJob(k))
        /\ job' = [job EXCEPT ![k].status = "leased"]
        /\ running' = k
        /\ strayed' = (strayed \/ env.lock # k[1])
        /\ UNCHANGED <<managed, container, upstream, attached, failures, env, op, route, clock,
                       queueing, projector, removal, faults>>
  BY DEF Claim
<1>2. /\ HostTypeOK /\ RowTypes /\ NothingBeforeBegin /\ QueueingSound /\ ProjectorsSound
      /\ SuccessNeedsEveryStep /\ HostSound /\ Undisturbed /\ RouteFits(route)
  BY DEF DeliveryInv
<1>3. Begun(k[1]) /\ k[1] \in Ops /\ HostJob(k) \in HostJobs
  BY <1>1, JobBegun, HostJobRow
<1> DEFINE row == [job[k] EXCEPT !.status = "leased"]
<1>4. job \in [Keys -> Job] /\ "leased" \in JobStatus
  BY <1>2 DEF RowTypes, JobStatus
<1>5. row \in Job /\ row.status = "leased" /\ job' = [job EXCEPT ![k] = row]
  BY <1>1, <1>4, JobRows
<1> HIDE DEF row
<1>6. /\ job' \in [Keys -> Job] /\ job'[k].status = "leased"
      /\ \A x \in Keys : x # k => job'[x] = job[x]
  BY <1>4, <1>5
<1> DEFINE work == HostJob(k)
<1>7. work.kind \in {"deploy", "start", "stop", "remove", "activate", "deactivate"}
  BY <1>3 DEF HostJobs
<1>8. /\ exec' = [Resting EXCEPT !.pc = First(work), !.job = work, !.previous = upstream]
      /\ exec.pc = "idle"
  BY <1>1 DEF Take
<1>9. First(work) \in PhasesOf(work.kind) /\ First(work) \in Phases
      /\ First(work) \in {"workload", "stopping", "removing", "connect", "clear"}
  BY <1>7 DEF First, PhasesOf, Phases
<1>10. /\ exec' \in ExecRow /\ exec'.pc = First(work) /\ exec'.job = work
  <2>1. upstream \in {0} \cup Revisions /\ work \in HostJobs
    BY <1>2, <1>3 DEF HostTypeOK
  <2> HIDE DEF work
  <2> QED
    BY <1>8, <1>9, <2>1, RestingRow DEF ExecRow, Resting
<1> HIDE DEF work
<1>11. HostTypeOK'
  BY <1>1, <1>2, <1>10 DEF HostTypeOK, ExecRow
<1>12. strayed' \in BOOLEAN /\ (strayed => strayed')
  BY <1>1, <1>2 DEF RowTypes
<1>13. RowTypes'
  BY <1>1, <1>2, <1>6, <1>12 DEF RowTypes
<1>14. \A x \in Keys :
           job[x].status \in {"absent", "blocked", "cancelled", "succeeded", "failed"} =>
               job'[x] = job[x]
  BY <1>1, <1>6
<1>15. NothingBeforeBegin'
  BY <1>1, <1>2, <1>14 DEF NothingBeforeBegin, NoJobs, Begun
<1>16. QueueingSound'
  <2>1. \A o \in Ops : NoJobs(o) => NoJobs(o)'
    BY <1>14 DEF NoJobs
  <2> QED
    BY <2>1, <1>1, <1>2, <1>14 DEF QueueingSound, Teardown
<1>17. ProjectorsSound'
  BY <1>1, <1>2, <1>14 DEF ProjectorsSound, Decided
<1>18. RunningSound'
  BY <1>1, <1>6 DEF RunningSound
<1>19. SuccessNeedsEveryStep'
  <2> SUFFICES ASSUME NEW o \in Ops
               PROVE  /\ job'[<<o, 2>>].status \in {"queued", "leased", "succeeded", "failed"} =>
                             job'[<<o, 1>>].status = "succeeded"
                      /\ op'[o].status = "succeeded" =>
                             \A s \in IF managed' THEN Steps ELSE {1} :
                                 job'[<<o, s>>].status = "succeeded"
    BY DEF SuccessNeedsEveryStep
  <2>1. job'[<<o, 2>>].status \in {"queued", "leased", "succeeded", "failed"} =>
            job[<<o, 2>>].status \in {"queued", "leased", "succeeded", "failed"}
    BY <1>1, <1>6
  <2>2. (IF managed THEN Steps ELSE {1}) \subseteq Steps
    BY DEF Steps
  <2>3. \A s \in Steps : job[<<o, s>>].status = "succeeded" => job'[<<o, s>>].status = "succeeded"
    BY <1>14
  <2> QED
    BY <2>1, <2>2, <2>3, <1>1, <1>2, <1>14 DEF SuccessNeedsEveryStep
<1>20. RouteFits(route)'
  BY <1>1, <1>2 DEF RouteFits, Desired, Begun
<1>21. HostSound'
  <2>1. HostJob(running)' = work
    BY <1>1 DEF work, HostJob, IsRoute, Teardown, RouteStepOf
  <2> QED
    BY <2>1, <1>1, <1>2, <1>9, <1>10 DEF HostSound
<1>22. Undisturbed'
  <2> SUFFICES ASSUME NEW o \in Ops, ~strayed', Active(o)' PROVE HasHost(o)'
    BY DEF Undisturbed
  <2>1. Active(o) /\ HasHost(o) /\ ~strayed /\ env.lock = k[1] /\ k[1] = o
    BY <1>1, <1>2 DEF Undisturbed, Active, HasHost
  <2>2. \A x \in Keys : job'[x].status = "succeeded" => job'[x] = job[x]
    BY <1>6
  <2>3. LastKey(o)' = LastKey(o) /\ OnHost(o)' = OnHost(o)
    BY <1>1 DEF LastKey, OnHost, Serves, Live
  <2>4. Succeeded(LastKey(o))' => Succeeded(LastKey(o))
    <3>1. job'[LastKey(o)].status = "succeeded" => job'[LastKey(o)] = job[LastKey(o)]
      BY <2>2
    <3>2. LastKey(o)[1] = o /\ op[o].kind \in {"deploy", "start", "stop", "remove"}
      BY <1>2 DEF LastKey, RowTypes, OpRow
    <3> QED
      BY <3>1, <3>2, <2>3, <1>1
      DEF Succeeded, Reported, IsRoute, RouteStepOf, Teardown, ExpectedResult
  <2>5. env'.lock = o /\ running'[1] = o
    BY <2>1, <1>1 DEF HasHost
  <2>6. managed' /\ Teardown(o)' /\ job'[<<o, 1>>].status = "succeeded" => upstream' = 0
    BY <2>1, <2>2, <1>1 DEF HasHost, Teardown
  <2> QED
    BY <2>1, <2>3, <2>4, <2>5, <2>6 DEF HasHost
<1> QED
  BY <1>11, <1>13, <1>15, <1>16, <1>17, <1>18, <1>19, <1>20, <1>21, <1>22 DEF DeliveryInv

(* A result is stored: what the agent reports as done is so. *)
LEMMA CompletePreserves ==
  ASSUME DeliveryInv, Complete PROVE DeliveryInv'
<1> USE KeyFacts
<1> DEFINE k == running
           verdict == IF exec.ok THEN "succeeded" ELSE "failed"
           row == [[job[k] EXCEPT !.status = verdict] EXCEPT !.result = exec.result]
<1>1. /\ exec.pc = "done"
      /\ job' = IF job[k].status # "leased" THEN job
                ELSE [job EXCEPT ![k].status = verdict, ![k].result = exec.result]
      /\ exec' = Resting
      /\ running' = Nobody
      /\ UNCHANGED <<managed, container, upstream, attached, failures, env, op, route, clock,
                     queueing, projector, removal, faults, strayed>>
  BY DEF Complete
<1>2. /\ HostTypeOK /\ RowTypes /\ NothingBeforeBegin /\ QueueingSound /\ ProjectorsSound
      /\ SuccessNeedsEveryStep /\ HostSound /\ Undisturbed /\ RouteFits(route) /\ RunningSound
  BY DEF DeliveryInv
<1>3. k \in Keys /\ k[1] \in Ops /\ job[k].status \in {"leased", "cancelled"} /\ Begun(k[1])
  BY <1>1, <1>2, JobBegun DEF RunningSound
<1>4. job \in [Keys -> Job] /\ exec.result \in Results /\ exec.ok \in BOOLEAN
  BY <1>2 DEF RowTypes, HostTypeOK
<1>5. verdict \in JobStatus /\ verdict \in {"succeeded", "failed"}
      /\ (verdict = "succeeded" => exec.ok)
  BY DEF JobStatus
<1> HIDE DEF verdict
<1>6. row \in Job /\ row.status = verdict /\ row.result = exec.result
  <2> DEFINE first == [job[k] EXCEPT !.status = verdict]
  <2>1. first \in Job /\ first.status = verdict
    BY <1>3, <1>4, <1>5, JobRows
  <2>2. row = [first EXCEPT !.result = exec.result]
    OBVIOUS
  <2> HIDE DEF first, row
  <2> QED
    BY <2>1, <2>2, <1>4 DEF Job
<1>7. /\ row \in Job /\ row.status \in {"succeeded", "failed"}
      /\ (row.status = "succeeded" => exec.ok)
      /\ row.result = exec.result
  BY <1>5, <1>6
<1>8. job' = job \/ (job[k].status = "leased" /\ job' = [job EXCEPT ![k] = row])
  <2>1. CASE job[k].status = "leased"
    <3>1. job' = [job EXCEPT ![k].status = verdict, ![k].result = exec.result]
      BY <1>1, <2>1
    <3> QED
      BY <1>3, <1>4, <2>1, <3>1
  <2>2. CASE job[k].status # "leased"
    BY <1>1, <2>2
  <2> QED
    BY <2>1, <2>2
<1> HIDE DEF row, k
<1>9. /\ job' \in [Keys -> Job]
      /\ job'[k] = job[k] \/ (job[k].status = "leased" /\ job'[k] = row)
      /\ \A x \in Keys : x # k => job'[x] = job[x]
  <2> HIDE DEF Job
  <2> QED
    BY <1>3, <1>4, <1>7, <1>8
<1>10. /\ HostTypeOK' /\ exec'.pc = "idle"
  BY <1>1, <1>2, RestingRow DEF HostTypeOK, ExecRow
<1>11. RowTypes'
  BY <1>1, <1>2, <1>9 DEF RowTypes
<1>12. \A x \in Keys : job[x].status # "leased" => job'[x] = job[x]
  BY <1>9
<1>13. \A x \in Keys : job[x].status = "leased" =>
           job'[x].status \in {"leased", "succeeded", "failed"}
  BY <1>7, <1>9
<1>14. NothingBeforeBegin'
  <2>1. \A o \in Ops : NoJobs(o) => NoJobs(o)'
    BY <1>12 DEF NoJobs
  <2> QED
    BY <2>1, <1>1, <1>2 DEF NothingBeforeBegin, Begun
<1>15. QueueingSound'
  <2>1. \A o \in Ops : NoJobs(o) => NoJobs(o)'
    BY <1>12 DEF NoJobs
  <2> QED
    BY <2>1, <1>1, <1>2, <1>12 DEF QueueingSound, Teardown
<1>16. ProjectorsSound'
  <2>1. \A x \in Keys : job[x].status \in Decided => job'[x].status \in Decided
    BY <1>12 DEF Decided
  <2> QED
    BY <2>1, <1>1, <1>2 DEF ProjectorsSound
<1>17. RunningSound'
  BY <1>10 DEF RunningSound
<1>18. SuccessNeedsEveryStep'
  <2> SUFFICES ASSUME NEW o \in Ops
               PROVE  /\ job'[<<o, 2>>].status \in {"queued", "leased", "succeeded", "failed"} =>
                             job'[<<o, 1>>].status = "succeeded"
                      /\ op'[o].status = "succeeded" =>
                             \A s \in IF managed' THEN Steps ELSE {1} :
                                 job'[<<o, s>>].status = "succeeded"
    BY DEF SuccessNeedsEveryStep
  <2>1. job'[<<o, 2>>].status \in {"queued", "leased", "succeeded", "failed"} =>
            job[<<o, 2>>].status \in {"queued", "leased", "succeeded", "failed"}
    BY <1>12, <1>13
  <2>2. (IF managed THEN Steps ELSE {1}) \subseteq Steps
    BY DEF Steps
  <2>3. \A s \in Steps : job[<<o, s>>].status = "succeeded" => job'[<<o, s>>].status = "succeeded"
    BY <1>12
  <2>4. /\ job[<<o, 2>>].status \in {"queued", "leased", "succeeded", "failed"} =>
               job[<<o, 1>>].status = "succeeded"
        /\ op[o].status = "succeeded" =>
               \A s \in IF managed THEN Steps ELSE {1} : job[<<o, s>>].status = "succeeded"
    BY <1>2 DEF SuccessNeedsEveryStep
  <2>5. job[<<o, 1>>].status = "succeeded" => job'[<<o, 1>>].status = "succeeded"
    BY <2>3 DEF Steps
  <2> QED
    BY <2>1, <2>2, <2>3, <2>4, <2>5, <1>1
<1>19. RouteFits(route)'
  BY <1>1, <1>2 DEF RouteFits, Desired, Begun
<1>20. HostSound'
  BY <1>1, <1>2, <1>10 DEF HostSound
<1>21. Undisturbed'
  <2> SUFFICES ASSUME NEW o \in Ops, ~strayed', Active(o)' PROVE HasHost(o)'
    BY DEF Undisturbed
  <2>1. Active(o) /\ HasHost(o) /\ env'.lock = o
    BY <1>1, <1>2 DEF Undisturbed, Active, HasHost
  <2>2. LastKey(o)' = LastKey(o) /\ OnHost(o)' = OnHost(o) /\ Teardown(o)' = Teardown(o)
        /\ LastKey(o)[1] = o
    BY <1>1 DEF LastKey, OnHost, Serves, Live, Teardown
  <2>3. op[o].kind \in {"deploy", "start", "stop", "remove"}
    BY <1>2 DEF RowTypes, OpRow
  <2>4. exec.ok /\ (IsRoute(k) \/ exec.result \in ExpectedResult(k)) => Achieved(k)
    BY <1>1, <1>2 DEF HostSound, Reported, k
  <2>5. ASSUME managed, Teardown(o), job'[<<o, 1>>].status = "succeeded" PROVE upstream = 0
    <3>1. CASE job[<<o, 1>>].status = "succeeded"
      BY <2>1, <2>5, <3>1 DEF HasHost
    <3>2. CASE job[<<o, 1>>].status # "succeeded"
      <4>1. k = <<o, 1>> /\ exec.ok /\ k[1] = o
        <5>1. <<o, 1>> \in Keys /\ <<o, 1>>[1] = o
          OBVIOUS
        <5>2. <<o, 1>> = k
          BY <2>5, <3>2, <5>1, <1>9
        <5> QED
          BY <2>5, <3>2, <5>1, <5>2, <1>7, <1>9
      <4>2. IsRoute(k)
        BY <2>5, <4>1 DEF IsRoute, RouteStepOf
      <4> QED
        BY <2>4, <2>5, <4>1, <4>2 DEF Achieved
    <3> QED
      BY <3>1, <3>2
  <2>6. ASSUME Succeeded(LastKey(o))' PROVE OnHost(o)
    <3>1. job'[LastKey(o)].status = "succeeded"
      BY <2>2, <2>6 DEF Succeeded
    <3>2. IsRoute(LastKey(o)) \/ job'[LastKey(o)].result \in ExpectedResult(LastKey(o))
      BY <2>2, <2>3, <2>6, <1>1
      DEF Succeeded, Reported, IsRoute, RouteStepOf, Teardown, ExpectedResult
    <3>3. CASE job'[LastKey(o)] = job[LastKey(o)]
      BY <2>1, <3>1, <3>2, <3>3 DEF HasHost, Succeeded, Reported
    <3>4. CASE job'[LastKey(o)] # job[LastKey(o)]
      <4>1. k = LastKey(o) /\ job'[k] = row /\ job[k].status = "leased" /\ exec.ok /\ k[1] = o
            /\ job'[k].result = exec.result
        BY <2>2, <3>1, <3>4, <1>7, <1>9
      <4>2. Achieved(k)
        BY <2>4, <3>2, <4>1
      <4>3. CASE managed /\ ~Teardown(o)
        <5>1. IsRoute(k)
          BY <4>1, <4>3 DEF IsRoute, RouteStepOf, LastKey
        <5> QED
          BY <4>1, <4>2, <4>3, <5>1, <2>3 DEF Achieved, OnHost, Teardown
      <4>4. CASE managed /\ Teardown(o)
        <5>1. ~IsRoute(k) /\ k = <<o, 2>>
          BY <4>1, <4>4 DEF IsRoute, RouteStepOf, LastKey
        <5>2. job[<<o, 1>>].status = "succeeded"
          BY <4>1, <5>1, <1>2 DEF SuccessNeedsEveryStep
        <5>3. upstream = 0
          BY <2>1, <4>4, <5>2 DEF HasHost
        <5> QED
          BY <4>1, <4>2, <4>4, <5>1, <5>3, <2>3 DEF Achieved, OnHost, Teardown
      <4>5. CASE ~managed
        <5>1. ~IsRoute(k) /\ upstream = 0
          BY <4>5, <1>2 DEF IsRoute, HostSound
        <5> QED
          BY <4>1, <4>2, <4>5, <5>1, <2>3 DEF Achieved, OnHost, Serves
      <4> QED
        BY <4>3, <4>4, <4>5
    <3> QED
      BY <3>3, <3>4
  <2> QED
    BY <2>1, <2>2, <2>5, <2>6, <1>1, <1>10 DEF HasHost
<1> QED
  BY <1>10, <1>11, <1>14, <1>15, <1>16, <1>17, <1>18, <1>19, <1>20, <1>21 DEF DeliveryInv

(* The agent is killed: its job stays leased, and its work is done again from the start. *)
LEMMA KillPreserves ==
  ASSUME DeliveryInv, Kill PROVE DeliveryInv'
<1>1. /\ faults.kills < MaxKills /\ faults' = [faults EXCEPT !.kills = @ + 1]
      /\ exec' = Resting /\ running' = Nobody
      /\ UNCHANGED <<managed, container, upstream, attached, failures, env, op, job, route, clock,
                     queueing, projector, removal, strayed>>
  BY DEF Kill, Killed, rows
<1>2. /\ HostTypeOK /\ RowTypes /\ NothingBeforeBegin /\ QueueingSound /\ ProjectorsSound
      /\ SuccessNeedsEveryStep /\ HostSound /\ Undisturbed /\ RouteFits(route)
  BY DEF DeliveryInv
<1>3. HostTypeOK' /\ exec'.pc = "idle"
  BY <1>1, <1>2, RestingRow DEF HostTypeOK, ExecRow
<1>4. faults' \in FaultRow
  BY <1>1, <1>2, Troubles DEF RowTypes
<1>5. RowTypes'
  BY <1>1, <1>2, <1>4 DEF RowTypes
<1>6. NothingBeforeBegin' /\ QueueingSound' /\ ProjectorsSound' /\ RunningSound'
  BY <1>1, <1>2, <1>3
  DEF NothingBeforeBegin, QueueingSound, ProjectorsSound, RunningSound, NoJobs, Begun, Teardown
<1>7. SuccessNeedsEveryStep' /\ RouteFits(route)' /\ HostSound'
  BY <1>1, <1>2, <1>3 DEF SuccessNeedsEveryStep, RouteFits, HostSound, Desired, Begun
<1>8. Undisturbed'
  <2> SUFFICES ASSUME NEW o \in Ops, ~strayed', Active(o)' PROVE HasHost(o)'
    BY DEF Undisturbed
  <2>1. Active(o) /\ HasHost(o)
    BY <1>1, <1>2 DEF Undisturbed, Active
  <2>2. /\ LastKey(o)' = LastKey(o) /\ OnHost(o)' = OnHost(o) /\ Teardown(o)' = Teardown(o)
        /\ Succeeded(LastKey(o))' = Succeeded(LastKey(o))
    BY <1>1 DEF LastKey, OnHost, Serves, Live, Teardown, Succeeded, Reported, IsRoute, RouteStepOf,
                ExpectedResult
  <2> QED
    BY <2>1, <2>2, <1>1, <1>3 DEF HasHost
<1> QED
  BY <1>3, <1>5, <1>6, <1>7, <1>8 DEF DeliveryInv

-----------------------------------------------------------------------------
(* The agent on its host. *)

ContainersSound ==
    /\ container \in [Revisions -> Container]
    /\ \A r \in Revisions : container[r].name = "none" => container[r] = Missing

\* What lies behind the agent in each phase, and what a report stands for.
PhaseSound ==
    /\ exec.pc \in {"switch", "verify", "commit"} => Live(exec.job.rev) /\ attached
    /\ exec.pc \in {"verify", "commit"} => upstream = exec.job.rev
    /\ exec.pc = "disconnect" => upstream = 0
    /\ exec.pc = "done" /\ Reported(exec.ok, exec.result, running) => Achieved(running)

HostMove ==
    /\ exec.pc \notin {"idle", "done"}
    /\ managed' = managed
    /\ ContainersSound'
    /\ upstream' \in {0} \cup Revisions
    /\ upstream' = upstream \/ IsRoute(running)
    /\ attached' \in BOOLEAN
    /\ failures' \in 0..MaxFailures
    /\ exec' \in ExecRow
    /\ exec'.pc = "done" \/ (exec'.pc \in PhasesOf(exec.job.kind) /\ exec'.job = exec.job)
    /\ PhaseSound'

Elsewhere ==
    UNCHANGED <<env, op, job, route, clock, queueing, projector, removal, running, faults, strayed>>

(* The operation that has the environment is not disturbed by the work on another job, nor by *)
(* the work on its own: the job whose success is recorded is not the one that is worked on.   *)
LEMMA HostMoveKeepsHost ==
  ASSUME DeliveryInv, HostMove, Elsewhere, NEW o \in Ops, Active(o), HasHost(o)
  PROVE  HasHost(o)'
<1> USE KeyFacts DEF Elsewhere
<1>1. /\ running \in Keys /\ job[running].status \in {"leased", "cancelled"}
      /\ running[1] \in Ops /\ running = <<running[1], running[2]>>
      /\ running[2] = 1 \/ running[2] = 2
  BY DEF HostMove, DeliveryInv, RunningSound
<1>2. LastKey(o)' = LastKey(o) /\ Teardown(o)' = Teardown(o) /\ managed' = managed
  BY DEF HostMove, LastKey, Teardown
<1>3. Succeeded(LastKey(o))' = Succeeded(LastKey(o))
  BY <1>2 DEF Succeeded, Reported, IsRoute, RouteStepOf, Teardown, ExpectedResult
<1>4. ASSUME NEW s \in Steps, job[<<o, s>>].status = "succeeded"
      PROVE  running[1] = o /\ running # <<o, s>>
  BY <1>1, <1>4 DEF HasHost, HostMove
<1>5. ASSUME managed, Teardown(o), job[<<o, 1>>].status = "succeeded" PROVE upstream' = 0
  <2>1. running[1] = o /\ running[2] = 2
    BY <1>1, <1>4, <1>5 DEF Steps
  <2>2. ~IsRoute(running)
    BY <1>5, <2>1 DEF IsRoute, RouteStepOf
  <2> QED
    BY <1>5, <2>2 DEF HostMove, HasHost
<1>6. ~Succeeded(LastKey(o))
  <2> SUFFICES ASSUME job[LastKey(o)].status = "succeeded" PROVE FALSE
    BY DEF Succeeded
  <2>1. CASE managed
    <3>1. job[<<o, 2>>].status = "succeeded" /\ job[<<o, 1>>].status = "succeeded"
      BY <2>1 DEF LastKey, DeliveryInv, SuccessNeedsEveryStep
    <3> QED
      BY <1>1, <1>4, <3>1 DEF Steps
  <2>2. CASE ~managed
    <3>1. job[<<o, 1>>].status = "succeeded" /\ job[<<o, 2>>].status = "absent"
      BY <2>2 DEF LastKey, DeliveryInv, QueueingSound
    <3>2. running = <<o, 2>>
      BY <1>1, <1>4, <3>1 DEF Steps
    <3> QED
      BY <1>1, <3>1, <3>2
  <2> QED
    BY <2>1, <2>2
<1> QED
  BY <1>2, <1>3, <1>5, <1>6 DEF HasHost, HostMove

(* A step on the host changes nothing that the rows say. *)
LEMMA HostMoveKeeps ==
  ASSUME DeliveryInv, HostMove, Elsewhere PROVE DeliveryInv'
<1> USE DEF Elsewhere
<1>1. /\ HostTypeOK /\ RowTypes /\ NothingBeforeBegin /\ QueueingSound /\ ProjectorsSound
      /\ RunningSound /\ SuccessNeedsEveryStep /\ HostSound /\ Undisturbed /\ RouteFits(route)
      /\ managed' = managed
  BY DEF DeliveryInv, HostMove
<1>2. HostTypeOK'
  BY <1>1 DEF HostTypeOK, HostMove, ContainersSound, ExecRow
<1>3. RowTypes' /\ NothingBeforeBegin' /\ QueueingSound' /\ ProjectorsSound'
  BY <1>1 DEF RowTypes, NothingBeforeBegin, QueueingSound, ProjectorsSound, NoJobs, Begun, Teardown
<1>4. RunningSound'
  BY <1>1 DEF RunningSound, HostMove
<1>5. SuccessNeedsEveryStep' /\ RouteFits(route)'
  BY <1>1 DEF SuccessNeedsEveryStep, RouteFits, Desired, Begun
<1>6. HostSound'
  <2>1. ~managed => upstream' = 0
    BY <1>1 DEF HostSound, HostMove, IsRoute
  <2>2. exec'.pc \notin {"idle", "done"} =>
            exec'.job = HostJob(running)' /\ exec'.pc \in PhasesOf(exec'.job.kind)
    <3>1. HostJob(running)' = HostJob(running)
      BY <1>1 DEF HostJob, IsRoute, Teardown, RouteStepOf
    <3>2. exec.job = HostJob(running)
      BY <1>1 DEF HostSound, HostMove
    <3> QED
      BY <3>1, <3>2 DEF HostMove
  <2> QED
    BY <1>1, <2>1, <2>2 DEF HostSound, HostMove, PhaseSound, ContainersSound
<1>7. Undisturbed'
  <2> SUFFICES ASSUME NEW o \in Ops, ~strayed', Active(o)' PROVE HasHost(o)'
    BY DEF Undisturbed
  <2>1. Active(o) /\ HasHost(o)
    BY <1>1 DEF Undisturbed, Active
  <2> QED
    BY <2>1, HostMoveKeepsHost
<1> QED
  BY <1>2, <1>3, <1>4, <1>5, <1>6, <1>7 DEF DeliveryInv

(* In each phase the agent works on a job of that phase, for an operation that has begun. *)
HostWorking ==
    /\ running \in Keys /\ running[1] \in Ops
    /\ exec \in ExecRow /\ exec.job \in HostJobs
    /\ exec.job.rev = op[running[1]].version /\ exec.job.rev \in Revisions
    /\ exec.pc \in PhasesOf(exec.job.kind)
    /\ exec.job.kind = IF ~IsRoute(running) THEN op[running[1]].kind
                       ELSE IF Teardown(running[1]) THEN "deactivate" ELSE "activate"
    /\ op[running[1]].kind \in {"deploy", "start", "stop", "remove"}
    /\ ContainersSound /\ PhaseSound /\ upstream \in {0} \cup Revisions
    /\ attached \in BOOLEAN /\ failures \in 0..MaxFailures

(* What the invariant says of an agent that is at work. *)
LEMMA PhaseAtWork ==
  ASSUME DeliveryInv, exec.pc \notin {"idle", "done"} PROVE HostWorking
<1>1. /\ HostTypeOK /\ RowTypes /\ HostSound /\ RunningSound
  BY DEF DeliveryInv
<1>2. running \in Keys /\ running[1] \in Ops /\ Begun(running[1])
  BY <1>1, JobBegun, KeyFacts DEF RunningSound
<1>3. exec.job = HostJob(running) /\ exec.job \in HostJobs
      /\ exec.job.rev = op[running[1]].version /\ exec.pc \in PhasesOf(exec.job.kind)
  BY <1>1, <1>2, HostJobRow DEF HostSound
<1>4. exec.job.rev \in Revisions
  BY <1>3 DEF HostJobs
<1>5. exec.job.kind = IF ~IsRoute(running) THEN op[running[1]].kind
                      ELSE IF Teardown(running[1]) THEN "deactivate" ELSE "activate"
  BY <1>3 DEF HostJob
<1>6. op[running[1]].kind \in {"deploy", "start", "stop", "remove"}
  BY <1>1, <1>2 DEF RowTypes, OpRow
<1>7. ContainersSound /\ PhaseSound /\ exec \in ExecRow
  BY <1>1 DEF HostTypeOK, HostSound, ContainersSound, PhaseSound, ExecRow
<1> QED
  BY <1>1, <1>2, <1>3, <1>4, <1>5, <1>6, <1>7 DEF HostWorking, HostTypeOK

(* Which phases belong to which kind of step. *)
LEMMA PhaseKinds ==
  ASSUME HostWorking
  PROVE  /\ exec.pc \in {"workload", "waiting", "renaming", "final"} =>
                ~IsRoute(running) /\ exec.job.kind \in {"deploy", "start"}
         /\ exec.pc = "stopping" => ~IsRoute(running) /\ exec.job.kind = "stop"
         /\ exec.pc = "removing" => ~IsRoute(running) /\ exec.job.kind = "remove"
         /\ exec.pc \in {"connect", "switch", "verify", "commit", "restore", "discard", "detach"} =>
                IsRoute(running) /\ exec.job.kind = "activate" /\ ~Teardown(running[1])
         /\ exec.pc \in {"clear", "disconnect", "reattach"} =>
                IsRoute(running) /\ exec.job.kind = "deactivate" /\ Teardown(running[1])
         /\ ~IsRoute(running) => exec.job.kind = op[running[1]].kind
         /\ exec.pc \notin {"idle", "done"}
<1>1. exec.job.kind \in {"deploy", "start", "stop", "remove", "activate", "deactivate"}
  BY DEF HostWorking, HostJobs
<1>2. IsRoute(running) <=> exec.job.kind \in {"activate", "deactivate"}
  BY DEF HostWorking
<1>3. IsRoute(running) => (Teardown(running[1]) <=> exec.job.kind = "deactivate")
  BY DEF HostWorking
<1> QED
  BY <1>1, <1>2, <1>3 DEF HostWorking, PhasesOf

(* The steps of the agent's own state. *)
LEMMA RunRow ==
  ASSUME exec \in ExecRow, NEW pc \in Phases, Run(pc)
  PROVE  exec' \in ExecRow /\ exec'.pc = pc /\ exec'.job = exec.job
  BY DEF Run, ExecRow

(* The job is over, with a verdict and a result. *)
LEMMA FinishRow ==
  ASSUME NEW ok \in BOOLEAN, NEW result \in Results, Finish(ok, result)
  PROVE  exec' \in ExecRow /\ exec'.pc = "done" /\ exec'.ok = ok /\ exec'.result = result
<1>1. "done" \in Phases
  BY DEF Phases
<1> QED
  BY <1>1, RestingRow DEF Finish, ExecRow, Resting

(* Failures are counted within their bound. *)
LEMMA FailsRow ==
  ASSUME failures \in 0..MaxFailures, NEW is \in BOOLEAN, Fails(is)
  PROVE  failures' \in 0..MaxFailures
  BY WorkloadAssumption DEF Fails

(* A job that fails reports no success, whatever it says of the route. *)
LEMMA FailureMoves ==
  ASSUME HostWorking, NEW result \in Results, Finish(FALSE, result), managed' = managed,
         ContainersSound', upstream' \in {0} \cup Revisions,
         upstream' = upstream \/ IsRoute(running), attached' \in BOOLEAN,
         failures' \in 0..MaxFailures
  PROVE  HostMove
<1>1. exec' \in ExecRow /\ exec'.pc = "done" /\ exec'.ok = FALSE
  BY FinishRow
<1>2. PhaseSound'
  BY <1>1 DEF PhaseSound, Reported
<1> QED
  BY <1>1, <1>2, PhaseKinds DEF HostMove

(* A route job that fails says what was restored, or nothing. *)
LEMMA RouteFailedMoves ==
  ASSUME HostWorking, NEW result \in Results, RouteFailed(result), managed' = managed,
         ContainersSound', upstream' \in {0} \cup Revisions,
         upstream' = upstream \/ IsRoute(running), attached' \in BOOLEAN,
         failures' \in 0..MaxFailures
  PROVE  HostMove
<1>1. PICK told \in {result, "unknown"} : Finish(FALSE, told)
  BY DEF RouteFailed
<1>2. told \in Results
  BY DEF Results
<1> QED
  BY <1>1, <1>2, FailureMoves

(* A job that succeeds reports what it has brought about. *)
LEMMA SuccessMoves ==
  ASSUME HostWorking, Elsewhere, NEW result \in Results, Finish(TRUE, result), managed' = managed,
         ContainersSound', upstream' \in {0} \cup Revisions,
         upstream' = upstream \/ IsRoute(running), attached' \in BOOLEAN,
         failures' \in 0..MaxFailures,
         IsRoute(running) \/ result \in ExpectedResult(running) => Achieved(running)'
  PROVE  HostMove
<1>1. exec' \in ExecRow /\ exec'.pc = "done" /\ exec'.result = result
  BY FinishRow
<1>2. Reported(exec.ok, exec.result, running)' => Achieved(running)'
  <2>1. IsRoute(running)' = IsRoute(running) /\ ExpectedResult(running)' = ExpectedResult(running)
    BY DEF IsRoute, RouteStepOf, Teardown, ExpectedResult, Elsewhere
  <2> QED
    BY <1>1, <2>1 DEF Reported
<1>3. PhaseSound'
  BY <1>1, <1>2 DEF PhaseSound
<1> QED
  BY <1>1, <1>3, PhaseKinds DEF HostMove

(* A step to a phase behind which nothing has to be done. *)
LEMMA PhaseMoves ==
  ASSUME HostWorking, exec' \in ExecRow, exec'.job = exec.job, exec'.pc \in PhasesOf(exec.job.kind),
         exec'.pc \notin {"switch", "verify", "commit", "disconnect", "done"},
         managed' = managed, ContainersSound', upstream' \in {0} \cup Revisions,
         upstream' = upstream \/ IsRoute(running), attached' \in BOOLEAN,
         failures' \in 0..MaxFailures
  PROVE  HostMove
<1>1. PhaseSound'
  BY DEF PhaseSound
<1> QED
  BY <1>1, PhaseKinds DEF HostMove

(* What becomes of one container, or of a set of them. *)
LEMMA ContainerRow ==
  ASSUME ContainersSound, NEW r \in Revisions, NEW row \in Container,
         row.name = "none" => row = Missing, container' = [container EXCEPT ![r] = row]
  PROVE  /\ ContainersSound' /\ container'[r] = row
         /\ \A q \in Revisions : q # r => container'[q] = container[q]
  BY DEF ContainersSound

(* Rows that a container can have. *)
LEMMA ContainerKinds ==
    /\ Missing \in Container
    /\ [name |-> "next", up |-> TRUE] \in Container
    /\ [name |-> "base", up |-> FALSE] \in Container
    /\ \A c \in Container : c.name = "base" =>
           /\ [c EXCEPT !.up = TRUE] \in Container /\ [c EXCEPT !.up = TRUE].name = "base"
           /\ [c EXCEPT !.up = FALSE] \in Container /\ [c EXCEPT !.up = FALSE].name = "base"
           /\ [c EXCEPT !.up = FALSE].up = FALSE
    /\ \A c \in Container :
           /\ [c EXCEPT !.name = "base"] \in Container /\ [c EXCEPT !.name = "base"].name = "base"
  BY DEF Container, Missing

(* Jobs of a workload. *)
LEMMA WorkloadStepMoves ==
  ASSUME HostWorking, Elsewhere, WorkloadStep PROVE HostMove
<1>1. /\ exec \in ExecRow /\ exec.job \in HostJobs /\ exec.job.rev \in Revisions
      /\ ContainersSound /\ upstream \in {0} \cup Revisions
      /\ attached \in BOOLEAN /\ failures \in 0..MaxFailures
      /\ container \in [Revisions -> Container]
  BY DEF HostWorking, ContainersSound
<1>2. UNCHANGED container => ContainersSound'
  BY <1>1 DEF ContainersSound
<1>3. "unknown" \in Results /\ "running" \in Results /\ "stopped" \in Results
      /\ "missing" \in Results
  BY DEF Results
<1>4. CASE WorkloadFails
  <2>1. failures' \in 0..MaxFailures
    BY <1>1, <1>4, FailsRow DEF WorkloadFails
  <2> QED
    BY <1>1, <1>2, <1>3, <1>4, <2>1, FailureMoves DEF WorkloadFails
<1>5. CASE ReuseWorkload
  <2>1. PICK r \in Published(exec.job) : container' = [container EXCEPT ![r].up = TRUE]
    BY <1>5 DEF ReuseWorkload
  <2>2. r \in Revisions /\ container[r] \in Container /\ container[r].name = "base"
    BY <1>1, <2>1 DEF Published
  <2>3. container' = [container EXCEPT ![r] = [container[r] EXCEPT !.up = TRUE]]
    BY <1>1, <2>1, <2>2
  <2>4. ContainersSound'
    BY <1>1, <2>2, <2>3, ContainerRow, ContainerKinds
  <2>5. "final" \in Phases /\ "final" \in PhasesOf(exec.job.kind)
    BY <1>5, PhaseKinds DEF Phases, PhasesOf, ReuseWorkload
  <2>6. exec' \in ExecRow /\ exec'.pc = "final" /\ exec'.job = exec.job
    BY <1>1, <1>5, <2>5, RunRow DEF ReuseWorkload
  <2> QED
    BY <1>1, <1>5, <2>4, <2>5, <2>6, PhaseMoves DEF ReuseWorkload
<1>6. CASE StartCandidate
  <2>1. ContainersSound'
    BY <1>1, <1>6, ContainerRow, ContainerKinds DEF StartCandidate
  <2>2. "waiting" \in Phases /\ "waiting" \in PhasesOf(exec.job.kind)
    BY <1>6 DEF Phases, PhasesOf, StartCandidate
  <2>3. exec' \in ExecRow /\ exec'.pc = "waiting" /\ exec'.job = exec.job
    BY <1>1, <1>6, <2>2, RunRow DEF StartCandidate
  <2> QED
    BY <1>1, <1>6, <2>1, <2>2, <2>3, PhaseMoves DEF StartCandidate
<1>8. CASE CandidateHealthy
  <2>1. ContainersSound'
    BY <1>1, <1>8, ContainerKinds DEF CandidateHealthy, ContainersSound
  <2>2. "renaming" \in Phases /\ exec.job.kind = "deploy"
    BY <1>8 DEF HostWorking, PhasesOf, CandidateHealthy, Phases
  <2>3. "renaming" \in PhasesOf(exec.job.kind)
    BY <2>2 DEF PhasesOf
  <2>4. exec' \in ExecRow /\ exec'.pc = "renaming" /\ exec'.job = exec.job
    BY <1>1, <1>8, <2>2, RunRow DEF CandidateHealthy
  <2> QED
    BY <1>1, <1>8, <2>1, <2>3, <2>4, PhaseMoves DEF CandidateHealthy
<1>9. CASE CandidateUnhealthy
  <2>1. ContainersSound'
    BY <1>1, <1>9, ContainerRow, ContainerKinds DEF CandidateUnhealthy
  <2>2. failures' \in 0..MaxFailures
    BY <1>1, <1>9, FailsRow DEF CandidateUnhealthy
  <2> QED
    BY <1>1, <1>3, <1>9, <2>1, <2>2, FailureMoves DEF CandidateUnhealthy
<1>10. CASE PublishCandidate
  <2> DEFINE r == exec.job.rev
  <2>1. container' = [container EXCEPT ![r] = [container[r] EXCEPT !.name = "base"]]
        /\ container[r] \in Container
    BY <1>1, <1>10 DEF PublishCandidate
  <2>2. ContainersSound'
    BY <1>1, <2>1, ContainerRow, ContainerKinds
  <2>3. "final" \in Phases /\ "final" \in PhasesOf(exec.job.kind)
    BY <1>10, PhaseKinds DEF Phases, PhasesOf, PublishCandidate
  <2>4. exec' \in ExecRow /\ exec'.pc = "final" /\ exec'.job = exec.job
    BY <1>1, <1>10, <2>3, RunRow DEF PublishCandidate
  <2> QED
    BY <1>1, <1>10, <2>2, <2>3, <2>4, PhaseMoves DEF PublishCandidate
<1>11. CASE WorkloadRuns
  <2> DEFINE result == IF Live(exec.job.rev) THEN "running" ELSE "unknown"
  <2>1. ~IsRoute(running) /\ op[running[1]].kind \in {"deploy", "start"}
    BY <1>11, PhaseKinds DEF WorkloadRuns
  <2>2. result \in Results /\ Finish(TRUE, result)
        /\ UNCHANGED <<managed, container, upstream, attached, failures>>
    BY <1>3, <1>11 DEF WorkloadRuns
  <2>3. ASSUME result \in ExpectedResult(running) PROVE Achieved(running)'
    <3>1. Live(op[running[1]].version)
      BY <2>1, <2>3 DEF ExpectedResult, HostWorking
    <3>2. Live(op[running[1]].version)'
      BY <2>2, <3>1 DEF Live, Elsewhere
    <3> QED
      BY <2>1, <2>2, <3>2 DEF Achieved, IsRoute, RouteStepOf, Teardown, Elsewhere
  <2> HIDE DEF result
  <2> QED
    BY <1>1, <1>2, <2>1, <2>2, <2>3, SuccessMoves
<1>12. CASE StopWorkload
  <2> DEFINE result == IF exec.job.rev \in Published(exec.job) THEN "stopped" ELSE "missing"
  <2>1. ~IsRoute(running) /\ op[running[1]].kind = "stop"
    BY <1>12, PhaseKinds DEF StopWorkload
  <2>2. /\ result \in Results /\ Finish(TRUE, result)
        /\ container' = [r \in Revisions |->
                           IF r \in Published(exec.job)
                           THEN [container[r] EXCEPT !.up = FALSE] ELSE container[r]]
        /\ UNCHANGED <<managed, upstream, attached, failures>>
    BY <1>3, <1>12 DEF StopWorkload
  <2>3. \A r \in Published(exec.job) : container[r].name = "base"
    BY DEF Published
  <2>4. ContainersSound'
    BY <1>1, <2>2, <2>3, ContainerKinds DEF ContainersSound
  <2>5. ASSUME result \in ExpectedResult(running) PROVE Achieved(running)'
    <3>1. exec.job.rev \in Published(exec.job)
      BY <2>1, <2>5 DEF ExpectedResult
    <3>2. container'[exec.job.rev] = [container[exec.job.rev] EXCEPT !.up = FALSE]
      BY <1>1, <2>2, <3>1
    <3>3. ~container'[op[running[1]].version].up
      BY <1>1, <2>3, <3>1, <3>2, ContainerKinds DEF HostWorking
    <3> QED
      BY <2>1, <2>2, <3>3 DEF Achieved, IsRoute, RouteStepOf, Teardown, Elsewhere
  <2> HIDE DEF result
  <2> QED
    BY <1>1, <2>1, <2>2, <2>4, <2>5, SuccessMoves
<1>13. CASE RemoveRevision
  <2>1. ContainersSound'
    <3>1. PICK r \in Removable(exec.job) : container' = [container EXCEPT ![r] = Missing]
      BY <1>13 DEF RemoveRevision
    <3>2. r \in Revisions
      BY <3>1 DEF Removable
    <3> QED
      BY <1>1, <3>1, <3>2, ContainerRow, ContainerKinds
  <2>2. exec' = exec /\ exec.pc = "removing" /\ exec.pc \in PhasesOf(exec.job.kind)
    BY <1>13 DEF RemoveRevision, HostWorking
  <2> QED
    BY <1>1, <1>13, <2>1, <2>2, PhaseMoves DEF RemoveRevision
<1>14. CASE WorkloadRemoved
  <2>1. ~IsRoute(running) /\ op[running[1]].kind = "remove"
    BY <1>14, PhaseKinds DEF WorkloadRemoved
  <2>2. /\ Finish(TRUE, "missing") /\ Removable(exec.job) = {}
        /\ UNCHANGED <<managed, container, upstream, attached, failures>>
    BY <1>14 DEF WorkloadRemoved
  <2>3. \A r \in Revisions : managed => container[r] = Missing
    BY <2>2 DEF Removable, HostWorking, ContainersSound
  <2>4. Achieved(running)'
    BY <2>1, <2>2, <2>3 DEF Achieved, IsRoute, RouteStepOf, Teardown, Elsewhere
  <2> QED
    BY <1>1, <1>2, <1>3, <2>2, <2>4, SuccessMoves
<1> QED
  BY <1>4, <1>5, <1>6, <1>8, <1>9, <1>10, <1>11, <1>12, <1>13, <1>14 DEF WorkloadStep

(* Jobs of a route. *)
LEMMA RouteStepMoves ==
  ASSUME HostWorking, Elsewhere, RouteStep PROVE HostMove
<1>1. /\ exec \in ExecRow /\ exec.job \in HostJobs /\ exec.job.rev \in Revisions
      /\ ContainersSound /\ upstream \in {0} \cup Revisions
      /\ attached \in BOOLEAN /\ failures \in 0..MaxFailures
      /\ exec.previous \in {0} \cup Revisions /\ exec.incomplete \in BOOLEAN
      /\ exec.pc \in PhasesOf(exec.job.kind)
  BY DEF HostWorking, ExecRow
<1>2. UNCHANGED container => ContainersSound'
  BY <1>1 DEF ContainersSound
<1>3. "unknown" \in Results /\ "running" \in Results /\ "stopped" \in Results
      /\ "serving" \in Results
  BY DEF Results
<1>4. \A is \in BOOLEAN : Fails(is) => failures' \in 0..MaxFailures
  BY <1>1, FailsRow
<1>5. ASSUME exec.pc \in {"connect", "switch", "verify", "commit", "restore", "discard", "detach"}
      PROVE  /\ IsRoute(running) /\ ~Teardown(running[1])
             /\ {"connect", "switch", "verify", "commit", "restore", "discard", "detach"} =
                    PhasesOf(exec.job.kind)
  BY <1>5, PhaseKinds DEF PhasesOf
<1>6. ASSUME exec.pc \in {"clear", "disconnect", "reattach"}
      PROVE  /\ IsRoute(running) /\ Teardown(running[1])
             /\ {"clear", "disconnect", "reattach"} = PhasesOf(exec.job.kind)
  BY <1>6, PhaseKinds DEF PhasesOf
<1>7. {"switch", "verify", "commit", "restore", "discard", "detach", "disconnect", "reattach"}
          \subseteq Phases
  BY DEF Phases
<1>8. \A pc \in Phases : Run(pc) => exec' \in ExecRow /\ exec'.pc = pc /\ exec'.job = exec.job
  BY <1>1, RunRow
<1>9. CASE Connect
  <2>1. exec' \in ExecRow /\ exec'.pc = "switch" /\ exec'.job = exec.job
    <3>1. exec' = [exec EXCEPT !.pc = "switch", !.attempted = exec.job.rev]
      BY <1>9 DEF Connect
    <3> QED
      BY <1>1, <1>7, <3>1 DEF ExecRow
  <2>2. Live(exec.job.rev)' /\ attached'
    BY <1>9, <2>1 DEF Connect, Live
  <2>3. PhaseSound'
    BY <2>1, <2>2 DEF PhaseSound
  <2> QED
    BY <1>1, <1>2, <1>5, <1>9, <2>1, <2>3 DEF HostMove, Connect
<1>10. CASE Switch
  <2>1. exec' \in ExecRow /\ exec'.pc = "verify" /\ exec'.job = exec.job
    BY <1>7, <1>8, <1>10 DEF Switch
  <2>2. Live(exec.job.rev)' /\ attached' /\ upstream' = exec'.job.rev
    BY <1>10, <2>1 DEF Switch, Live, HostWorking, PhaseSound
  <2>3. PhaseSound'
    BY <2>1, <2>2 DEF PhaseSound
  <2> QED
    BY <1>1, <1>2, <1>5, <1>10, <2>1, <2>3 DEF HostMove, Switch
<1>11. CASE Verify
  <2>1. exec' \in ExecRow /\ exec'.pc = "commit" /\ exec'.job = exec.job
    BY <1>7, <1>8, <1>11 DEF Verify
  <2>2. Live(exec.job.rev)' /\ attached' /\ upstream' = exec'.job.rev
    BY <1>11, <2>1 DEF Verify, Live, HostWorking, PhaseSound
  <2>3. PhaseSound'
    BY <2>1, <2>2 DEF PhaseSound
  <2> QED
    BY <1>1, <1>2, <1>5, <1>11, <2>1, <2>3 DEF HostMove, Verify
<1>12. CASE ActivationFails
  <2>1. exec' \in ExecRow /\ exec'.pc = "restore" /\ exec'.job = exec.job
    BY <1>7, <1>8, <1>12 DEF ActivationFails
  <2>2. attached' \in BOOLEAN /\ upstream' \in {0} \cup Revisions /\ failures' \in 0..MaxFailures
    BY <1>1, <1>4, <1>12 DEF ActivationFails
  <2> QED
    BY <1>1, <1>2, <1>5, <1>12, <2>1, <2>2, PhaseMoves DEF ActivationFails
<1>13. CASE Restore
  <2>1. PICK fails \in BOOLEAN :
          /\ Fails(fails)
          /\ upstream' \in {exec.previous} \cup (IF fails THEN {upstream} ELSE {})
          /\ IF exec.previous = 0 \/ exec.previous # exec.attempted
             THEN exec' = [exec EXCEPT !.pc = "discard", !.incomplete = fails]
             ELSE RouteFailed(IF fails THEN "unknown" ELSE "serving")
    BY <1>13 DEF Restore
  <2>2. /\ failures' \in 0..MaxFailures /\ upstream' \in {0} \cup Revisions
        /\ managed' = managed /\ attached' \in BOOLEAN /\ ContainersSound'
        /\ IsRoute(running)
    BY <1>1, <1>2, <1>4, <1>5, <1>13, <2>1 DEF Restore
  <2>3. CASE exec.previous = 0 \/ exec.previous # exec.attempted
    <3>1. exec' \in ExecRow /\ exec'.pc = "discard" /\ exec'.job = exec.job
      BY <1>1, <1>7, <2>1, <2>3 DEF ExecRow
    <3> QED
      BY <1>5, <1>13, <2>2, <3>1, PhaseMoves DEF Restore
  <2>4. CASE ~(exec.previous = 0 \/ exec.previous # exec.attempted)
    <3> DEFINE result == IF fails THEN "unknown" ELSE "serving"
    <3>1. result \in Results /\ RouteFailed(result)
      BY <1>3, <2>1, <2>4
    <3> HIDE DEF result
    <3> QED
      BY <2>2, <3>1, RouteFailedMoves
  <2> QED
    BY <2>3, <2>4
<1>14. \A incomplete \in BOOLEAN :
         RolledBack(incomplete) => \E result \in Results : RouteFailed(result)
  <2> SUFFICES ASSUME NEW incomplete \in BOOLEAN, RolledBack(incomplete)
               PROVE  \E result \in Results : RouteFailed(result)
    OBVIOUS
  <2> DEFINE result == IF incomplete THEN "unknown"
                       ELSE IF exec.previous # 0 THEN "serving" ELSE "stopped"
  <2>1. result \in Results /\ RouteFailed(result)
    BY <1>3 DEF RolledBack
  <2> QED
    BY <2>1
<1>15. CASE Discard
  <2> DEFINE remains == IF exec.job.activation = "deploy" THEN Missing
                        ELSE [name |-> "base", up |-> FALSE]
  <2>1. PICK fails \in BOOLEAN :
          /\ IF Live(exec.job.rev) THEN Fails(fails) ELSE fails /\ Fails(FALSE)
          /\ container' = IF fails THEN container
                          ELSE [container EXCEPT ![exec.job.rev] = remains]
          /\ IF exec.previous = 0
             THEN exec' = [exec EXCEPT !.pc = "detach", !.incomplete = exec.incomplete \/ fails]
             ELSE RolledBack(exec.incomplete \/ fails)
    BY <1>15 DEF Discard
  <2>2. /\ managed' = managed /\ upstream' = upstream /\ attached' = attached
        /\ exec.pc = "discard" /\ IsRoute(running)
    BY <1>5, <1>15 DEF Discard
  <2>3. failures' \in 0..MaxFailures
    BY <1>4, <2>1
  <2>4. remains \in Container /\ (remains.name = "none" => remains = Missing)
    BY ContainerKinds
  <2> HIDE DEF remains
  <2>5. ContainersSound'
    BY <1>1, <1>2, <2>1, <2>4, ContainerRow
  <2>6. (exec.incomplete \/ fails) \in BOOLEAN
    BY <1>1
  <2>7. CASE exec.previous = 0
    <3>1. exec' \in ExecRow /\ exec'.pc = "detach" /\ exec'.job = exec.job
      BY <1>1, <1>7, <2>1, <2>6, <2>7 DEF ExecRow
    <3> QED
      BY <1>1, <1>5, <2>2, <2>3, <2>5, <3>1, PhaseMoves
  <2>8. CASE exec.previous # 0
    BY <1>1, <1>14, <2>1, <2>2, <2>3, <2>5, <2>6, <2>8, RouteFailedMoves
  <2> QED
    BY <2>7, <2>8
<1>16. CASE Detach
  <2>1. PICK fails \in BOOLEAN :
          Fails(fails) /\ attached' = (fails /\ attached) /\ RolledBack(exec.incomplete \/ fails)
    BY <1>16 DEF Detach
  <2>2. (exec.incomplete \/ fails) \in BOOLEAN /\ attached' \in BOOLEAN
        /\ failures' \in 0..MaxFailures
    BY <1>1, <1>4, <2>1
  <2>3. managed' = managed /\ upstream' = upstream /\ ContainersSound'
    BY <1>2, <1>16 DEF Detach
  <2> QED
    BY <1>1, <1>14, <2>1, <2>2, <2>3, RouteFailedMoves
<1>17. CASE RetireRevision
  <2>1. PICK r \in Revisions \ {exec.job.rev} : container' = [container EXCEPT ![r] = Missing]
    BY <1>17 DEF RetireRevision
  <2>2. ContainersSound'
    BY <1>1, <2>1, ContainerRow, ContainerKinds
  <2>3. container'[exec.job.rev] = container[exec.job.rev]
    BY <1>1, <2>1 DEF ContainersSound
  <2>4. exec' = exec /\ exec.pc = "commit"
        /\ UNCHANGED <<managed, upstream, attached, failures>>
    BY <1>17 DEF RetireRevision
  <2>5. PhaseSound'
    BY <2>3, <2>4 DEF PhaseSound, Live, HostWorking
  <2> QED
    BY <1>1, <2>2, <2>4, <2>5 DEF HostMove
<1>18. CASE RouteActive
  <2>1. /\ Finish(TRUE, "running")
        /\ UNCHANGED <<managed, container, upstream, attached, failures>>
    BY <1>18 DEF RouteActive
  <2>2. Live(op[running[1]].version) /\ attached /\ upstream = op[running[1]].version
    BY <1>18 DEF RouteActive, HostWorking, PhaseSound
  <2>3. Achieved(running)'
    BY <1>5, <1>18, <2>1, <2>2
    DEF Achieved, IsRoute, RouteStepOf, Teardown, Serves, Live, Elsewhere, RouteActive
  <2> QED
    BY <1>1, <1>2, <1>3, <2>1, <2>3, SuccessMoves
<1>19. CASE ReportFails
  BY <1>1, <1>2, <1>3, <1>4, <1>19, FailureMoves DEF ReportFails
<1>20. CASE ClearRoute
  <2>1. exec' \in ExecRow /\ exec'.pc = "disconnect" /\ exec'.job = exec.job
    BY <1>7, <1>8, <1>20 DEF ClearRoute
  <2>2. PhaseSound'
    BY <1>20, <2>1 DEF PhaseSound, ClearRoute
  <2> QED
    BY <1>1, <1>2, <1>6, <1>20, <2>1, <2>2 DEF HostMove, ClearRoute
<1>21. CASE Disconnect
  <2>1. /\ Finish(TRUE, "stopped") /\ attached' = FALSE /\ upstream = 0
        /\ UNCHANGED <<managed, container, upstream, failures>>
    BY <1>21 DEF Disconnect, HostWorking, PhaseSound
  <2>2. Achieved(running)'
    BY <1>6, <1>21, <2>1 DEF Achieved, IsRoute, RouteStepOf, Teardown, Elsewhere, Disconnect
  <2> QED
    BY <1>1, <1>2, <1>3, <2>1, <2>2, SuccessMoves
<1>22. CASE DeactivationFails
  <2>1. exec' \in ExecRow /\ exec'.pc = "reattach" /\ exec'.job = exec.job
    BY <1>7, <1>8, <1>22 DEF DeactivationFails
  <2>2. attached' \in BOOLEAN /\ upstream' \in {0} \cup Revisions /\ failures' \in 0..MaxFailures
    BY <1>1, <1>4, <1>22 DEF DeactivationFails
  <2> QED
    BY <1>1, <1>2, <1>6, <1>22, <2>1, <2>2, PhaseMoves DEF DeactivationFails
<1>23. CASE Reattach
  <2>1. PICK fails \in BOOLEAN :
          /\ Fails(fails)
          /\ IF fails \/ exec.previous = 0
             THEN upstream' = upstream /\ Finish(FALSE, "unknown")
             ELSE upstream' = exec.previous /\ RouteFailed("serving")
    BY <1>23 DEF Reattach
  <2>2. /\ failures' \in 0..MaxFailures /\ upstream' \in {0} \cup Revisions
        /\ managed' = managed /\ attached' \in BOOLEAN /\ ContainersSound' /\ IsRoute(running)
    BY <1>1, <1>2, <1>4, <1>6, <1>23, <2>1 DEF Reattach
  <2> QED
    BY <1>3, <2>1, <2>2, FailureMoves, RouteFailedMoves
<1> QED
  BY <1>9, <1>10, <1>11, <1>12, <1>13, <1>15, <1>16, <1>17, <1>18, <1>19, <1>20, <1>21, <1>22,
     <1>23
  DEF RouteStep

(* An agent at rest does nothing on its host. *)
LEMMA AtWorkOnHost ==
  ASSUME HostStep PROVE exec.pc \notin {"idle", "done"}
<1>1. WorkloadStep => exec.pc \notin {"idle", "done"}
  BY DEF WorkloadStep, WorkloadFails, ReuseWorkload, StartCandidate, CandidateHealthy,
         CandidateUnhealthy, PublishCandidate, WorkloadRuns, StopWorkload, RemoveRevision,
         WorkloadRemoved
<1>2. RouteStep => exec.pc \notin {"idle", "done"}
  BY DEF RouteStep, Connect, Switch, Verify, ActivationFails, Restore, Discard, Detach,
         RetireRevision, RouteActive, ReportFails, ClearRoute, Disconnect, DeactivationFails,
         Reattach
<1> QED
  BY <1>1, <1>2 DEF HostStep

(* A step of the agent on its host. *)
LEMMA HostStepPreserves ==
  ASSUME DeliveryInv, HostStep PROVE DeliveryInv'
<1>1. Elsewhere /\ (WorkloadStep \/ RouteStep)
  BY DEF HostStep, Elsewhere, rows
<1>2. exec.pc \notin {"idle", "done"}
  BY AtWorkOnHost
<1> QED
  BY <1>1, <1>2, PhaseAtWork, WorkloadStepMoves, RouteStepMoves, HostMoveKeeps

-----------------------------------------------------------------------------
(* Together. *)

(* The rows of the environment that operation 1 may have deployed. *)
LEMMA InitDelivers ==
  Init => DeliveryInv
<1> SUFFICES ASSUME Init PROVE DeliveryInv
  OBVIOUS
<1> USE KeyFacts
<1>1. PICK start \in Starts, gateway \in BOOLEAN :
        LET fresh == start = "empty"
            seen == IF fresh \/ ~gateway
                    THEN [state |-> "absent", rev |-> 0, generation |-> 0]
                    ELSE [state |-> "active", rev |-> 1, generation |-> 1]
            steps == IF fresh THEN {} ELSE IF gateway THEN {1, 2} ELSE {1} IN
        /\ managed = gateway
        /\ container = [r \in Revisions |-> IF ~fresh /\ r = 1
                                            THEN [name |-> "base", up |-> TRUE] ELSE Missing]
        /\ upstream = seen.rev
        /\ attached = (seen.rev = 1)
        /\ exec = Resting
        /\ failures = 0
        /\ env = [lock |-> 0, version |-> IF fresh THEN 0 ELSE 1,
                  status |-> IF fresh THEN "empty" ELSE "running"]
        /\ op = [o \in Ops |-> [kind |-> "deploy",
                    status |-> IF ~fresh /\ o = 1 THEN "succeeded" ELSE "absent",
                    finished |-> ~fresh /\ o = 1,
                    version |-> IF ~fresh /\ o = 1 THEN 1 ELSE 0]]
        /\ job = [k \in Keys |-> IF k[1] = 1 /\ k[2] \in steps
                    THEN [status |-> "succeeded", born |-> k[2],
                          generation |-> k[2] - 1, result |-> "running"]
                    ELSE NoJobRow]
        /\ route = [generation |-> seen.generation, desired |-> seen,
                    observed |-> seen, reconcile |-> Nobody]
        /\ queueing = [o \in Ops |-> "idle"]
        /\ projector = [p \in Projectors |-> NoProjection]
        /\ removal = [pc |-> "idle", op |-> 0]
        /\ running = Nobody
        /\ clock = Cardinality(steps)
        /\ faults = [kills |-> 0, stops |-> 0, cancels |-> 0, refusals |-> 0]
        /\ strayed = FALSE
  BY DEF Init
<1> DEFINE fresh == start = "empty"
           seen == IF fresh \/ ~gateway
                   THEN [state |-> "absent", rev |-> 0, generation |-> 0]
                   ELSE [state |-> "active", rev |-> 1, generation |-> 1]
           steps == IF fresh THEN {} ELSE IF gateway THEN {1, 2} ELSE {1}
<1>2. 1 \in Revisions /\ 0 \notin Revisions /\ 1 \in 0..MaxOps /\ Ops = Revisions
  BY DeliveryAssumption DEF Ops
<1>3. /\ seen \in Observation /\ seen.rev \in {0} \cup Revisions /\ seen.generation \in Nat
      /\ ~gateway => seen.rev = 0
  BY <1>2 DEF Observation
<1>4. steps \subseteq Steps /\ (~fresh /\ gateway => steps = Steps) /\ (~fresh => 1 \in steps)
      /\ (fresh => steps = {}) /\ (~gateway => 2 \notin steps)
  BY DEF Steps
<1>5. Cardinality(steps) \in Nat
  <2>1. IsFiniteSet({}) /\ IsFiniteSet({1}) /\ IsFiniteSet({1, 2})
    <3>1. IsFiniteSet({})
      BY FS_EmptySet
    <3>2. IsFiniteSet({} \cup {1})
      BY <3>1, FS_AddElement
    <3>3. IsFiniteSet(({} \cup {1}) \cup {2})
      BY <3>2, FS_AddElement
    <3>4. {} \cup {1} = {1} /\ ({} \cup {1}) \cup {2} = {1, 2}
      OBVIOUS
    <3> QED
      BY <3>1, <3>2, <3>3, <3>4
  <2> QED
    BY <2>1, FS_CardinalityType
<1> HIDE DEF fresh, seen, steps
<1>6. /\ managed = gateway
      /\ container = [r \in Revisions |-> IF ~fresh /\ r = 1
                                          THEN [name |-> "base", up |-> TRUE] ELSE Missing]
      /\ upstream = seen.rev /\ attached = (seen.rev = 1) /\ exec = Resting /\ failures = 0
      /\ env = [lock |-> 0, version |-> IF fresh THEN 0 ELSE 1,
                status |-> IF fresh THEN "empty" ELSE "running"]
      /\ op = [o \in Ops |-> [kind |-> "deploy",
                  status |-> IF ~fresh /\ o = 1 THEN "succeeded" ELSE "absent",
                  finished |-> ~fresh /\ o = 1,
                  version |-> IF ~fresh /\ o = 1 THEN 1 ELSE 0]]
      /\ job = [k \in Keys |-> IF k[1] = 1 /\ k[2] \in steps
                  THEN [status |-> "succeeded", born |-> k[2],
                        generation |-> k[2] - 1, result |-> "running"]
                  ELSE NoJobRow]
      /\ route = [generation |-> seen.generation, desired |-> seen,
                  observed |-> seen, reconcile |-> Nobody]
      /\ queueing = [o \in Ops |-> "idle"]
      /\ projector = [p \in Projectors |-> NoProjection]
      /\ removal = [pc |-> "idle", op |-> 0]
      /\ running = Nobody
      /\ clock = Cardinality(steps)
      /\ faults = [kills |-> 0, stops |-> 0, cancels |-> 0, refusals |-> 0]
      /\ strayed = FALSE
  BY <1>1 DEF fresh, seen, steps
<1>7. exec.pc = "idle" /\ exec \in ExecRow
  BY <1>6, RestingRow
<1>8. ContainersSound
  <2>1. \A r \in Revisions : container[r] = [name |-> "base", up |-> TRUE] \/ container[r] = Missing
    BY <1>6
  <2>2. [name |-> "base", up |-> TRUE] \in Container
    BY DEF Container
  <2> QED
    BY <1>6, <2>1, <2>2, ContainerKinds DEF ContainersSound
<1>9. HostTypeOK
  BY <1>3, <1>6, <1>7, <1>8, WorkloadAssumption DEF HostTypeOK, ExecRow, ContainersSound
<1>10. /\ \A k \in Keys : job[k] \in Job
       /\ \A k \in Keys : job[k].status = IF k[1] = 1 /\ k[2] \in steps THEN "succeeded"
                                          ELSE "absent"
  <2> SUFFICES ASSUME NEW k \in Keys
               PROVE  job[k] \in Job
                      /\ job[k].status = IF k[1] = 1 /\ k[2] \in steps THEN "succeeded"
                                         ELSE "absent"
    OBVIOUS
  <2>1. NoJobRow \in Job /\ NoJobRow.status = "absent"
    BY DEF NoJobRow, Job, JobStatus, Results
  <2>2. k[2] \in Nat /\ k[2] - 1 \in Nat
    OBVIOUS
  <2> DEFINE row == [status |-> "succeeded", born |-> k[2], generation |-> k[2] - 1,
                     result |-> "running"]
  <2>3. row \in Job /\ row.status = "succeeded"
    BY <2>2 DEF Job, JobStatus, Results
  <2>4. job[k] = IF k[1] = 1 /\ k[2] \in steps THEN row ELSE NoJobRow
    BY <1>6
  <2> HIDE DEF row
  <2> QED
    BY <2>1, <2>3, <2>4
<1>11. job \in [Keys -> Job]
  <2> HIDE DEF Job
  <2> QED
    BY <1>6, <1>10
<1>12. /\ \A o \in Ops : op[o] \in OpRow /\ op[o].kind = "deploy"
       /\ \A o \in Ops : op[o].status = (IF ~fresh /\ o = 1 THEN "succeeded" ELSE "absent")
       /\ \A o \in Ops : op[o].finished = (~fresh /\ o = 1)
       /\ \A o \in Ops : op[o].version = (IF ~fresh /\ o = 1 THEN 1 ELSE 0)
       /\ op = [o \in Ops |-> op[o]]
  BY <1>2, <1>6 DEF OpRow
<1>13. op \in [Ops -> OpRow]
  BY <1>12
<1>14. NoProjection \in ProjectorRow /\ NoProjection.pc = "idle"
  BY DEF NoProjection, ProjectorRow, Observation
<1>15. /\ env \in EnvRow /\ env.lock = 0
       /\ route \in RouteRow /\ route.reconcile = Nobody /\ route.observed = route.desired
       /\ route.observed.generation = route.generation
       /\ removal \in RemovalRow /\ removal.pc = "idle"
  BY <1>2, <1>3, <1>6, DeliveryAssumption DEF EnvRow, RouteRow, RemovalRow
<1>16. faults \in FaultRow
  BY <1>6, DeliveryAssumption DEF FaultRow
<1>17. RowTypes
  <2>1. queueing \in [Ops -> QueueSteps] /\ projector \in [Projectors -> ProjectorRow]
    BY <1>6, <1>14 DEF QueueSteps
  <2> QED
    BY <1>5, <1>6, <1>11, <1>12, <1>13, <1>15, <1>16, <2>1 DEF RowTypes
<1>18. NothingBeforeBegin
  <2>1. \A o \in Ops : ~Begun(o) => NoJobs(o)
    <3> SUFFICES ASSUME NEW o \in Ops, ~Begun(o) PROVE NoJobs(o)
      OBVIOUS
    <3>1. fresh \/ o # 1
      BY <1>12 DEF Begun
    <3> QED
      BY <1>4, <1>10, <3>1 DEF NoJobs
  <2> QED
    BY <1>6, <1>12, <1>15, <2>1 DEF NothingBeforeBegin, Begun
<1>19. QueueingSound
  BY <1>4, <1>6, <1>10 DEF QueueingSound
<1>20. ProjectorsSound
  BY <1>6, <1>14 DEF ProjectorsSound
<1>21. SuccessNeedsEveryStep
  <2> SUFFICES ASSUME NEW o \in Ops
               PROVE  /\ job[<<o, 2>>].status \in {"queued", "leased", "succeeded", "failed"} =>
                             job[<<o, 1>>].status = "succeeded"
                      /\ op[o].status = "succeeded" =>
                             \A s \in IF managed THEN Steps ELSE {1} :
                                 job[<<o, s>>].status = "succeeded"
    BY DEF SuccessNeedsEveryStep
  <2>1. \A s \in Steps :
          job[<<o, s>>].status = IF o = 1 /\ s \in steps THEN "succeeded" ELSE "absent"
    BY <1>10
  <2>2. 1 \in Steps /\ 2 \in Steps
    BY DEF Steps
  <2>3. op[o].status = "succeeded" => o = 1 /\ ~fresh
    BY <1>12
  <2> QED
    BY <1>4, <1>6, <2>1, <2>2, <2>3
<1>22. RouteFits(route)
  <2>1. route.observed.generation \in Nat
    BY <1>3, <1>6 DEF Observation
  <2> QED
    BY <1>15, <2>1 DEF RouteFits
<1>23. RunningSound
  BY <1>7 DEF RunningSound
<1>24. HostSound
  BY <1>3, <1>6, <1>7, <1>8 DEF HostSound, ContainersSound
<1>25. Undisturbed
  BY <1>12 DEF Undisturbed, Active
<1> QED
  BY <1>9, <1>17, <1>18, <1>19, <1>20, <1>21, <1>22, <1>23, <1>24, <1>25 DEF DeliveryInv

(* Nothing happens. *)
LEMMA StutterKeeps ==
  ASSUME DeliveryInv, UNCHANGED vars PROVE DeliveryInv'
<1> USE DEF vars, hostVars
<1>1. (HostTypeOK /\ RowTypes)'
  BY DEF DeliveryInv, HostTypeOK, RowTypes
<1>2. (NothingBeforeBegin /\ QueueingSound /\ ProjectorsSound /\ RunningSound)'
  BY DEF DeliveryInv, NothingBeforeBegin, QueueingSound, ProjectorsSound, RunningSound, NoJobs,
         Begun, Teardown
<1>3. SuccessNeedsEveryStep' /\ RouteFits(route)'
  BY DEF DeliveryInv, SuccessNeedsEveryStep, RouteFits, Desired, Begun
<1>4. HostSound'
  <2>1. /\ HostJob(running)' = HostJob(running) /\ Live(exec.job.rev)' = Live(exec.job.rev)
        /\ Reported(exec.ok, exec.result, running)' = Reported(exec.ok, exec.result, running)
    BY DEF HostJob, Live, Reported, IsRoute, Teardown, RouteStepOf, ExpectedResult
  <2>2. Achieved(running)' = Achieved(running)
    BY DEF Achieved, IsRoute, Teardown, RouteStepOf, Serves, Live
  <2> QED
    BY <2>1, <2>2 DEF DeliveryInv, HostSound
<1>5. Undisturbed'
  <2> SUFFICES ASSUME NEW o \in Ops, ~strayed', Active(o)' PROVE HasHost(o)'
    BY DEF Undisturbed
  <2>1. HasHost(o)
    BY DEF DeliveryInv, Undisturbed, Active
  <2>2. /\ LastKey(o)' = LastKey(o) /\ OnHost(o)' = OnHost(o)
        /\ Succeeded(LastKey(o))' = Succeeded(LastKey(o))
    BY DEF LastKey, OnHost, Serves, Live, Teardown, Succeeded, Reported, IsRoute, RouteStepOf,
           ExpectedResult
  <2> QED
    BY <2>1, <2>2 DEF HasHost, Teardown
<1> QED
  BY <1>1, <1>2, <1>3, <1>4, <1>5 DEF DeliveryInv

(* The control plane or the agent. *)
LEMMA NextCases ==
  Next <=> Control \/ Claim \/ HostStep \/ Complete \/ Kill
  BY DEF Next, Control

(* Every step preserves the invariant. *)
LEMMA DeliveryKeeps ==
  DeliveryInv /\ [Next]_vars => DeliveryInv'
  BY NextCases, ControlPreserves, ClaimPreserves, HostStepPreserves, CompletePreserves,
     KillPreserves, StutterKeeps

(* Rows, requests, agent and host agree, however agents are killed, processes stop, members *)
(* cancel and results are repeated: the theorems below are read off this invariant.         *)
THEOREM DeliveryInvariant == Spec => []DeliveryInv
  BY InitDelivers, DeliveryKeeps, PTL DEF Spec

(* Rows, requests and host keep their types. *)
THEOREM TypesHold == Spec => []TypeOK
<1>1. DeliveryInv => TypeOK
  BY DEF DeliveryInv, RowTypes, TypeOK, EnvRow, OpRow, RouteRow, QueueSteps, ProjectorRow,
         RemovalRow, FaultRow
<1> QED
  BY DeliveryInvariant, <1>1, PTL

(* The second job of an operation becomes claimable only after the success of the first, and *)
(* the operation is reported as succeeded only when each of its jobs was.                    *)
THEOREM EveryStepNeeded == Spec => []SuccessNeedsEveryStep
<1>1. DeliveryInv => SuccessNeedsEveryStep
  BY DEF DeliveryInv
<1> QED
  BY DeliveryInvariant, <1>1, PTL

\* An observation is the desired state of a generation that is newer than the observed one.
GoesForward ==
    route'.observed # route.observed =>
        /\ route'.observed.generation > route.observed.generation
        /\ route'.observed.generation = route.generation
        /\ route'.observed = route.desired

\* Actions other than the projection of a route leave what was observed as it was.
LEMMA OnlyProjectRouteObserves ==
  ASSUME DeliveryInv, [Next]_vars
  PROVE  route'.observed = route.observed \/ \E p \in Projectors : ProjectRoute(p)
<1>1. route \in RouteRow
  BY DEF DeliveryInv, RowTypes
<1>2. ASSUME NEW o \in Ops, QueueRoute(o) PROVE route'.observed = route.observed
  <2>1. \E generation, desired, k :
          route' = [route EXCEPT !.generation = generation, !.reconcile = k, !.desired = desired]
    BY <1>2 DEF QueueRoute
  <2> QED
    BY <1>1, <2>1 DEF RouteRow
<1>3. CASE UNCHANGED vars
  BY <1>3 DEF vars
<1>4. CASE Control
  <2>1. CASE \E kind \in Requested : Begin(kind)
    BY <2>1 DEF Begin
  <2>2. ASSUME NEW o \in Ops, Queueing(o) \/ QueueingStops(o) PROVE route'.observed = route.observed
    BY <2>2, <1>2
    DEF Queueing, StoreWorkloadJob, QueueingFails, StoreRouteJob, RouteRefused, PublishQueued,
        FailQueueing, Recover, QueueingStops, rows
  <2>3. ASSUME NEW p \in Projectors, NEW k \in Keys, Project(p, k)
        PROVE  route'.observed = route.observed
    BY <2>3 DEF Project, rows
  <2>4. ASSUME NEW p \in Projectors, StartActivation(p) PROVE route'.observed = route.observed
    BY <2>4, <1>2, KeyFacts DEF StartActivation
  <2>5. ASSUME NEW p \in Projectors, Projection(p) \/ ProjectorStops(p), ~ProjectRoute(p)
        PROVE  route'.observed = route.observed
    BY <2>4, <2>5
    DEF Projection, ProjectRead, FinishOperation, StartTeardown, ActivationStarted,
        ActivationRefused, FailOperation, ProjectorStops, rows
  <2>6. CASE ReadActive \/ Removal
    BY <2>6 DEF ReadActive, Removal, CancelDelivery, CancelPlain, BeginCleanup, rows
  <2> QED
    BY <1>4, <2>1, <2>2, <2>3, <2>5, <2>6 DEF Control
<1>5. CASE Claim \/ HostStep \/ Complete \/ Kill
  BY <1>5 DEF Claim, HostStep, Complete, Kill, rows
<1> QED
  BY <1>3, <1>4, <1>5, NextCases

\* A result about an older generation of the route never becomes its observed state.
THEOREM ObservedForward == Spec => ObservationsGoForward
<1>1. DeliveryInv /\ [Next]_vars => [GoesForward]_vars
  <2> SUFFICES ASSUME DeliveryInv, [Next]_vars PROVE GoesForward
    OBVIOUS
  <2>1. CASE route'.observed = route.observed
    BY <2>1 DEF GoesForward
  <2>2. CASE \E p \in Projectors : ProjectRoute(p)
    <3>1. route.generation \in Nat /\ route.observed.generation \in Nat
      BY DEF DeliveryInv, RowTypes, RouteRow, Observation
    <3> QED
      BY <2>2, <3>1, Observes DEF GoesForward
  <2> QED
    BY <2>1, <2>2, OnlyProjectRouteObserves
<1>2. ObservationsGoForward <=> [][GoesForward]_vars
  BY PTL DEF ObservationsGoForward, GoesForward
<1> QED
  BY DeliveryInvariant, <1>1, <1>2, PTL DEF Spec

\* Of the actions only the one that finds the last step decided reports a success.
LEMMA OnlyFinishSucceeds ==
  ASSUME DeliveryInv, [Next]_vars, NEW o \in Ops,
         op[o].status # "succeeded", op'[o].status = "succeeded"
  PROVE  \E p \in Projectors : FinishOperation(p)
<1>1. op \in [Ops -> OpRow]
  BY DEF DeliveryInv, RowTypes
<1> SUFFICES ASSUME op' # op, \A p \in Projectors : ~FinishOperation(p) PROVE FALSE
  OBVIOUS
<1>2. \A q, kind, version :
        op' # [op EXCEPT ![q] = [kind |-> kind, status |-> "running",
                                 finished |-> FALSE, version |-> version]]
  BY <1>1
<1>3. \A q, finished : \A status \in {"failed", "cancelled"} :
        op' # [op EXCEPT ![q].status = status, ![q].finished = finished]
  BY <1>1 DEF OpRow
<1>4. \A q, finished : \A status \in {"failed", "cancelled"} :
        op' # [op EXCEPT ![q].finished = finished, ![q].status = status]
  BY <1>1 DEF OpRow
<1>5. \A q : op' # [op EXCEPT ![q].status = "cancelled"]
  BY <1>1 DEF OpRow
<1>6. ~Claim /\ ~HostStep /\ ~Complete /\ ~Kill /\ ~UNCHANGED vars
  BY DEF Claim, HostStep, Complete, Kill, rows, vars
<1>7. ASSUME NEW kind \in Requested, Begin(kind) PROVE FALSE
  <2>1. PICK q, version :
          op' = [op EXCEPT ![q] = [kind |-> kind, status |-> "running",
                                   finished |-> FALSE, version |-> version]]
    BY <1>7 DEF Begin
  <2> QED
    BY <1>2, <2>1
<1>8. ~ReadActive /\ ~CancelDelivery /\ ~CancelPlain /\ ~BeginCleanup
  <2>1. ASSUME BeginCleanup PROVE FALSE
    <3>1. PICK q \in Ops :
            op' = [op EXCEPT ![q] = [kind |-> "remove", status |-> "running",
                                     finished |-> FALSE, version |-> op[removal.op].version]]
      BY <2>1 DEF BeginCleanup
    <3> QED
      BY <1>2, <3>1
  <2> QED
    BY <1>3, <1>5, <2>1 DEF ReadActive, CancelDelivery, CancelPlain, rows
<1>9. \A q \in Ops : ~Queueing(q) /\ ~QueueingStops(q)
  <2>1. \A q \in Ops : ~FailQueueing(q)
    BY <1>3 DEF FailQueueing
  <2>2. \A q \in Ops : ~Recover(q)
    BY <1>4 DEF Recover
  <2> QED
    BY <2>1, <2>2
    DEF Queueing, StoreWorkloadJob, QueueingFails, StoreRouteJob, RouteRefused, PublishQueued,
        QueueingStops, rows
<1>10. \A p \in Projectors : ~Projection(p) /\ ~ProjectorStops(p) /\ \A k \in Keys : ~Project(p, k)
  <2>1. \A p \in Projectors : ~FailOperation(p)
    BY <1>3 DEF FailOperation, Close
  <2> QED
    BY <2>1
    DEF Projection, ProjectRoute, ProjectRead, StartTeardown, StartActivation, ActivationStarted,
        ActivationRefused, ProjectorStops, Project, rows
<1> QED
  BY <1>6, <1>7, <1>8, <1>9, <1>10, NextCases DEF Control, Removal

\* What a success says of the host.
TrueOnHost ==
    \A o \in Ops : op[o].status = "running" /\ op'[o].status = "succeeded" /\ ~strayed => OnHost(o)

\* An operation that had the environment to itself is reported as succeeded only when the
\* host is as it says at that moment.
THEOREM SuccessOnHost == Spec => SuccessIsOnHost
<1>1. DeliveryInv /\ [Next]_vars => [TrueOnHost]_vars
  <2> SUFFICES ASSUME DeliveryInv, [Next]_vars, NEW o \in Ops,
                      op[o].status = "running", op'[o].status = "succeeded", ~strayed
               PROVE  OnHost(o)
    BY DEF TrueOnHost
  <2>1. PICK p \in Projectors : FinishOperation(p)
    BY OnlyFinishSucceeds
  <2>2. PICK k \in Keys : LastStep(k) /\ Good(k) /\ op' = Close(k[1], "succeeded")
    BY <2>1 DEF FinishOperation
  <2>3. Active(k[1]) /\ k[1] = o
    <3>1. op \in [Ops -> OpRow]
      BY DEF DeliveryInv, RowTypes
    <3> QED
      BY <2>2, <3>1 DEF Close
  <2>4. HasHost(o)
    BY <2>3 DEF DeliveryInv, Undisturbed
  <2>5. k = LastKey(o)
    BY <2>2, <2>3, KeyFacts DEF LastStep, LastKey
  <2>6. Succeeded(LastKey(o))
    BY <2>2, <2>5 DEF Succeeded, Reported, Good
  <2> QED
    BY <2>4, <2>6 DEF HasHost
<1>2. SuccessIsOnHost <=> [][TrueOnHost]_vars
  BY PTL DEF SuccessIsOnHost, TrueOnHost
<1> QED
  BY DeliveryInvariant, <1>1, <1>2, PTL DEF Spec

-----------------------------------------------------------------------------
(* RunningMeansServed does not hold of the code: after an operation that      *)
(* failed, or that strayed, the environment may be on record as running what   *)
(* does not run.  What follows shows that a success stays true.                *)

Newest(o) == Begun(o) /\ \A p \in Ops : p > o => ~Begun(p)

\* The environment is on record with what operation o was to bring about.
Recorded(o) ==
    /\ env.lock = 0
    /\ CASE op[o].kind \in {"deploy", "start"} -> env.status = "running" /\ env.version = op[o].version
         [] op[o].kind = "stop"                -> env.status = "stopped"
         [] op[o].kind = "remove"              -> env.status = "empty" /\ env.version = 0

\* As long as no operation strayed and none has followed, what was reported as a success
\* is true of the host and on record, and nobody is at work.
NewestSuccessStands ==
    ~strayed => \A o \in Ops :
        Newest(o) /\ op[o].status = "succeeded" => OnHost(o) /\ Recorded(o) /\ exec.pc = "idle"

\* Operations begin in the order of their numbers.
InOrder == \A o, p \in Ops : p < o /\ Begun(o) => Begun(p)

\* A start is about the version that is on record.
StartsCurrent == \A o \in Ops : env.lock = o /\ op[o].kind = "start" => op[o].version = env.version

StandsInv == InOrder /\ StartsCurrent /\ NewestSuccessStands

\* A new operation takes the free environment, after all that have begun before it.
TakesEnvironment(o) ==
    /\ env.lock = 0 /\ ~Begun(o) /\ Begun(o)'
    /\ \A p \in Ops : p < o => Begun(p)
    /\ env' = [env EXCEPT !.lock = o]
    /\ op'[o].kind = "start" => op'[o].version = env.version

\* Only a new operation changes the row of a free environment, and only the end of an
\* operation changes the version of one that is taken.
EnvMoves ==
    \/ env' = env
    \/ env.lock # 0 /\ (env'.lock = 0 \/ (env'.lock = env.lock /\ env'.version = env.version))
    \/ \E o \in Ops : TakesEnvironment(o)

(* The row of the environment moves so in every action of the control plane. *)
LEMMA EnvStep ==
  ASSUME DeliveryInv, Control PROVE EnvMoves
<1>0. env \in EnvRow /\ op \in [Ops -> OpRow] /\ 0 \notin Ops /\ \A k \in Keys : k[1] \in Ops
  BY KeyFacts DEF DeliveryInv, RowTypes
<1>1. ASSUME NEW o \in Ops, NEW status, NEW version, env' = Release(o, status, version) PROVE EnvMoves
  BY <1>0, <1>1 DEF Release, EnvMoves
<1>2. ASSUME NEW o \in Ops, NEW kind \in {"deploy", "start", "stop", "remove"}, NEW version,
             ~Begun(o), \A p \in Ops : p < o => op[p].status # "absent", env.lock = 0,
             op' = [op EXCEPT ![o] = [kind |-> kind, status |-> "running",
                                      finished |-> FALSE, version |-> version]],
             env' = [env EXCEPT !.lock = o],
             kind = "start" => version = env.version
      PROVE  EnvMoves
  <2>1. op'[o].status = "running" /\ op'[o].kind = kind /\ op'[o].version = version
    BY <1>0, <1>2
  <2>2. TakesEnvironment(o)
    BY <1>2, <2>1 DEF TakesEnvironment, Begun
  <2> QED
    BY <2>2 DEF EnvMoves
<1>3. ASSUME NEW kind \in Requested, Begin(kind) PROVE EnvMoves
  <2>1. PICK o \in Ops, version \in Revisions :
          /\ op[o].status = "absent"
          /\ \A p \in Ops : p < o => op[p].status # "absent"
          /\ env.lock = 0
          /\ version \in {env.version} \cup (IF kind = "deploy" THEN {o} ELSE {})
          /\ op' = [op EXCEPT ![o] = [kind |-> kind, status |-> "running",
                                      finished |-> FALSE, version |-> version]]
          /\ env' = [env EXCEPT !.lock = o]
    BY <1>3, Zenon DEF Begin
  <2>2. kind \in {"deploy", "start", "stop", "remove"}
    BY DeliveryAssumption
  <2>3. kind = "start" => version = env.version
    BY <2>1
  <2> QED
    BY <1>2, <2>1, <2>2, <2>3 DEF Begun
<1>4. ASSUME BeginCleanup PROVE EnvMoves
  <2>1. CASE UNCHANGED <<op, env, queueing>>
    BY <2>1 DEF EnvMoves
  <2>2. CASE ~UNCHANGED <<op, env, queueing>>
    <3>1. PICK o \in Ops :
            /\ op[o].status = "absent"
            /\ \A p \in Ops : p < o => op[p].status # "absent"
            /\ env.lock = 0
            /\ op' = [op EXCEPT ![o] = [kind |-> "remove", status |-> "running",
                                        finished |-> FALSE, version |-> op[removal.op].version]]
            /\ env' = [env EXCEPT !.lock = o]
      BY <1>4, <2>2, Zenon DEF BeginCleanup
    <3> QED
      BY <1>2, <3>1 DEF Begun
  <2> QED
    BY <2>1, <2>2
<1>5. ASSUME CancelDelivery PROVE EnvMoves
  BY <1>0, <1>5 DEF CancelDelivery, EnvMoves, EnvRow
<1>6. ASSUME NEW o \in Ops, Queueing(o) \/ QueueingStops(o) PROVE EnvMoves
  <2>1. ASSUME PublishQueued(o) PROVE EnvMoves
    BY <1>0, <2>1 DEF PublishQueued, EnvMoves, EnvRow
  <2>2. ASSUME FailQueueing(o) \/ Recover(o) PROVE EnvMoves
    <3>1. env' = env \/ \E status, version : env' = Release(o, status, version)
      BY <2>2, Zenon DEF FailQueueing, Recover
    <3> QED
      BY <1>1, <3>1 DEF EnvMoves
  <2>3. ASSUME UNCHANGED env PROVE EnvMoves
    BY <2>3 DEF EnvMoves
  <2> QED
    BY <1>6, <2>1, <2>2, <2>3
    DEF Queueing, StoreWorkloadJob, QueueingFails, StoreRouteJob, RouteRefused, QueueingStops, rows
<1>7. ASSUME NEW p \in Projectors, Projection(p) \/ ProjectorStops(p) PROVE EnvMoves
  <2>1. ASSUME FinishOperation(p) PROVE EnvMoves
    <3>1. PICK k \in Keys :
            env' = CASE op[k[1]].kind = "remove" -> Release(k[1], "empty", 0)
                     [] op[k[1]].kind = "stop"   -> Release(k[1], "stopped", env.version)
                     [] op[k[1]].kind = "start"  -> Release(k[1], "running", env.version)
                     [] op[k[1]].kind = "deploy" -> Release(k[1], "running", op[k[1]].version)
      BY <2>1, Zenon DEF FinishOperation
    <3>2. k[1] \in Ops /\ op[k[1]].kind \in {"deploy", "start", "stop", "remove"}
      BY <1>0 DEF OpRow
    <3>3. \E status, version : env' = Release(k[1], status, version)
      BY <3>1, <3>2
    <3> QED
      BY <1>1, <3>2, <3>3
  <2>2. ASSUME FailOperation(p) PROVE EnvMoves
    <3>1. PICK k \in Keys : \E status, version : env' = Release(k[1], status, version)
      BY <2>2, Zenon DEF FailOperation
    <3> QED
      BY <1>0, <1>1, <3>1
  <2>3. ASSUME UNCHANGED env PROVE EnvMoves
    BY <2>3 DEF EnvMoves
  <2> QED
    BY <1>7, <2>1, <2>2, <2>3
    DEF Projection, ProjectRoute, ProjectRead, StartTeardown, StartActivation, ActivationStarted,
        ActivationRefused, ProjectorStops, rows
<1>8. ASSUME \/ \E p \in Projectors, k \in Keys : Project(p, k)
             \/ ReadActive \/ CancelPlain
      PROVE  EnvMoves
  BY <1>8 DEF Project, ReadActive, CancelPlain, EnvMoves, rows
<1> QED
  BY <1>3, <1>4, <1>5, <1>6, <1>7, <1>8 DEF Control, Removal

(* Operations begin in order, and a start keeps the version it was asked for. *)
LEMMA OrderStep ==
  ASSUME DeliveryInv, StandsInv, [Next]_vars PROVE InOrder' /\ StartsCurrent'
<1>0. /\ op \in [Ops -> OpRow] /\ InOrder /\ StartsCurrent /\ 0 \notin Ops
      /\ \A o \in Ops : o \in Nat
  BY KeyFacts DEF DeliveryInv, RowTypes, StandsInv, Ops
<1>1. CASE Control
  <2>1. OpsMove /\ EnvMoves
    BY <1>1, ControlMoves, EnvStep DEF ControlStep
  <2>2. \A o \in Ops : Begun(o) => Begun(o)' /\ op'[o].kind = op[o].kind /\ op'[o].version = op[o].version
    BY <2>1 DEF OpsMove, OpMoves, Begun
  <2>3. ASSUME NEW o \in Ops, ~Begun(o), Begun(o)'
        PROVE  TakesEnvironment(o)
    <3>1. env.lock = 0 /\ env'.lock = o
      BY <2>1, <2>3 DEF OpsMove, OpMoves, Begins, Begun
    <3>2. PICK q \in Ops : TakesEnvironment(q)
      BY <1>0, <2>1, <3>1 DEF EnvMoves
    <3>3. env \in EnvRow
      BY DEF DeliveryInv, RowTypes
    <3>4. q = o
      BY <3>1, <3>2, <3>3 DEF TakesEnvironment, EnvRow
    <3> QED
      BY <3>2, <3>4
  <2>4. InOrder'
    <3> SUFFICES ASSUME NEW o \in Ops, NEW p \in Ops, p < o, Begun(o)' PROVE Begun(p)'
      BY DEF InOrder
    <3>1. Begun(p)
      BY <1>0, <2>3 DEF InOrder, TakesEnvironment
    <3> QED
      BY <2>2, <3>1
  <2>5. StartsCurrent'
    <3> SUFFICES ASSUME NEW o \in Ops, env'.lock = o, op'[o].kind = "start"
                 PROVE  op'[o].version = env'.version
      BY DEF StartsCurrent
    <3>1. env \in EnvRow /\ (env.lock # 0 => Begun(env.lock))
      BY DEF DeliveryInv, RowTypes, NothingBeforeBegin
    <3>2. CASE env.lock = o /\ env'.version = env.version
      BY <1>0, <2>2, <3>1, <3>2 DEF StartsCurrent
    <3>3. ASSUME NEW q \in Ops, TakesEnvironment(q) PROVE op'[o].version = env'.version
      BY <3>1, <3>3 DEF TakesEnvironment, EnvRow
    <3> QED
      BY <1>0, <2>1, <3>2, <3>3 DEF EnvMoves
  <2> QED
    BY <2>4, <2>5
<1>2. CASE Claim \/ HostStep \/ Complete \/ Kill \/ UNCHANGED vars
  <2>1. UNCHANGED <<env, op>>
    BY <1>2 DEF Claim, HostStep, Complete, Kill, vars, rows
  <2> QED
    BY <1>0, <2>1 DEF InOrder, StartsCurrent, Begun
<1> QED
  BY <1>1, <1>2, NextCases

(* With the success of an operation the environment is on record with it, and the agent is at rest. *)
LEMMA SuccessStands ==
  ASSUME DeliveryInv, StandsInv, [Next]_vars, ~strayed', NEW o \in Ops,
         op[o].status # "succeeded", op'[o].status = "succeeded"
  PROVE  OnHost(o)' /\ Recorded(o)' /\ exec'.pc = "idle"
<1> USE KeyFacts
<1>1. PICK p \in Projectors : FinishOperation(p)
  BY OnlyFinishSucceeds
<1>2. PICK k \in Keys :
        /\ LastStep(k) /\ Good(k)
        /\ env' = CASE op[k[1]].kind = "remove" -> Release(k[1], "empty", 0)
                    [] op[k[1]].kind = "stop"   -> Release(k[1], "stopped", env.version)
                    [] op[k[1]].kind = "start"  -> Release(k[1], "running", env.version)
                    [] op[k[1]].kind = "deploy" -> Release(k[1], "running", op[k[1]].version)
        /\ op' = Close(k[1], "succeeded")
        /\ UNCHANGED <<hostVars, strayed>>
  BY <1>1, Zenon DEF FinishOperation
<1>3. op \in [Ops -> OpRow] /\ env \in EnvRow /\ RunningSound /\ SuccessNeedsEveryStep /\ QueueingSound
  BY DEF DeliveryInv, RowTypes
<1>4. Active(k[1]) /\ k[1] = o
  BY <1>2, <1>3 DEF Close
<1>5. HasHost(o) /\ k = LastKey(o) /\ Succeeded(LastKey(o))
  <2>1. HasHost(o)
    BY <1>2, <1>4 DEF DeliveryInv, Undisturbed
  <2>2. k = LastKey(o)
    BY <1>2, <1>4 DEF LastStep, LastKey
  <2> QED
    BY <1>2, <2>1, <2>2 DEF Succeeded, Reported, Good
<1>6. /\ op'[o].kind = op[o].kind /\ op'[o].version = op[o].version
      /\ op[o].kind \in {"deploy", "start", "stop", "remove"}
  BY <1>2, <1>3, <1>4 DEF Close, OpRow
<1>7. OnHost(o)'
  <2>1. OnHost(o)
    BY <1>5 DEF HasHost
  <2> QED
    BY <1>2, <1>6, <2>1 DEF OnHost, Serves, Live, hostVars
<1>8. env.lock = o
  BY <1>5 DEF HasHost
<1>9. Recorded(o)'
  <2>1. op[o].kind = "start" => op[o].version = env.version
    BY <1>8 DEF StandsInv, StartsCurrent
  <2> QED
    BY <1>2, <1>4, <1>6, <1>8, <2>1 DEF Recorded, Release
<1>10. exec.pc = "idle"
  <2> SUFFICES ASSUME exec.pc # "idle" PROVE FALSE
    OBVIOUS
  <2>1. running \in Keys /\ job[running].status \in {"leased", "cancelled"}
    BY <1>3 DEF RunningSound
  <2>2. running[1] = o
    BY <1>5 DEF HasHost, LastKey, Succeeded, Steps
  <2>3. \A s \in IF managed THEN Steps ELSE {1} : job[<<o, s>>].status = "succeeded"
    BY <1>2, <1>4, AllSteps DEF Good
  <2>4. ~managed => job[<<o, 2>>].status = "absent"
    BY <1>3 DEF QueueingSound
  <2> QED
    BY <2>1, <2>2, <2>3, <2>4 DEF Steps
<1> QED
  BY <1>2, <1>7, <1>9, <1>10 DEF hostVars

(* Nobody is at work, so that only a new operation, or one that strays, changes anything. *)
LEMMA StandsStep ==
  ASSUME DeliveryInv, StandsInv, [Next]_vars PROVE NewestSuccessStands'
<1> SUFFICES ASSUME ~strayed', NEW o \in Ops, Newest(o)', op'[o].status = "succeeded",
                    op[o].status = "succeeded"
             PROVE  OnHost(o)' /\ Recorded(o)' /\ exec'.pc = "idle"
  BY SuccessStands DEF NewestSuccessStands
<1>0. /\ op \in [Ops -> OpRow] /\ env \in EnvRow /\ InOrder /\ 0 \notin Ops
      /\ \A p \in Ops : p \in Nat
      /\ Begun(o)
  BY KeyFacts DEF DeliveryInv, RowTypes, StandsInv, Ops, Begun
<1>1. CASE Control
  <2>1. OpsMove /\ EnvMoves /\ UNCHANGED hostVars /\ ~strayed
    BY <1>1, ControlMoves, EnvStep DEF ControlStep
  <2>2. \A p \in Ops : Begun(p) => Begun(p)' /\ op'[p].kind = op[p].kind /\ op'[p].version = op[p].version
    BY <2>1 DEF OpsMove, OpMoves, Begun
  <2>3. OnHost(o) /\ Recorded(o) /\ exec.pc = "idle"
    BY <1>0, <2>1, <2>2 DEF StandsInv, NewestSuccessStands, Newest
  <2>4. env' = env
    <3>1. ASSUME NEW q \in Ops, TakesEnvironment(q) PROVE FALSE
      BY <1>0, <3>1 DEF TakesEnvironment, Newest, InOrder
    <3> QED
      BY <2>1, <2>3, <3>1 DEF EnvMoves, Recorded
  <2>5. OnHost(o)'
    BY <1>0, <2>1, <2>2, <2>3 DEF OnHost, Serves, Live, hostVars
  <2>6. Recorded(o)'
    BY <1>0, <2>2, <2>3, <2>4 DEF Recorded
  <2> QED
    BY <2>1, <2>3, <2>5, <2>6 DEF hostVars
<1>2. CASE Claim \/ HostStep \/ Complete \/ Kill \/ UNCHANGED vars
  <2>1. UNCHANGED <<env, op>> /\ ~strayed
    <3>1. UNCHANGED <<env, op>>
      BY <1>2 DEF Claim, HostStep, Complete, Kill, vars, rows
    <3>2. Claim \/ strayed' = strayed
      BY <1>2 DEF HostStep, Complete, Kill, vars
    <3>3. Claim => (strayed => strayed')
      BY Zenon DEF Claim
    <3> QED
      BY <3>1, <3>2, <3>3
  <2>2. OnHost(o) /\ Recorded(o) /\ exec.pc = "idle"
    BY <1>0, <2>1 DEF StandsInv, NewestSuccessStands, Newest, Begun
  <2>3. ~Claim
    BY <1>0, <2>2, KeyFacts DEF Claim, Recorded
  <2>4. ~Complete /\ ~Kill
    BY <2>2 DEF Complete, Kill, Killed
  <2>5. ~HostStep
    BY <2>2, AtWorkOnHost
  <2>6. UNCHANGED vars
    BY <1>2, <2>3, <2>4, <2>5
  <2> QED
    BY <2>1, <2>2, <2>6 DEF vars, hostVars, OnHost, Serves, Live, Recorded
<1> QED
  BY <1>1, <1>2, NextCases

(* A success that nothing has followed stays true of the host and on record: the       *)
(* statement that holds in place of RunningMeansServed, which lets an operation that    *)
(* failed, or that did not have the environment to itself, precede.                     *)
THEOREM NewestSuccess == Spec => []NewestSuccessStands
<1>1. Init => StandsInv
  <2> SUFFICES ASSUME Init PROVE StandsInv
    OBVIOUS
  <2>1. PICK start \in Starts, gateway \in BOOLEAN :
        LET fresh == start = "empty"
            seen == IF fresh \/ ~gateway
                    THEN [state |-> "absent", rev |-> 0, generation |-> 0]
                    ELSE [state |-> "active", rev |-> 1, generation |-> 1] IN
        /\ managed = gateway
        /\ container = [r \in Revisions |-> IF ~fresh /\ r = 1
                                            THEN [name |-> "base", up |-> TRUE] ELSE Missing]
        /\ upstream = seen.rev
        /\ attached = (seen.rev = 1)
        /\ exec = Resting
        /\ env = [lock |-> 0, version |-> IF fresh THEN 0 ELSE 1,
                  status |-> IF fresh THEN "empty" ELSE "running"]
        /\ op = [o \in Ops |-> [kind |-> "deploy",
                    status |-> IF ~fresh /\ o = 1 THEN "succeeded" ELSE "absent",
                    finished |-> ~fresh /\ o = 1,
                    version |-> IF ~fresh /\ o = 1 THEN 1 ELSE 0]]
    BY Zenon DEF Init
  <2>2. /\ env.lock = 0 /\ exec.pc = "idle" /\ 1 \in Revisions /\ 0 \notin Ops
        /\ \A o \in Ops : o \in Nat /\ o >= 1
        /\ \A o \in Ops : op[o].kind = "deploy" /\ (Begun(o) => o = 1 /\ start # "empty" /\ op[o].version = 1)
    BY <2>1, RestingRow, DeliveryAssumption DEF Begun, Ops
  <2>3. InOrder /\ StartsCurrent
    BY <2>2 DEF InOrder, StartsCurrent
  <2>4. ASSUME NEW o \in Ops, Begun(o) PROVE OnHost(o) /\ Recorded(o)
    <3>1. o = 1 /\ start # "empty" /\ op[o].version = 1 /\ op[o].kind = "deploy"
      BY <2>2, <2>4
    <3>2. Serves(1)
      BY <2>1, <2>2, <3>1 DEF Serves, Live
    <3> QED
      BY <2>1, <3>1, <3>2 DEF OnHost, Recorded
  <2> QED
    BY <2>2, <2>3, <2>4 DEF StandsInv, NewestSuccessStands, Newest
<1>2. DeliveryInv /\ StandsInv /\ [Next]_vars => StandsInv'
  BY OrderStep, StandsStep DEF StandsInv
<1>3. StandsInv => NewestSuccessStands
  BY DEF StandsInv
<1> QED
  BY <1>1, <1>2, <1>3, DeliveryInvariant, PTL DEF Spec

(* In particular the revision that is on record as running answers requests, as long as *)
(* the newest operation is one that succeeded.                                          *)
THEOREM ServedAfterSuccess ==
  Spec => [](~strayed /\ (\E o \in Ops : Newest(o) /\ op[o].status = "succeeded") => RunningMeansServed)
<1>1. ASSUME DeliveryInv, NewestSuccessStands, ~strayed, NEW o \in Ops, Newest(o), op[o].status = "succeeded",
             env.status = "running"
      PROVE  env.version # 0 /\ Serves(env.version)
  <2>1. OnHost(o) /\ Recorded(o)
    BY <1>1 DEF NewestSuccessStands
  <2>2. op[o].version # 0 /\ op[o].kind \in {"deploy", "start", "stop", "remove"}
    BY <1>1 DEF DeliveryInv, RowTypes, OpRow, NothingBeforeBegin, Newest
  <2> QED
    BY <1>1, <2>1, <2>2 DEF OnHost, Recorded
<1>2. DeliveryInv /\ NewestSuccessStands =>
        (~strayed /\ (\E o \in Ops : Newest(o) /\ op[o].status = "succeeded") => RunningMeansServed)
  BY <1>1 DEF RunningMeansServed
<1> QED
  BY <1>2, DeliveryInvariant, NewestSuccess, PTL

-----------------------------------------------------------------------------
(* AgentLease shows how leases are granted and lost, and implements JobContract. *)
(* Here a claim and a result are one step each.  That this is the same contract  *)
(* is shown with a history variable, in a layer of its own: `claims` counts how  *)
(* often each job was claimed, and stands for the fence.                         *)

VARIABLE claims

CountClaims == claims' = [k \in Keys |-> IF running' = k /\ running # k THEN claims[k] + 1 ELSE claims[k]]

CountedSpec ==
    /\ Init
    /\ claims = [k \in Keys |-> 0]
    /\ [][Next /\ CountClaims]_<<vars, claims>>

StageOf(status) ==
    CASE status \in Decided -> "decided"
      [] status = "cancelled" -> "withdrawn"
      [] status \notin Decided \cup {"cancelled"} -> "open"

JobStages == [k \in Keys |-> StageOf(job[k].status)]
Verdicts == [k \in Keys |-> IF job[k].status \in Decided THEN job[k].status ELSE "none"]

Contract == INSTANCE JobContract WITH
    Jobs     <- Keys,
    Outcomes <- Decided,
    stage    <- JobStages,
    fence    <- claims,
    verdict  <- Verdicts,
    told     <- {}

\* A job that is leased was claimed.
ClaimsSound ==
    /\ claims \in [Keys -> Nat]
    /\ \A k \in Keys : job[k].status = "leased" => claims[k] # 0

(* Only a claim is counted. *)
LEMMA ClaimsCounted ==
  ASSUME DeliveryInv, ClaimsSound, [Next /\ CountClaims]_<<vars, claims>>
  PROVE  claims' = claims \/ Claim
<1>1. CASE UNCHANGED <<vars, claims>>
  BY <1>1
<1>2. CASE Next /\ CountClaims /\ ~Claim
  <2>1. running' \in {running, Nobody}
    <3>1. CASE Control
      BY <3>1, ControlMoves DEF ControlStep
    <3>2. CASE HostStep \/ Complete \/ Kill
      BY <3>2 DEF HostStep, Complete, Kill
    <3> QED
      BY <1>2, <3>1, <3>2, NextCases
  <2>2. claims' = [k \in Keys |-> claims[k]]
    BY <1>2, <2>1, KeyFacts DEF CountClaims
  <2> QED
    BY <2>2 DEF ClaimsSound
<1> QED
  BY <1>1, <1>2

(* The control plane opens and withdraws jobs. *)
LEMMA ControlWithdraws ==
  ASSUME DeliveryInv, Control, claims' = claims
  PROVE  [Contract!CNext]_(Contract!cvars)
<1> DEFINE S == {k \in Keys : job[k].status # "cancelled" /\ job'[k].status = "cancelled"}
<1>1. JobsMove
  BY ControlMoves DEF ControlStep
<1>2. \A k \in Keys : StageOf(job'[k].status) = IF k \in S THEN "withdrawn" ELSE StageOf(job[k].status)
  BY <1>1 DEF JobsMove, JobMoves, StageOf, Decided
<1>3. \A k \in S : StageOf(job[k].status) = "open"
  BY <1>1 DEF JobsMove, JobMoves, StageOf, Decided
<1>4. \A k \in Keys : (IF job'[k].status \in Decided THEN job'[k].status ELSE "none")
                      = IF job[k].status \in Decided THEN job[k].status ELSE "none"
  BY <1>1 DEF JobsMove, JobMoves, Decided
<1>5. S \in SUBSET Keys
  OBVIOUS
<1> HIDE DEF S
<1>6. CASE S = {}
  BY <1>2, <1>4, <1>6 DEF Contract!cvars, JobStages, Verdicts
<1>7. CASE S # {}
  <2>1. Contract!Withdraw(S)
    BY <1>2, <1>3, <1>4, <1>5, <1>7 DEF Contract!Withdraw, JobStages, Verdicts
  <2> QED
    BY <1>5, <2>1 DEF Contract!CNext
<1> QED
  BY <1>6, <1>7

(* The agent gets a job, and decides the one that it holds. *)
LEMMA AgentDecides ==
  ASSUME DeliveryInv, ClaimsSound, Claim \/ Complete, CountClaims, claims' = claims \/ Claim
  PROVE  [Contract!CNext]_(Contract!cvars)
<1>0. job \in [Keys -> Job] /\ claims \in [Keys -> Nat]
  BY DEF DeliveryInv, RowTypes, ClaimsSound
<1>1. ASSUME Claim PROVE [Contract!CNext]_(Contract!cvars)
  <2>1. PICK k \in Keys :
          /\ job[k].status \in {"queued", "leased"}
          /\ job' = [job EXCEPT ![k].status = "leased"]
          /\ running = Nobody /\ running' = k
    BY <1>1, Zenon DEF Claim
  <2>2. \A x \in Keys : StageOf(job'[x].status) = StageOf(job[x].status)
    BY <1>0, <2>1 DEF StageOf, Decided, Job
  <2>3. \A x \in Keys : job'[x].status \in Decided \/ job[x].status \in Decided => job'[x] = job[x]
    BY <1>0, <2>1 DEF Decided, Job
  <2>4. claims' = [claims EXCEPT ![k] = claims[k] + 1]
    BY <1>0, <2>1, KeyFacts DEF CountClaims
  <2>5. StageOf(job[k].status) = "open"
    BY <2>1 DEF StageOf, Decided
  <2>6. UNCHANGED JobStages /\ UNCHANGED Verdicts
    BY <2>2, <2>3 DEF JobStages, Verdicts
  <2>7. JobStages[k] = "open"
    BY <2>1, <2>5 DEF JobStages
  <2>8. Contract!Grant(k)
    BY <2>4, <2>6, <2>7 DEF Contract!Grant
  <2> QED
    BY <2>1, <2>8 DEF Contract!CNext
<1>2. ASSUME Complete, claims' = claims PROVE [Contract!CNext]_(Contract!cvars)
  <2>1. PICK k \in Keys : k = running /\ job[k].status \in {"leased", "cancelled"}
    BY <1>2 DEF Complete, DeliveryInv, RunningSound
  <2>2. PICK outcome \in Decided :
          job' = IF job[k].status # "leased" THEN job
                 ELSE [job EXCEPT ![k].status = outcome, ![k].result = exec.result]
    BY <1>2, <2>1 DEF Complete, Decided
  <2>4. CASE job[k].status = "leased"
    <3>1. job' = [job EXCEPT ![k].status = outcome, ![k].result = exec.result]
      BY <2>2, <2>4
    <3>2. job'[k].status = outcome /\ \A x \in Keys : x # k => job'[x] = job[x]
      BY <1>0, <2>1, <3>1 DEF Job
    <3>3. StageOf(outcome) = "decided" /\ StageOf(job[k].status) = "open"
      BY <2>4 DEF StageOf, Decided
    <3>4. claims[k] # 0
      BY <2>1, <2>4 DEF ClaimsSound
    <3>5. JobStages' = [JobStages EXCEPT ![k] = "decided"] /\ JobStages[k] = "open"
      BY <2>1, <3>2, <3>3 DEF JobStages
    <3>6. Verdicts' = [Verdicts EXCEPT ![k] = outcome]
      BY <2>1, <3>2 DEF Verdicts
    <3>7. Contract!Decide(k, outcome)
      BY <1>2, <3>4, <3>5, <3>6 DEF Contract!Decide
    <3> QED
      BY <3>7 DEF Contract!CNext
  <2>5. CASE job[k].status # "leased"
    BY <1>2, <2>2, <2>5 DEF Contract!cvars, JobStages, Verdicts
  <2> QED
    BY <2>4, <2>5
<1> QED
  BY <1>1, <1>2

(* Every step is a step of the contract, or changes nothing that it sees. *)
LEMMA KeepsToContract ==
  ASSUME DeliveryInv, ClaimsSound, [Next /\ CountClaims]_<<vars, claims>>
  PROVE  [Contract!CNext]_(Contract!cvars) /\ ClaimsSound'
<1>1. claims' = claims \/ Claim
  BY ClaimsCounted
<1>2. CASE Next /\ CountClaims
  <2>1. [Contract!CNext]_(Contract!cvars)
    <3>1. CASE (HostStep \/ Kill) /\ ~Claim
      <4>1. UNCHANGED <<job, claims>>
        BY <1>1, <3>1 DEF HostStep, Kill, rows
      <4> QED
        BY <4>1 DEF Contract!cvars, JobStages, Verdicts
    <3>2. CASE Control /\ ~Claim
      BY <1>1, <3>2, ControlWithdraws
    <3> QED
      BY <1>1, <1>2, <3>1, <3>2, AgentDecides, NextCases
  <2>2. claims' \in [Keys -> Nat] /\ \A k \in Keys : claims[k] # 0 => claims'[k] # 0
    BY <1>2 DEF CountClaims, ClaimsSound
  <2>3. ASSUME NEW k \in Keys, job'[k].status = "leased" PROVE claims'[k] # 0
    <3>1. CASE job[k].status = "leased"
      BY <2>2, <3>1 DEF ClaimsSound
    <3>2. CASE Control /\ job[k].status # "leased"
      BY <2>3, <3>2, ControlMoves DEF ControlStep, JobsMove, JobMoves
    <3>3. CASE HostStep \/ Kill
      BY <2>2, <2>3, <3>3 DEF HostStep, Kill, rows, ClaimsSound
    <3>4. ASSUME Complete, job[k].status # "leased" PROVE FALSE
      <4>1. running \in Keys /\ job \in [Keys -> Job]
        BY <3>4 DEF Complete, DeliveryInv, RunningSound, RowTypes
      <4>2. k # running => job'[k] = job[k]
        BY <3>4, <4>1 DEF Complete
      <4>3. k = running => job'[k] = job[k]
        BY <3>4 DEF Complete
      <4> QED
        BY <2>3, <3>4, <4>2, <4>3
    <3>5. ASSUME Claim, job[k].status # "leased" PROVE claims'[k] # 0
      <4>1. PICK x \in Keys :
              /\ job' = [job EXCEPT ![x].status = "leased"]
              /\ running = Nobody /\ running' = x
        BY <3>5, Zenon DEF Claim
      <4>2. k = x
        BY <2>3, <3>5, <4>1
      <4>3. claims'[k] = claims[k] + 1
        BY <1>2, <4>1, <4>2, KeyFacts DEF CountClaims
      <4> QED
        BY <4>3 DEF ClaimsSound
    <3> QED
      BY <1>2, <3>1, <3>2, <3>3, <3>4, <3>5, NextCases
  <2> QED
    BY <2>1, <2>2, <2>3 DEF ClaimsSound
<1>3. CASE UNCHANGED <<vars, claims>>
  <2>1. UNCHANGED <<job, claims>>
    BY <1>3 DEF vars
  <2> QED
    BY <2>1 DEF Contract!cvars, JobStages, Verdicts, ClaimsSound
<1> QED
  BY <1>2, <1>3

(* The jobs of operations are claimed, decided and cancelled as JobContract allows: by the *)
(* one agent that holds them, and once, whatever is projected or cancelled meanwhile.  It   *)
(* is the contract that AgentLease implements with leases, fences and repeated calls.       *)
THEOREM DeliveryKeepsContract ==
  /\ CountedSpec => [][Contract!Change]_(Contract!cvars)
  /\ CountedSpec /\ env.status = "empty" => Contract!CSpec
<1>1. Init /\ claims = [k \in Keys |-> 0] => DeliveryInv /\ ClaimsSound
  <2>1. Init => \A k \in Keys : job[k].status # "leased"
    <3> SUFFICES ASSUME Init, NEW k \in Keys PROVE job[k].status # "leased"
      OBVIOUS
    <3>1. PICK start \in Starts, gateway \in BOOLEAN :
            LET fresh == start = "empty"
                steps == IF fresh THEN {} ELSE IF gateway THEN {1, 2} ELSE {1} IN
            job = [x \in Keys |-> IF x[1] = 1 /\ x[2] \in steps
                    THEN [status |-> "succeeded", born |-> x[2],
                          generation |-> x[2] - 1, result |-> "running"]
                    ELSE NoJobRow]
      BY Zenon DEF Init
    <3> QED
      BY <3>1 DEF NoJobRow
  <2> QED
    BY <2>1, InitDelivers DEF ClaimsSound
<1>2. DeliveryInv /\ [Next /\ CountClaims]_<<vars, claims>> => DeliveryInv'
  BY DeliveryKeeps
<1>3. CountedSpec => [](DeliveryInv /\ ClaimsSound)
  BY <1>1, <1>2, KeepsToContract, PTL DEF CountedSpec
<1>4. Init /\ claims = [k \in Keys |-> 0] /\ env.status = "empty" => Contract!CInit
  BY DEF Init, NoJobRow, Contract!CInit, Contract!Undecided, JobStages, Verdicts, StageOf, Decided
<1>5. [Contract!CNext]_(Contract!cvars) => [Contract!Change]_(Contract!cvars)
  BY DEF Contract!Change, Contract!cvars
<1>6. CountedSpec => [][Contract!Change]_(Contract!cvars)
  BY <1>3, <1>5, KeepsToContract, PTL DEF CountedSpec
<1> QED
  BY <1>4, <1>6, PTL DEF CountedSpec, Contract!CSpec

=============================================================================
