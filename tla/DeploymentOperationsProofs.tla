---------------------- MODULE DeploymentOperationsProofs ----------------------
(***************************************************************************)
(* Proofs about DeploymentOperations, for every number of operations,      *)
(* processes and takeovers.  The inductive invariant OpsInv says how the   *)
(* rows, the lock and the background tasks of the processes hang together: *)
(* operations are numbered as they begin, a task that works for one knows  *)
(* a generation that the row has had, and who published is not newer than  *)
(* the holder of the lock.                                                 *)
(***************************************************************************)
EXTENDS DeploymentOperations, TLAPS

\* A handler that has read an operation names one that has begun.
HandlersSound ==
    /\ recovery.pc # "idle" => recovery.op \in Ops
    /\ removal.pc # "idle" => removal.op \in Ops /\ op[removal.op].status # "absent"
    /\ failure.pc # "idle" => failure.op \in Ops /\ op[failure.op].status # "absent"

\* A live lease has an owner, and operations are numbered in the order they begin.
RowsSound ==
    /\ \A o \in Ops : op[o].owner = NoReplica => op[o].lease # "live"
    /\ \A o, p \in Ops : p < o /\ op[o].status # "absent" => op[p].status # "absent"
    /\ lock # 0 => op[lock].status # "absent"

\* A task that works for an operation has claimed it: it knows a generation of the
\* row, and an older one than the row has if another process owns it.
TaskSound(r, o) ==
    /\ task[r][o].pc # "idle" => op[o].status # "absent"
    /\ task[r][o].pc \in Working =>
         /\ task[r][o].generation =< op[o].generation
         /\ op[o].owner \notin {NoReplica, Process(r)} => task[r][o].generation < op[o].generation

TasksSound == \A r \in Runners, o \in Ops : TaskSound(r, o)

\* Two tasks that work for an operation with one generation are of one process.
FencesSound ==
    \A r, s \in Runners, o \in Ops :
        /\ task[r][o].pc \in Working
        /\ task[s][o].pc \in Working
        /\ task[r][o].generation = task[s][o].generation
        => Process(r) = Process(s)

\* What was published is not newer than the operation that holds the lock.
PublishedSound ==
    \A p \in published : op[p].status # "absent" /\ (lock # 0 => p =< lock)

\* A worker about to report success has published, unless it is a start.
ReportsSound ==
    \A r \in Runners, o \in Ops :
        /\ task[r][o].pc = "completing"
        /\ task[r][o].result = "succeeded"
        /\ op[o].kind # "start"
        => o \in published

OpsInv ==
    /\ TypeOK
    /\ HandlersSound
    /\ RowsSound
    /\ TasksSound
    /\ FencesSound
    /\ PublishedSound
    /\ ReportsSound
    /\ SuccessWasPublished

-----------------------------------------------------------------------------
(* A task runs in a process. *)
LEMMA ProcessFacts == \A r \in Runners : Process(r) \in Replicas
  BY DEF Runners, Process

(* Nothing has begun. *)
LEMMA OpsInitSound == Init => OpsInv
<1> SUFFICES ASSUME Init PROVE OpsInv
  OBVIOUS
<1>1. NoOp \in Operation
  BY Zenon DEF NoOp, Operation, Kinds
<1>2. Idle \in Task /\ NoSweep \in Sweep
  BY DEF Idle, Task, Waiting, Results, NoSweep, Sweep
<1>3. NoRequest \in Request
  BY OperationsAssumption DEF NoRequest, Request
<1>4. TypeOK
  <2>1. local \in [Replicas -> SUBSET Ops]
    BY DEF Init
  <2>2. task \in [Runners -> [Ops -> Task]] /\ op \in [Ops -> Operation]
    BY <1>1, <1>2 DEF Init
  <2>3. \A o \in Ops : ~op[o].finished
    BY DEF Init, NoOp
  <2> QED
    BY <1>2, <1>3, <2>1, <2>2, <2>3, OperationsAssumption DEF Init, TypeOK
<1>5. HandlersSound /\ RowsSound /\ PublishedSound /\ SuccessWasPublished
  BY DEF Init, HandlersSound, RowsSound, PublishedSound, SuccessWasPublished, NoOp, NoSweep, NoRequest
<1>6. TasksSound /\ FencesSound /\ ReportsSound
  BY DEF Init, TasksSound, TaskSound, FencesSound, ReportsSound, Idle, Working
<1> QED
  BY <1>4, <1>5, <1>6 DEF OpsInv

(* A row stays a row under the updates of the code. *)
LEMMA RowUpdates ==
  ASSUME NEW row \in Operation
  PROVE  /\ \A s \in Results :
              /\ [row EXCEPT !.status = s, !.finished = TRUE] \in Operation
              /\ [row EXCEPT !.status = s, !.finished = TRUE, !.owner = NoReplica,
                             !.lease = "none"] \in Operation
              /\ [row EXCEPT !.status = s] \in Operation
         /\ [row EXCEPT !.lease = "lapsed"] \in Operation
         /\ [row EXCEPT !.owner = NoReplica, !.lease = "none"] \in Operation
         /\ \A w \in Replicas, n \in Nat :
              [row EXCEPT !.owner = w, !.generation = n, !.lease = "live"] \in Operation
  BY Zenon DEF Operation

(* And so do the rows of all operations. *)
LEMMA RowsUpdates ==
  ASSUME op \in [Ops -> Operation], NEW o \in Ops
  PROVE  /\ \A s \in Results :
              /\ [op EXCEPT ![o].status = s, ![o].finished = TRUE] \in [Ops -> Operation]
              /\ Finished(o, s) \in [Ops -> Operation]
              /\ [op EXCEPT ![o].status = s] \in [Ops -> Operation]
         /\ [op EXCEPT ![o].lease = "lapsed"] \in [Ops -> Operation]
         /\ [op EXCEPT ![o].owner = NoReplica, ![o].lease = "none"] \in [Ops -> Operation]
         /\ \A w \in Replicas, n \in Nat :
              [op EXCEPT ![o].owner = w, ![o].generation = n, ![o].lease = "live"] \in [Ops -> Operation]
<1>1. op[o] \in Operation
  OBVIOUS
<1>2. ASSUME NEW row \in Operation PROVE [op EXCEPT ![o] = row] \in [Ops -> Operation]
  OBVIOUS
<1> QED
  BY <1>1, <1>2, RowUpdates, Zenon DEF Finished

(* A new operation. *)
LEMMA NewRow ==
  ASSUME op \in [Ops -> Operation], NEW o \in Ops, NEW kind \in Requested
  PROVE  [op EXCEPT ![o] = [NoOp EXCEPT !.status = "running", !.kind = kind]] \in [Ops -> Operation]
<1>1. kind \in Kinds
  BY OperationsAssumption DEF Kinds
<1>2. [NoOp EXCEPT !.status = "running", !.kind = kind] \in Operation
  BY <1>1, Zenon DEF NoOp, Operation
<1> QED
  BY <1>2

-----------------------------------------------------------------------------
(* Every step keeps the rows well typed. *)
LEMMA RowTypes ==
  ASSUME OpsInv, Next
  PROVE  op' \in [Ops -> Operation]
<1>0. /\ op \in [Ops -> Operation] /\ task \in [Runners -> [Ops -> Task]]
      /\ \A o \in Ops : op[o].generation \in Nat
      /\ "cancelled" \in Results /\ "failed" \in Results
  BY DEF OpsInv, TypeOK, Operation, Results
<1> DEFINE Typed == op' \in [Ops -> Operation]
<1>1. ASSUME NEW r \in Runners, NEW kind \in Requested, Begin(r, kind) PROVE Typed
  <2>1. PICK o \in Ops : op' = [op EXCEPT ![o] = [NoOp EXCEPT !.status = "running", !.kind = kind]]
    BY <1>1, Zenon DEF Begin
  <2> QED
    BY <1>0, <2>1, NewRow, Zenon
<1>2. ASSUME NEW r \in Runners, NEW o \in Ops, CancelRejected(r, o) \/ RevertBegin(r, o) PROVE Typed
  <2>1. op' = [op EXCEPT ![o].status = "cancelled", ![o].finished = TRUE]
    BY <1>2, Zenon DEF CancelRejected, RevertBegin
  <2>2. [op EXCEPT ![o].status = "cancelled", ![o].finished = TRUE] \in [Ops -> Operation]
    BY <1>0, RowsUpdates, Zenon
  <2> QED
    BY <2>1, <2>2, Zenon
<1>3. ASSUME NEW r \in Runners, NEW o \in Ops, ClaimExecution(r, o) PROVE Typed
  <2> DEFINE p == Process(r)
             n == IF op[o].owner = p THEN op[o].generation ELSE op[o].generation + 1
  <2>1. n \in Nat /\ p \in Replicas
    BY <1>0, ProcessFacts
  <2>2. op' = [op EXCEPT ![o].owner = p, ![o].generation = n, ![o].lease = "live"]
    BY <1>3, Zenon DEF ClaimExecution
  <2> HIDE DEF p, n
  <2>3. [op EXCEPT ![o].owner = p, ![o].generation = n, ![o].lease = "live"] \in [Ops -> Operation]
    BY <1>0, <2>1, RowsUpdates, Zenon
  <2> QED
    BY <2>2, <2>3, Zenon
<1>4. ASSUME NEW r \in Runners, NEW o \in Ops, Leave(r, o) PROVE Typed
  <2>1. op' = op \/ op' = [op EXCEPT ![o].owner = NoReplica, ![o].lease = "none"]
    BY <1>4, Zenon DEF Leave
  <2>2. [op EXCEPT ![o].owner = NoReplica, ![o].lease = "none"] \in [Ops -> Operation]
    BY <1>0, RowsUpdates, Zenon
  <2> QED
    BY <1>0, <2>1, <2>2, Zenon
<1>5. ASSUME NEW r \in Runners, NEW o \in Ops, CompleteOwned(r, o) PROVE Typed
  <2>1. task[r][o].result \in Results
    BY <1>0 DEF Task
  <2>2. op' = Finished(o, task[r][o].result)
    BY <1>5, Zenon DEF CompleteOwned
  <2> QED
    BY <1>0, <2>1, <2>2, RowsUpdates, Zenon
<1>6. ASSUME RecoverCommit PROVE Typed
  <2>1. recovery.op \in Ops
    BY <1>6 DEF RecoverCommit, OpsInv, HandlersSound
  <2>2. op' = op \/ op' = Finished(recovery.op, "cancelled") \/ op' = Finished(recovery.op, "failed")
    BY <1>6, Zenon DEF RecoverCommit
  <2>3. /\ Finished(recovery.op, "cancelled") \in [Ops -> Operation]
        /\ Finished(recovery.op, "failed") \in [Ops -> Operation]
    BY <1>0, <2>1, RowsUpdates, Zenon
  <2> QED
    BY <1>0, <2>2, <2>3, Zenon
<1>7. ASSUME RemoveRetry \/ RemoveMark PROVE Typed
  <2>1. removal.op \in Ops
    BY <1>7 DEF RemoveRetry, RemoveMark, OpsInv, HandlersSound
  <2>2. \/ op' = [op EXCEPT ![removal.op].status = "cancelled", ![removal.op].finished = TRUE]
        \/ op' = [op EXCEPT ![removal.op].status = "cancelled"]
    BY <1>7, Zenon DEF RemoveRetry, RemoveMark
  <2>3. /\ [op EXCEPT ![removal.op].status = "cancelled", ![removal.op].finished = TRUE]
             \in [Ops -> Operation]
        /\ [op EXCEPT ![removal.op].status = "cancelled"] \in [Ops -> Operation]
    BY <1>0, <2>1, RowsUpdates, Zenon
  <2> QED
    BY <1>0, <2>2, <2>3, Zenon
<1>8. ASSUME CiFailureComplete PROVE Typed
  <2>1. failure.op \in Ops
    BY <1>8 DEF CiFailureComplete, OpsInv, HandlersSound
  <2>2. op' = op \/ op' = Finished(failure.op, "failed")
    BY <1>8, Zenon DEF CiFailureComplete
  <2>3. Finished(failure.op, "failed") \in [Ops -> Operation]
    BY <1>0, <2>1, RowsUpdates, Zenon
  <2> QED
    BY <1>0, <2>2, <2>3, Zenon
<1>9. ASSUME NEW o \in Ops, Lapse(o) PROVE Typed
  BY <1>0, <1>9, RowsUpdates, Zenon DEF Lapse
<1>10. ASSUME NEW r \in Runners, NEW o \in Ops,
              LoseFence(r, o) \/ PublishRefused(r, o) \/ DatabaseFails(r, o)
       PROVE  Typed
  BY <1>0, <1>4, <1>10 DEF LoseFence, PublishRefused, DatabaseFails
<1>11. ASSUME UNCHANGED op PROVE Typed
  BY <1>0, <1>11
<1>12. ASSUME NEW r \in Runners, NEW o \in Ops,
              \/ CiCallback(r, o) \/ EnterExecution(r, o) \/ AlreadyExecuting(r, o) \/ AwaitWorkflow(r, o)
              \/ RetryTagFails(r, o) \/ ClaimRefused(r, o)
              \/ WorkDone(r, o) \/ WorkFails(r, o) \/ TearDown(r, o) \/ TearDownFails(r, o)
              \/ Publish(r, o) \/ PublishFailure(r, o) \/ ReleaseLock(r, o)
       PROVE  Typed
  BY <1>11, <1>12, Zenon
  DEF CiCallback, EnterExecution, AlreadyExecuting, AwaitWorkflow, RetryTagFails, ClaimRefused, WorkDone, WorkFails,
      TearDown, TearDownFails,
      Publish, PublishFailure, ReleaseLock
<1>13. ASSUME \/ RecoverFind \/ RecoverRelease \/ RemoveRead \/ CiFailureRead \/ CiFailureUnlock \/ RequestLost
              \/ \E p \in Replicas : Crash(p)
       PROVE  Typed
  BY <1>11, <1>13, Zenon
  DEF RecoverFind, RecoverRelease, RemoveRead, CiFailureRead, CiFailureUnlock, RequestLost, Crash
<1> QED
  BY <1>1, <1>2, <1>3, <1>5, <1>6, <1>7, <1>8, <1>9, <1>10, <1>12, <1>13
  DEF Next, Asking, Execution, Recovering, Removing, FailingCi

\* Where a task may be.
Pcs == Waiting \cup Working \cup {"releasing"}

(* A task stays a task under the updates of the code. *)
LEMMA TaskUpdates ==
  ASSUME task \in [Runners -> [Ops -> Task]], NEW r \in Runners, NEW o \in Ops
  PROVE  /\ \A pc \in Pcs : [task EXCEPT ![r][o].pc = pc] \in [Runners -> [Ops -> Task]]
         /\ \A pc \in Pcs, n \in Nat :
              [task EXCEPT ![r][o].pc = pc, ![r][o].generation = n] \in [Runners -> [Ops -> Task]]
         /\ \A pc \in Pcs, result \in Results :
              [task EXCEPT ![r][o].pc = pc, ![r][o].result = result] \in [Runners -> [Ops -> Task]]
<1>1. task[r][o] \in Task
  OBVIOUS
<1>2. ASSUME NEW t \in Task
      PROVE  /\ \A pc \in Pcs : [t EXCEPT !.pc = pc] \in Task
             /\ \A pc \in Pcs, n \in Nat : [t EXCEPT !.pc = pc, !.generation = n] \in Task
             /\ \A pc \in Pcs, result \in Results : [t EXCEPT !.pc = pc, !.result = result] \in Task
  BY Zenon DEF Task, Pcs
<1>3. ASSUME NEW t \in Task PROVE [task EXCEPT ![r][o] = t] \in [Runners -> [Ops -> Task]]
  OBVIOUS
<1> QED
  BY <1>1, <1>2, <1>3, Zenon

(* Every step keeps the tasks of the processes well typed. *)
LEMMA TaskTypes ==
  ASSUME OpsInv, Next
  PROVE  task' \in [Runners -> [Ops -> Task]]
<1>0. /\ op \in [Ops -> Operation] /\ task \in [Runners -> [Ops -> Task]]
      /\ \A o \in Ops : op[o].generation \in Nat
  BY DEF OpsInv, TypeOK, Operation
<1> DEFINE Typed == task' \in [Runners -> [Ops -> Task]]
<1> USE DEF Pcs, Waiting, Working, Results
<1>1. ASSUME NEW r \in Runners, NEW o \in Ops, NEW pc \in Pcs, Goto(r, o, pc) PROVE Typed
  BY <1>0, <1>1, TaskUpdates, Zenon DEF Goto
<1>2. ASSUME NEW r \in Runners, NEW o \in Ops, Done(r, o) PROVE Typed
  BY <1>0, <1>2 DEF Done, Idle, Task
<1>3. ASSUME NEW r \in Runners, NEW kind \in Requested, Begin(r, kind) PROVE Typed
  <2>1. PICK o \in Ops : Goto(r, o, "begun") \/ Goto(r, o, "rejected")
    BY <1>3, Zenon DEF Begin
  <2> QED
    BY <1>1, <2>1
<1>4. ASSUME NEW r \in Runners, NEW o \in Ops,
             \/ CancelRejected(r, o) \/ RevertBegin(r, o) \/ AwaitWorkflow(r, o) \/ RetryTagFails(r, o)
             \/ ClaimRefused(r, o) \/ LoseFence(r, o) \/ PublishRefused(r, o) \/ ReleaseLock(r, o)
             \/ AlreadyExecuting(r, o)
      PROVE  Typed
  BY <1>2, <1>4
  DEF CancelRejected, RevertBegin, AwaitWorkflow, RetryTagFails, AlreadyExecuting, ClaimRefused, LoseFence,
      PublishRefused, ReleaseLock, Leave
<1>5. ASSUME NEW r \in Runners, NEW o \in Ops, ClaimExecution(r, o) PROVE Typed
  <2> DEFINE n == IF op[o].owner = Process(r) THEN op[o].generation ELSE op[o].generation + 1
  <2>1. n \in Nat
    BY <1>0
  <2>2. task' = [task EXCEPT ![r][o].pc = "working", ![r][o].generation = n]
    BY <1>5, Zenon DEF ClaimExecution
  <2>3. "working" \in Pcs
    OBVIOUS
  <2> HIDE DEF n, Pcs
  <2> QED
    BY <1>0, <2>1, <2>2, <2>3, TaskUpdates, Zenon
<1>6. ASSUME NEW r \in Runners, NEW o \in Ops,
             \/ CiCallback(r, o) \/ EnterExecution(r, o)
             \/ WorkDone(r, o) \/ WorkFails(r, o) \/ TearDownFails(r, o)
      PROVE  Typed
  BY <1>1, <1>6 DEF CiCallback, EnterExecution, WorkDone, WorkFails, TearDownFails
<1>7. ASSUME NEW r \in Runners, NEW o \in Ops, TearDown(r, o) \/ Publish(r, o) \/ PublishFailure(r, o)
      PROVE  Typed
  <2>1. ASSUME NEW result \in Results,
               task' = [task EXCEPT ![r][o].pc = "completing", ![r][o].result = result]
        PROVE  Typed
    <3>1. "completing" \in Pcs
      OBVIOUS
    <3> HIDE DEF Pcs, Results
    <3> QED
      BY <1>0, <2>1, <3>1, TaskUpdates, Zenon
  <2> QED
    BY <1>7, <2>1 DEF TearDown, Publish, PublishFailure
<1>8. ASSUME NEW r \in Runners, NEW o \in Ops, CompleteOwned(r, o) PROVE Typed
  BY <1>0, <1>8 DEF CompleteOwned, Idle, Task
<1>9. ASSUME NEW r \in Runners, NEW o \in Ops, DatabaseFails(r, o) PROVE Typed
  BY <1>1, <1>2, <1>9 DEF DatabaseFails, Leave
<1>10. ASSUME NEW p \in Replicas, Crash(p) PROVE Typed
  BY <1>0, <1>10 DEF Crash, Idle, Task
<1>11. ASSUME \/ Recovering \/ Removing \/ FailingCi \/ RequestLost \/ \E o \in Ops : Lapse(o)
       PROVE  Typed
  BY <1>0, <1>11
  DEF Recovering, Removing, FailingCi, RequestLost, Lapse, RecoverFind, RecoverCommit, RecoverRelease,
      RemoveRead, RemoveRetry, RemoveMark, CiFailureRead, CiFailureUnlock, CiFailureComplete
<1> QED
  BY <1>3, <1>4, <1>5, <1>6, <1>7, <1>8, <1>9, <1>10, <1>11 DEF Next, Asking, Execution

-----------------------------------------------------------------------------
(* Every step keeps what the processes remember well typed. *)
LEMMA LocalTypes ==
  ASSUME OpsInv, Next
  PROVE  local' \in [Replicas -> SUBSET Ops]
<1>0. local \in [Replicas -> SUBSET Ops]
  BY DEF OpsInv, TypeOK
<1>1. ASSUME NEW p, NEW S \in SUBSET Ops, local' = [local EXCEPT ![p] = S]
      PROVE  local' \in [Replicas -> SUBSET Ops]
  BY <1>0, <1>1
<1>2. ASSUME NEW r \in Runners, NEW o \in Ops, ClaimExecution(r, o) PROVE local' \in [Replicas -> SUBSET Ops]
  <2>1. local[Process(r)] \cup {o} \in SUBSET Ops
    BY <1>0, ProcessFacts
  <2> QED
    BY <1>1, <1>2, <2>1 DEF ClaimExecution
<1>3. ASSUME NEW r \in Runners, NEW o \in Ops, Forget(r, o) PROVE local' \in [Replicas -> SUBSET Ops]
  <2>1. local[Process(r)] \ {o} \in SUBSET Ops
    BY <1>0, ProcessFacts
  <2> QED
    BY <1>1, <1>3, <2>1 DEF Forget
<1>4. ASSUME NEW r \in Runners, NEW o \in Ops, Execution(r, o) PROVE local' \in [Replicas -> SUBSET Ops]
  BY <1>0, <1>2, <1>3, <1>4
  DEF Execution, CancelRejected, RevertBegin, AwaitWorkflow, RetryTagFails, EnterExecution, AlreadyExecuting,
      ClaimRefused, WorkDone, WorkFails, LoseFence, TearDown, TearDownFails, Publish, PublishRefused,
      PublishFailure, CompleteOwned, DatabaseFails, ReleaseLock, Leave
<1>5. ASSUME NEW p \in Replicas, Crash(p) PROVE local' \in [Replicas -> SUBSET Ops]
  <2>1. {} \in SUBSET Ops
    OBVIOUS
  <2> QED
    BY <1>1, <1>5, <2>1, Zenon DEF Crash
<1>6. ASSUME \/ \E r \in Runners : Asking(r)
             \/ Recovering \/ Removing \/ FailingCi \/ RequestLost \/ \E o \in Ops : Lapse(o)
      PROVE  local' = local
  BY <1>6
  DEF Asking, Begin, CiCallback, Recovering, Removing, FailingCi, RequestLost, Lapse, RecoverFind,
      RecoverCommit, RecoverRelease, RemoveRead, RemoveRetry, RemoveMark, CiFailureRead, CiFailureUnlock,
      CiFailureComplete
<1> QED
  BY <1>0, <1>4, <1>5, <1>6 DEF Next

-----------------------------------------------------------------------------
(* What one step may do to a row. *)

\* begin() creates the operation, after all that have begun before it.
RowBegins(k) ==
    /\ op[k].status = "absent"
    /\ op'[k].status = "running"
    /\ op'[k].owner = NoReplica
    /\ op'[k].lease = "none"
    /\ \A p \in Ops : p < k => op[p].status # "absent"

\* Without a claim the generation stays, and the owner stays or is dropped; only a
\* worker that reports success makes the operation a success.
RowSettles(k) ==
    /\ op'[k].status = "absent" <=> op[k].status = "absent"
    /\ op'[k].generation = op[k].generation
    /\ op'[k].kind = op[k].kind
    /\ op[k].finished => op'[k].finished
    /\ \/ op'[k].owner = op[k].owner /\ op'[k].lease \in {op[k].lease, "lapsed"}
       \/ op'[k].owner = NoReplica /\ op'[k].lease = "none"
    /\ op'[k].status = "succeeded" =>
         \/ op[k].status = "succeeded"
         \/ \E r \in Runners : task[r][k].pc = "completing" /\ task[r][k].result = "succeeded"

\* recoverInterrupted(), remove() and complete() only ever end what has begun.
RowStep(k) ==
    \/ op'[k] = op[k]
    \/ RowBegins(k)
    \/ \E r \in Runners : ClaimExecution(r, k)
    \/ RowSettles(k)

(* Every step does one of these to every row. *)
LEMMA RowsStep ==
  ASSUME OpsInv, Next, NEW k \in Ops
  PROVE  RowStep(k)
<1>0. op \in [Ops -> Operation]
  BY DEF OpsInv, TypeOK
<1>1. ASSUME NEW r \in Runners, NEW kind \in Requested, Begin(r, kind) PROVE RowStep(k)
  <2>1. PICK o \in Ops : /\ op[o].status = "absent"
                         /\ \A p \in Ops : p < o => op[p].status # "absent"
                         /\ op' = [op EXCEPT ![o] = [NoOp EXCEPT !.status = "running", !.kind = kind]]
    BY <1>1, Zenon DEF Begin
  <2> QED
    BY <1>0, <2>1 DEF RowStep, RowBegins, NoOp
<1>2. ASSUME NEW r \in Runners, NEW o \in Ops, CancelRejected(r, o) \/ RevertBegin(r, o)
      PROVE  RowStep(k)
  <2>1. op[o].status # "absent"
    BY <1>2 DEF CancelRejected, RevertBegin, At, OpsInv, TasksSound, TaskSound
  <2>2. op' = [op EXCEPT ![o].status = "cancelled", ![o].finished = TRUE]
    BY <1>2, Zenon DEF CancelRejected, RevertBegin
  <2> QED
    BY <1>0, <2>1, <2>2 DEF RowStep, RowSettles
<1>3. ASSUME NEW r \in Runners, NEW o \in Ops, ClaimExecution(r, o) PROVE RowStep(k)
  BY <1>0, <1>3 DEF ClaimExecution, RowStep
<1>4. ASSUME NEW r \in Runners, NEW o \in Ops, Leave(r, o) PROVE RowStep(k)
  <2>1. op' = op \/ op' = [op EXCEPT ![o].owner = NoReplica, ![o].lease = "none"]
    BY <1>4, Zenon DEF Leave
  <2>2. CASE op' = [op EXCEPT ![o].owner = NoReplica, ![o].lease = "none"]
    BY <1>0, <2>2 DEF RowStep, RowSettles
  <2> QED
    BY <2>1, <2>2 DEF RowStep
<1>5. ASSUME NEW r \in Runners, NEW o \in Ops, CompleteOwned(r, o) PROVE RowStep(k)
  <2>1. /\ op[o].status # "absent" /\ task[r][o].result \in Results
        /\ task[r][o].pc = "completing"
        /\ op' = Finished(o, task[r][o].result)
    BY <1>5 DEF CompleteOwned, At, OwnsExecution, Unfinished, OpsInv, TypeOK, Task
  <2> QED
    BY <1>0, <2>1 DEF Finished, Results, RowStep, RowSettles
<1>6. ASSUME NEW o \in Ops, NEW result \in {"cancelled", "failed"}, op[o].status # "absent",
              op' = Finished(o, result)
       PROVE  RowStep(k)
  <2>1. k # o => op'[k] = op[k]
    BY <1>0, <1>6 DEF Finished
  <2>2. /\ op'[o].status = result /\ op'[o].owner = NoReplica /\ op'[o].lease = "none"
        /\ op'[o].finished
        /\ op'[o].generation = op[o].generation /\ op'[o].kind = op[o].kind
    BY <1>0, <1>6 DEF Finished
  <2>3. RowSettles(o)
    BY <1>6, <2>2 DEF RowSettles
  <2> QED
    BY <2>1, <2>3 DEF RowStep
<1>7. ASSUME RecoverCommit PROVE RowStep(k)
  <2>1. recovery.op \in Ops
    BY <1>7 DEF RecoverCommit, OpsInv, HandlersSound
  <2>2. \/ op' = op
        \/ AsFound /\ op' = Finished(recovery.op, "cancelled")
        \/ AsFound /\ op' = Finished(recovery.op, "failed")
    BY <1>7, Zenon DEF RecoverCommit
  <2>3. AsFound => op[recovery.op].status # "absent"
    BY DEF AsFound, Interrupted, Unfinished
  <2> QED
    BY <1>6, <2>1, <2>2, <2>3 DEF RowStep
<1>8. ASSUME RemoveRetry \/ RemoveMark PROVE RowStep(k)
  <2>1. removal.op \in Ops /\ op[removal.op].status # "absent"
    BY <1>8 DEF RemoveRetry, RemoveMark, OpsInv, HandlersSound
  <2>2. CASE op' = [op EXCEPT ![removal.op].status = "cancelled", ![removal.op].finished = TRUE]
    BY <1>0, <2>1, <2>2 DEF RowStep, RowSettles
  <2>3. CASE op' = [op EXCEPT ![removal.op].status = "cancelled"]
    BY <1>0, <2>1, <2>3 DEF RowStep, RowSettles
  <2> QED
    BY <1>8, <2>2, <2>3, Zenon DEF RemoveRetry, RemoveMark
<1>9. ASSUME CiFailureComplete PROVE RowStep(k)
  <2>1. failure.op \in Ops /\ op[failure.op].status # "absent"
    BY <1>9 DEF CiFailureComplete, OpsInv, HandlersSound
  <2>2. op' = op \/ op' = Finished(failure.op, "failed")
    BY <1>9, Zenon DEF CiFailureComplete
  <2> QED
    BY <1>6, <2>1, <2>2 DEF RowStep
<1>10. ASSUME NEW o \in Ops, Lapse(o) PROVE RowStep(k)
  BY <1>0, <1>10 DEF Lapse, RowStep, RowSettles
<1>11. ASSUME NEW r \in Runners, NEW o \in Ops,
              LoseFence(r, o) \/ PublishRefused(r, o) \/ DatabaseFails(r, o)
       PROVE  RowStep(k)
  BY <1>4, <1>11 DEF LoseFence, PublishRefused, DatabaseFails, RowStep
<1>12. ASSUME UNCHANGED op PROVE RowStep(k)
  BY <1>12 DEF RowStep
<1>13. ASSUME NEW r \in Runners, NEW o \in Ops,
              \/ CiCallback(r, o) \/ EnterExecution(r, o) \/ AlreadyExecuting(r, o) \/ AwaitWorkflow(r, o)
              \/ RetryTagFails(r, o) \/ ClaimRefused(r, o)
              \/ WorkDone(r, o) \/ WorkFails(r, o) \/ TearDown(r, o) \/ TearDownFails(r, o)
              \/ Publish(r, o) \/ PublishFailure(r, o) \/ ReleaseLock(r, o)
       PROVE  RowStep(k)
  BY <1>12, <1>13, Zenon
  DEF CiCallback, EnterExecution, AlreadyExecuting, AwaitWorkflow, RetryTagFails, ClaimRefused, WorkDone, WorkFails,
      TearDown, TearDownFails,
      Publish, PublishFailure, ReleaseLock
<1>14. ASSUME \/ RecoverFind \/ RecoverRelease \/ RemoveRead \/ CiFailureRead \/ CiFailureUnlock \/ RequestLost
              \/ \E p \in Replicas : Crash(p)
       PROVE  RowStep(k)
  BY <1>12, <1>14, Zenon
  DEF RecoverFind, RecoverRelease, RemoveRead, CiFailureRead, CiFailureUnlock, RequestLost, Crash
<1> QED
  BY <1>1, <1>2, <1>3, <1>5, <1>7, <1>8, <1>9, <1>10, <1>11, <1>13, <1>14
  DEF Next, Asking, Execution, Recovering, Removing, FailingCi

-----------------------------------------------------------------------------
(* What one step may do to a task. *)

\* Work for an operation starts with a claim, and keeps the generation it claimed.
TaskStep(r, o) ==
    /\ task'[r][o].pc # "idle" => task[r][o].pc # "idle" \/ op'[o].status # "absent"
    /\ task'[r][o].pc \in Working =>
         \/ ClaimExecution(r, o)
         \/ /\ task[r][o].pc \in Working
            /\ task'[r][o].generation = task[r][o].generation
    /\ task'[r][o].pc = "working" => ClaimExecution(r, o) \/ task[r][o].pc = "working"
    /\ task'[r][o].pc = "completing" /\ task'[r][o].result = "succeeded" =>
         \/ task[r][o].pc = "completing" /\ task[r][o].result = "succeeded"
         \/ Publish(r, o)

(* Every step does one of these to every task. *)
LEMMA TasksStep ==
  ASSUME OpsInv, Next, NEW r \in Runners, NEW o \in Ops
  PROVE  TaskStep(r, o)
<1>0. task \in [Runners -> [Ops -> Task]] /\ op \in [Ops -> Operation]
  BY DEF OpsInv, TypeOK
<1> USE DEF Working, TaskStep
<1>1. ASSUME NEW s \in Runners, NEW kind \in Requested, Begin(s, kind) PROVE TaskStep(r, o)
  <2>1. PICK p \in Ops : /\ op' = [op EXCEPT ![p] = [NoOp EXCEPT !.status = "running", !.kind = kind]]
                         /\ Goto(s, p, "begun") \/ Goto(s, p, "rejected")
    BY <1>1, Zenon DEF Begin
  <2>2. op'[p].status # "absent"
    BY <1>0, <2>1 DEF NoOp
  <2>3. PICK pc \in {"begun", "rejected"} : Goto(s, p, pc)
    BY <2>1
  <2> QED
    BY <1>0, <2>2, <2>3 DEF Goto
<1>2. ASSUME NEW s \in Runners, NEW p \in Ops, Done(s, p) PROVE TaskStep(r, o)
  BY <1>0, <1>2 DEF Done, Idle
<1>3. ASSUME NEW s \in Runners, NEW p \in Ops,
             \/ CancelRejected(s, p) \/ RevertBegin(s, p) \/ AwaitWorkflow(s, p) \/ RetryTagFails(s, p)
             \/ ClaimRefused(s, p) \/ LoseFence(s, p) \/ PublishRefused(s, p) \/ ReleaseLock(s, p)
             \/ AlreadyExecuting(s, p)
      PROVE  TaskStep(r, o)
  BY <1>2, <1>3, Zenon
  DEF CancelRejected, RevertBegin, AwaitWorkflow, RetryTagFails, AlreadyExecuting, ClaimRefused, LoseFence,
      PublishRefused, ReleaseLock, Leave
<1>4. ASSUME NEW s \in Runners, NEW p \in Ops, ClaimExecution(s, p) PROVE TaskStep(r, o)
  <2>1. CASE r = s /\ o = p
    BY <1>0, <1>4, <2>1 DEF ClaimExecution, Claiming, At
  <2>2. CASE r # s \/ o # p
    BY <1>0, <1>4, <2>2 DEF ClaimExecution
  <2> QED
    BY <2>1, <2>2
<1>5. ASSUME NEW s \in Runners, NEW p \in Ops, CiCallback(s, p) \/ EnterExecution(s, p) PROVE TaskStep(r, o)
  <2>1. \/ op[p].status = "running" /\ Goto(s, p, "dispatched") /\ op' = op
        \/ task[s][p].pc # "idle" /\ Goto(s, p, "claiming") /\ op' = op
    BY <1>5 DEF CiCallback, EnterExecution, At
  <2>2. CASE op[p].status = "running" /\ Goto(s, p, "dispatched") /\ op' = op
    BY <1>0, <2>2 DEF Goto
  <2>3. CASE task[s][p].pc # "idle" /\ Goto(s, p, "claiming") /\ op' = op
    BY <1>0, <2>3 DEF Goto
  <2> QED
    BY <2>1, <2>2, <2>3
<1>6. ASSUME NEW s \in Runners, NEW p \in Ops, NEW pc \in Working \ {"working", "completing"}, Goto(s, p, pc),
             task[s][p].pc \in Working
      PROVE  TaskStep(r, o)
  BY <1>0, <1>6 DEF Goto
<1>7. ASSUME NEW s \in Runners, NEW p \in Ops, WorkDone(s, p) \/ WorkFails(s, p) \/ TearDownFails(s, p)
      PROVE  TaskStep(r, o)
  BY <1>6, <1>7 DEF WorkDone, WorkFails, TearDownFails, At
<1>8. ASSUME NEW s \in Runners, NEW p \in Ops, TearDown(s, p) \/ PublishFailure(s, p)
      PROVE  TaskStep(r, o)
  <2>1. PICK result \in {"cancelled", "failed"} :
          task' = [task EXCEPT ![s][p].pc = "completing", ![s][p].result = result]
    BY <1>8 DEF TearDown, PublishFailure
  <2>2. task[s][p].pc \in Working
    BY <1>8 DEF TearDown, PublishFailure, At
  <2> QED
    BY <1>0, <2>1, <2>2
<1>9. ASSUME NEW s \in Runners, NEW p \in Ops, Publish(s, p) PROVE TaskStep(r, o)
  <2>1. CASE r = s /\ o = p
    BY <1>0, <1>9, <2>1 DEF Publish, At
  <2>2. CASE r # s \/ o # p
    BY <1>0, <1>9, <2>2 DEF Publish
  <2> QED
    BY <2>1, <2>2
<1>10. ASSUME NEW s \in Runners, NEW p \in Ops, CompleteOwned(s, p) PROVE TaskStep(r, o)
  BY <1>0, <1>10 DEF CompleteOwned, At, Idle
<1>11. ASSUME NEW s \in Runners, NEW p \in Ops, DatabaseFails(s, p) PROVE TaskStep(r, o)
  <2>1. task[s][p].pc \in Working /\ (Goto(s, p, "failing") \/ Leave(s, p))
    BY <1>11 DEF DatabaseFails, At
  <2> QED
    BY <1>2, <1>6, <2>1 DEF Leave
<1>12. ASSUME NEW p \in Replicas, Crash(p) PROVE TaskStep(r, o)
  BY <1>0, <1>12 DEF Crash, Idle
<1>13. ASSUME UNCHANGED task PROVE TaskStep(r, o)
  BY <1>13
<1>14. ASSUME \/ Recovering \/ Removing \/ FailingCi \/ RequestLost \/ \E p \in Ops : Lapse(p)
       PROVE  TaskStep(r, o)
  BY <1>13, <1>14, Zenon
  DEF Recovering, Removing, FailingCi, RequestLost, Lapse, RecoverFind, RecoverCommit, RecoverRelease,
      RemoveRead, RemoveRetry, RemoveMark, CiFailureRead, CiFailureUnlock, CiFailureComplete
<1> QED
  BY <1>1, <1>3, <1>4, <1>5, <1>7, <1>8, <1>9, <1>10, <1>11, <1>12, <1>14 DEF Next, Asking, Execution

-----------------------------------------------------------------------------
(* An operation that has begun stays one, of the same kind. *)
LEMMA BegunStays ==
  ASSUME OpsInv, Next, NEW k \in Ops, op[k].status # "absent"
  PROVE  op'[k].status # "absent" /\ op'[k].kind = op[k].kind
<1>0. op \in [Ops -> Operation] /\ RowStep(k)
  BY RowsStep DEF OpsInv, TypeOK
<1>1. ASSUME NEW r \in Runners, ClaimExecution(r, k)
      PROVE  op'[k].status = op[k].status /\ op'[k].kind = op[k].kind
  BY <1>0, <1>1 DEF ClaimExecution
<1> QED
  BY <1>0, <1>1 DEF RowStep, RowBegins, RowSettles

(* The lock passes to a new operation only when it is free. *)
LEMMA LockStep ==
  ASSUME OpsInv, Next
  PROVE  \/ lock' \in {0, lock}
         \/ lock = 0 /\ lock' \in Ops /\ RowBegins(lock')
<1>0. op \in [Ops -> Operation]
  BY DEF OpsInv, TypeOK
<1>1. ASSUME NEW r \in Runners, NEW kind \in Requested, Begin(r, kind)
      PROVE  \/ lock' = lock
             \/ lock = 0 /\ lock' \in Ops /\ RowBegins(lock')
  <2>1. PICK o \in Ops : /\ op[o].status = "absent"
                         /\ \A p \in Ops : p < o => op[p].status # "absent"
                         /\ op' = [op EXCEPT ![o] = [NoOp EXCEPT !.status = "running", !.kind = kind]]
                         /\ lock' = lock \/ (lock = 0 /\ lock' = o)
    BY <1>1, Zenon DEF Begin
  <2>2. RowBegins(o)
    BY <1>0, <2>1 DEF RowBegins, NoOp
  <2> QED
    BY <2>1, <2>2
<1>2. ASSUME NEW r \in Runners, NEW o \in Ops, Execution(r, o) PROVE lock' \in {0, lock}
  BY <1>2
  DEF Execution, CancelRejected, RevertBegin, AwaitWorkflow, RetryTagFails, EnterExecution,
      AlreadyExecuting, ClaimExecution, ClaimRefused, WorkDone,
      WorkFails, LoseFence, TearDown, TearDownFails, Publish, PublishRefused, PublishFailure, CompleteOwned,
      DatabaseFails, ReleaseLock, Unlocked
<1>3. ASSUME NEW r \in Runners, NEW o \in Ops, CiCallback(r, o) PROVE lock' \in {0, lock}
  BY <1>3 DEF CiCallback
<1>4. ASSUME Recovering \/ Removing \/ FailingCi \/ RequestLost PROVE lock' \in {0, lock}
  BY <1>4
  DEF Recovering, Removing, FailingCi, RequestLost, RecoverFind, RecoverCommit, RecoverRelease, RemoveRead, RemoveRetry,
      RemoveMark, CiFailureRead, CiFailureUnlock, CiFailureComplete, Unlocked
<1>5. ASSUME NEW p \in Replicas, Crash(p) PROVE lock' \in {0, lock}
  BY <1>5 DEF Crash
<1>6. ASSUME NEW o \in Ops, Lapse(o) PROVE lock' \in {0, lock}
  BY <1>6 DEF Lapse
<1> QED
  BY <1>1, <1>2, <1>3, <1>4, <1>5, <1>6 DEF Next, Asking

(* Only the holder of the lock is ever added to what was published. *)
LEMMA PublishStep ==
  ASSUME OpsInv, Next
  PROVE  \/ published' = published
         \/ /\ lock \in Ops /\ lock' = lock
            /\ published' = published \cup {lock}
<1>1. ASSUME NEW r \in Runners, NEW o \in Ops, Publish(r, o)
      PROVE  published' = published \/ (lock = o /\ lock' = lock /\ published' = published \cup {lock})
  BY <1>1 DEF Publish
<1>2. ASSUME NEW r \in Runners, NEW o \in Ops, Execution(r, o), ~Publish(r, o) PROVE published' = published
  BY <1>2
  DEF Execution, CancelRejected, RevertBegin, AwaitWorkflow, RetryTagFails, EnterExecution,
      AlreadyExecuting, ClaimExecution, ClaimRefused, WorkDone,
      WorkFails, LoseFence, TearDown, TearDownFails, PublishRefused, PublishFailure, CompleteOwned,
      DatabaseFails, ReleaseLock
<1>3. ASSUME (\E r \in Runners : Asking(r)) \/ \E p \in Replicas : Crash(p) PROVE published' = published
  BY <1>3 DEF Asking, Begin, CiCallback, Crash
<1>4. ASSUME Recovering \/ Removing \/ FailingCi \/ RequestLost \/ \E o \in Ops : Lapse(o)
      PROVE  published' = published
  BY <1>4
  DEF Recovering, Removing, FailingCi, RequestLost, RecoverFind, RecoverCommit, RecoverRelease, RemoveRead, RemoveRetry,
      RemoveMark, CiFailureRead, CiFailureUnlock, CiFailureComplete, Lapse
<1> QED
  BY <1>1, <1>2, <1>3, <1>4 DEF Next

-----------------------------------------------------------------------------
(* A finished operation has a result. *)
LEMMA FinishedTyped ==
  ASSUME OpsInv, Next, NEW k \in Ops, op'[k].finished
  PROVE  op'[k].status \in Results
<1>0. /\ op \in [Ops -> Operation] /\ task \in [Runners -> [Ops -> Task]]
      /\ op[k].finished => op[k].status \in Results
  BY DEF OpsInv, TypeOK
<1> USE DEF Results
<1>1. ASSUME NEW r \in Runners, NEW kind \in Requested, Begin(r, kind) PROVE op'[k].status \in Results
  <2>1. PICK o \in Ops : op' = [op EXCEPT ![o] = [NoOp EXCEPT !.status = "running", !.kind = kind]]
    BY <1>1, Zenon DEF Begin
  <2>2. k # o
    BY <1>0, <2>1 DEF NoOp
  <2> QED
    BY <1>0, <2>1, <2>2
<1>2. ASSUME NEW r \in Runners, NEW o \in Ops, CancelRejected(r, o) \/ RevertBegin(r, o)
      PROVE  op'[k].status \in Results
  <2>1. op' = [op EXCEPT ![o].status = "cancelled", ![o].finished = TRUE]
    BY <1>2, Zenon DEF CancelRejected, RevertBegin
  <2>2. k = o => op'[k].status = "cancelled"
    BY <1>0, <2>1
  <2>3. k # o => op'[k] = op[k]
    BY <1>0, <2>1
  <2> QED
    BY <1>0, <2>2, <2>3
<1>3. ASSUME NEW r \in Runners, NEW o \in Ops, ClaimExecution(r, o) PROVE op'[k].status \in Results
  BY <1>0, <1>3 DEF ClaimExecution
<1>4. ASSUME NEW r \in Runners, NEW o \in Ops, Leave(r, o) PROVE op'[k].status \in Results
  <2>1. op' = op \/ op' = [op EXCEPT ![o].owner = NoReplica, ![o].lease = "none"]
    BY <1>4, Zenon DEF Leave
  <2>2. CASE op' = [op EXCEPT ![o].owner = NoReplica, ![o].lease = "none"]
    <3>1. op'[k].status = op[k].status
      BY <1>0, <2>2
    <3>2. op[k].finished
      BY <1>0, <2>2, Zenon DEF Operation
    <3> QED
      BY <1>0, <3>1, <3>2
  <2> QED
    BY <1>0, <2>1, <2>2
<1>5. ASSUME NEW o \in Ops, NEW result \in Results, op' = Finished(o, result) PROVE op'[k].status \in Results
  BY <1>0, <1>5 DEF Finished
<1>6. ASSUME NEW r \in Runners, NEW o \in Ops, CompleteOwned(r, o) PROVE op'[k].status \in Results
  <2>1. task[r][o].result \in Results
    BY <1>0 DEF Task
  <2> QED
    BY <1>5, <1>6, <2>1 DEF CompleteOwned
<1>7. ASSUME RecoverCommit PROVE op'[k].status \in Results
  <2>1. recovery.op \in Ops
    BY <1>7 DEF RecoverCommit, OpsInv, HandlersSound
  <2>2. op' = op \/ op' = Finished(recovery.op, "cancelled") \/ op' = Finished(recovery.op, "failed")
    BY <1>7, Zenon DEF RecoverCommit
  <2> QED
    BY <1>0, <1>5, <2>1, <2>2
<1>8. ASSUME RemoveRetry \/ RemoveMark PROVE op'[k].status \in Results
  <2>1. PICK o \in Ops : o = removal.op
    BY <1>8 DEF RemoveRetry, RemoveMark, OpsInv, HandlersSound
  <2>2. op'[o].status = "cancelled" /\ (k # o => op'[k] = op[k])
    <3>1. CASE op' = [op EXCEPT ![o].status = "cancelled", ![o].finished = TRUE]
      BY <1>0, <3>1
    <3>2. CASE op' = [op EXCEPT ![o].status = "cancelled"]
      BY <1>0, <3>2
    <3> QED
      BY <1>8, <2>1, <3>1, <3>2, Zenon DEF RemoveRetry, RemoveMark
  <2> QED
    BY <1>0, <2>2
<1>9. ASSUME CiFailureComplete PROVE op'[k].status \in Results
  <2>1. failure.op \in Ops
    BY <1>9 DEF CiFailureComplete, OpsInv, HandlersSound
  <2>2. op' = op \/ op' = Finished(failure.op, "failed")
    BY <1>9, Zenon DEF CiFailureComplete
  <2> QED
    BY <1>0, <1>5, <2>1, <2>2
<1>10. ASSUME NEW o \in Ops, Lapse(o) PROVE op'[k].status \in Results
  BY <1>0, <1>10 DEF Lapse
<1>11. ASSUME NEW r \in Runners, NEW o \in Ops, LoseFence(r, o) \/ PublishRefused(r, o) \/ DatabaseFails(r, o)
       PROVE  op'[k].status \in Results
  BY <1>0, <1>4, <1>11 DEF LoseFence, PublishRefused, DatabaseFails
<1>12. ASSUME NEW r \in Runners, NEW o \in Ops,
              \/ CiCallback(r, o) \/ EnterExecution(r, o) \/ AlreadyExecuting(r, o) \/ AwaitWorkflow(r, o)
              \/ RetryTagFails(r, o) \/ ClaimRefused(r, o)
              \/ WorkDone(r, o) \/ WorkFails(r, o) \/ TearDown(r, o) \/ TearDownFails(r, o)
              \/ Publish(r, o) \/ PublishFailure(r, o) \/ ReleaseLock(r, o)
       PROVE  op'[k].status \in Results
  BY <1>0, <1>12
  DEF CiCallback, EnterExecution, AlreadyExecuting, AwaitWorkflow, RetryTagFails, ClaimRefused, WorkDone, WorkFails,
      TearDown, TearDownFails,
      Publish, PublishFailure, ReleaseLock
<1>13. ASSUME \/ RecoverFind \/ RecoverRelease \/ RemoveRead \/ CiFailureRead \/ CiFailureUnlock \/ RequestLost
              \/ \E p \in Replicas : Crash(p)
       PROVE  op'[k].status \in Results
  BY <1>0, <1>13 DEF RecoverFind, RecoverRelease, RemoveRead, CiFailureRead, CiFailureUnlock, RequestLost, Crash
<1> QED
  BY <1>1, <1>2, <1>3, <1>6, <1>7, <1>8, <1>9, <1>10, <1>11, <1>12, <1>13
  DEF Next, Asking, Execution, Recovering, Removing, FailingCi

(* The handlers of requests and of recovery stay well typed, and name what has *)
(* begun.                                                                     *)
LEMMA HandlersStep ==
  ASSUME OpsInv, Next
  PROVE  /\ recovery' \in Sweep /\ removal' \in Request /\ failure' \in Request
         /\ dead' \subseteq Replicas
         /\ HandlersSound'
<1>0. /\ recovery \in Sweep /\ removal \in Request /\ failure \in Request /\ dead \subseteq Replicas
      /\ op \in [Ops -> Operation] /\ lock \in 0..MaxOps
      /\ HandlersSound
      /\ lock # 0 => op[lock].status # "absent"
      /\ NoSweep \in Sweep /\ NoRequest \in Request
      /\ NoSweep.pc = "idle" /\ NoRequest.pc = "idle"
  BY OperationsAssumption DEF OpsInv, TypeOK, RowsSound, NoSweep, Sweep, NoRequest, Request
<1>1. ASSUME NEW r \in Runners, NEW o \in Ops, RetryTagFails(r, o)
      PROVE  /\ recovery' = recovery /\ removal' = removal /\ dead' = dead
             /\ failure' \in Request /\ failure'.op = o /\ op[o].status # "absent"
  BY <1>1 DEF RetryTagFails, At, Request, Ops, OpsInv, TasksSound, TaskSound
<1>2. ASSUME NEW r \in Runners, NEW o \in Ops, Execution(r, o), ~RetryTagFails(r, o)
      PROVE  UNCHANGED <<recovery, removal, failure, dead>>
  BY <1>2
  DEF Execution, CancelRejected, RevertBegin, AwaitWorkflow, EnterExecution,
      AlreadyExecuting, ClaimExecution, ClaimRefused, WorkDone,
      WorkFails, LoseFence, TearDown, TearDownFails, Publish, PublishRefused, PublishFailure, CompleteOwned,
      DatabaseFails, ReleaseLock
<1>3. ASSUME NEW r \in Runners, Asking(r) PROVE UNCHANGED <<recovery, removal, failure, dead>>
  BY <1>3, Zenon DEF Asking, Begin, CiCallback
<1>4. ASSUME NEW p \in Replicas, Crash(p)
      PROVE  /\ recovery' \in {recovery, NoSweep} /\ removal' = removal /\ failure' = failure
             /\ dead' \subseteq Replicas
  BY <1>0, <1>4 DEF Crash
<1>5. ASSUME RecoverFind
      PROVE  /\ recovery' \in Sweep /\ recovery'.op \in Ops
             /\ UNCHANGED <<removal, failure, dead>>
  BY <1>0, <1>5 DEF RecoverFind, Sweep, Operation, Ops, Interrupted, Unfinished
<1>6. ASSUME RecoverCommit \/ RecoverRelease
      PROVE  /\ recovery' \in Sweep
             /\ recovery'.pc = "idle" \/ (recovery.pc # "idle" /\ recovery'.op = recovery.op)
             /\ UNCHANGED <<removal, failure, dead>>
  BY <1>0, <1>6 DEF RecoverCommit, RecoverRelease, Sweep
<1>7. ASSUME Removing
      PROVE  /\ removal' \in Request
             /\ removal'.pc = "idle" \/ (removal'.op \in Ops /\ op[removal'.op].status # "absent")
             /\ UNCHANGED <<recovery, failure, dead>>
  BY <1>0, <1>7 DEF Removing, RemoveRead, RemoveRetry, RemoveMark, Request, Ops
<1>8. ASSUME FailingCi
      PROVE  /\ failure' \in Request
             /\ failure'.pc = "idle" \/ (failure'.op \in Ops /\ op[failure'.op].status # "absent")
             /\ UNCHANGED <<recovery, removal, dead>>
  BY <1>0, <1>8 DEF FailingCi, CiFailureRead, CiFailureUnlock, CiFailureComplete, Request, Ops, HandlersSound
<1>9. ASSUME RequestLost
      PROVE  /\ removal' \in {removal, NoRequest} /\ failure' \in {failure, NoRequest}
             /\ UNCHANGED <<recovery, dead>>
  BY <1>9 DEF RequestLost
<1>10. ASSUME NEW o \in Ops, Lapse(o) PROVE UNCHANGED <<recovery, removal, failure, dead>>
  BY <1>10 DEF Lapse
<1>11. /\ recovery' \in Sweep /\ removal' \in Request /\ failure' \in Request /\ dead' \subseteq Replicas
       /\ recovery'.pc # "idle" => recovery'.op \in Ops
       /\ removal'.pc # "idle" => removal'.op \in Ops /\ op[removal'.op].status # "absent"
       /\ failure'.pc # "idle" => failure'.op \in Ops /\ op[failure'.op].status # "absent"
  BY <1>0, <1>1, <1>2, <1>3, <1>4, <1>5, <1>6, <1>7, <1>8, <1>9, <1>10 DEF Next, Recovering, HandlersSound
<1> QED
  BY <1>11, BegunStays DEF HandlersSound

(* Every step keeps the types. *)
LEMMA OpsTypeStep ==
  ASSUME OpsInv, Next
  PROVE  TypeOK'
<1>1. lock' \in 0..MaxOps
  <2>1. \A o \in Ops : o \in 0..MaxOps
    BY OperationsAssumption DEF Ops
  <2>2. 0 \in 0..MaxOps /\ lock \in 0..MaxOps
    BY OperationsAssumption DEF OpsInv, TypeOK
  <2> QED
    BY <2>1, <2>2, LockStep, Zenon
<1>2. published' \subseteq Ops
  BY PublishStep DEF OpsInv, TypeOK
<1> QED
  BY <1>1, <1>2, RowTypes, TaskTypes, LocalTypes, FinishedTyped, HandlersStep DEF TypeOK

-----------------------------------------------------------------------------
(* Every step keeps the order of the operations and the owner of a lease. *)
LEMMA RowsSoundStep ==
  ASSUME OpsInv, Next
  PROVE  RowsSound'
<1>0. /\ op \in [Ops -> Operation] /\ NoReplica \notin Replicas
      /\ \A o \in Ops : RowStep(o)
      /\ RowsSound
  BY RowsStep, OperationsAssumption DEF OpsInv, TypeOK
<1>1. ASSUME NEW o \in Ops, op'[o].owner = NoReplica PROVE op'[o].lease # "live"
  <2>1. ASSUME NEW r \in Runners, ClaimExecution(r, o) PROVE op'[o].owner = Process(r)
    BY <1>0, <2>1 DEF ClaimExecution
  <2> QED
    BY <1>0, <1>1, <2>1, ProcessFacts DEF RowStep, RowBegins, RowSettles, RowsSound
<1>2. ASSUME NEW o \in Ops, NEW p \in Ops, p < o, op'[o].status # "absent"
      PROVE  op'[p].status # "absent"
  <2>1. ASSUME NEW r \in Runners, ClaimExecution(r, o) PROVE op[o].status # "absent"
    BY <2>1 DEF ClaimExecution, Claimable, Unfinished
  <2>2. op[p].status # "absent"
    BY <1>0, <1>2, <2>1 DEF RowStep, RowBegins, RowSettles, RowsSound
  <2> QED
    BY <2>2, BegunStays
<1>3. ASSUME lock' # 0 PROVE op'[lock'].status # "absent"
  <2>1. CASE lock' = lock
    BY <1>0, <1>3, <2>1, BegunStays DEF RowsSound, OpsInv, TypeOK, Ops
  <2>2. CASE RowBegins(lock')
    BY <2>2 DEF RowBegins
  <2> QED
    BY <1>3, <2>1, <2>2, LockStep
<1> QED
  BY <1>1, <1>2, <1>3 DEF RowsSound

(* Every step keeps what a task knows of the row, and the fence between two.   *)
LEMMA TasksSoundStep ==
  ASSUME OpsInv, Next
  PROVE  TasksSound' /\ FencesSound'
<1>0. /\ op \in [Ops -> Operation] /\ task \in [Runners -> [Ops -> Task]]
      /\ NoReplica \notin Replicas /\ \A r \in Runners : Process(r) \in Replicas
      /\ \A o \in Ops : RowStep(o)
      /\ \A r \in Runners, o \in Ops : TaskStep(r, o) /\ TaskSound(r, o)
      /\ \A o \in Ops : op[o].generation \in Nat
      /\ \A r \in Runners, o \in Ops : task[r][o].generation \in Nat
  BY RowsStep, TasksStep, ProcessFacts, OperationsAssumption DEF OpsInv, TypeOK, TasksSound, Operation, Task
\* a claim: the row and the claimant's task get the generation, the others keep theirs
<1>1. ASSUME NEW w \in Runners, NEW o \in Ops, ClaimExecution(w, o)
      PROVE  /\ op'[o].owner = Process(w) /\ op'[o].generation = task'[w][o].generation
             /\ op'[o].generation = IF op[o].owner = Process(w) THEN op[o].generation ELSE op[o].generation + 1
             /\ \A r \in Runners \ {w} : task'[r][o] = task[r][o]
  BY <1>0, <1>1 DEF ClaimExecution
\* no claim of the operation: a task that works, worked before with the same generation
<1>2. ASSUME NEW o \in Ops, NEW r \in Runners, ~\E w \in Runners : ClaimExecution(w, o),
             task'[r][o].pc \in Working
      PROVE  /\ task[r][o].pc \in Working
             /\ task'[r][o].generation = task[r][o].generation
             /\ op'[o] = op[o] \/ RowSettles(o)
  BY <1>0, <1>2 DEF TaskStep, RowStep, RowBegins, TaskSound, Working
<1>3. ASSUME NEW r \in Runners, NEW o \in Ops PROVE TaskSound(r, o)'
  <2>1. task'[r][o].pc # "idle" => op'[o].status # "absent"
    BY <1>0, BegunStays DEF TaskStep, TaskSound
  <2>2. ASSUME task'[r][o].pc \in Working
        PROVE  /\ task'[r][o].generation =< op'[o].generation
               /\ op'[o].owner \notin {NoReplica, Process(r)} => task'[r][o].generation < op'[o].generation
    <3>1. ASSUME NEW w \in Runners, ClaimExecution(w, o), w # r
          PROVE  /\ task[r][o].pc \in Working /\ task'[r][o] = task[r][o]
                 /\ task[r][o].generation =< op'[o].generation
                 /\ Process(w) # Process(r) => task[r][o].generation < op'[o].generation
      <4>1. task'[r][o] = task[r][o] /\ task[r][o].pc \in Working
        BY <1>1, <2>2, <3>1
      <4> QED
        BY <1>0, <1>1, <3>1, <4>1 DEF TaskSound
    <3>2. CASE \E w \in Runners : ClaimExecution(w, o)
      BY <1>0, <1>1, <3>1, <3>2
    <3>3. CASE ~\E w \in Runners : ClaimExecution(w, o)
      BY <1>0, <1>2, <2>2, <3>3 DEF RowSettles, TaskSound
    <3> QED
      BY <3>2, <3>3
  <2> QED
    BY <2>1, <2>2 DEF TaskSound
<1>4. ASSUME NEW r \in Runners, NEW s \in Runners, NEW o \in Ops, Process(r) # Process(s),
             task'[r][o].pc \in Working, task'[s][o].pc \in Working
      PROVE  task'[r][o].generation # task'[s][o].generation
  <2>1. ASSUME NEW w \in Runners, ClaimExecution(w, o), NEW v \in Runners, Process(v) # Process(w),
               task'[v][o].pc \in Working
        PROVE  task'[v][o].generation < task'[w][o].generation
    <3>1. TaskSound(v, o)'
      BY <1>3
    <3>2. op'[o].owner = Process(w) /\ op'[o].generation = task'[w][o].generation
      BY <1>1, <2>1
    <3> QED
      BY <1>0, <2>1, <3>1, <3>2 DEF TaskSound
  <2>2. /\ task'[r][o].generation \in Nat /\ task'[s][o].generation \in Nat
    BY TaskTypes DEF Task
  <2>3. CASE ClaimExecution(r, o) \/ ClaimExecution(s, o)
    BY <1>4, <2>1, <2>2, <2>3
  <2>4. CASE \E w \in Runners \ {r, s} : ClaimExecution(w, o)
    BY <1>0, <1>1, <1>4, <2>4 DEF OpsInv, FencesSound
  <2>5. CASE ~\E w \in Runners : ClaimExecution(w, o)
    BY <1>2, <1>4, <2>5 DEF OpsInv, FencesSound
  <2> QED
    BY <2>3, <2>4, <2>5
<1> QED
  BY <1>3, <1>4 DEF TasksSound, FencesSound

(* Every step keeps what was published no newer than the holder of the lock. *)
LEMMA PublishedSoundStep ==
  ASSUME OpsInv, Next
  PROVE  PublishedSound'
<1>0. /\ PublishedSound /\ RowsSound /\ published \subseteq Ops
      /\ lock \in 0..MaxOps
      /\ \A o \in Ops : o \in Nat /\ o # 0
  BY OperationsAssumption DEF OpsInv, TypeOK, Ops
<1> SUFFICES ASSUME NEW p \in published'
             PROVE  op'[p].status # "absent" /\ (lock' # 0 => p =< lock')
  BY DEF PublishedSound
<1>1. p \in Ops /\ op[p].status # "absent"
  BY <1>0, PublishStep DEF PublishedSound, RowsSound
<1>2. op'[p].status # "absent"
  BY <1>1, BegunStays
<1>3. CASE lock' = 0
  BY <1>2, <1>3
<1>4. CASE lock' = lock /\ lock # 0
  BY <1>0, <1>2, <1>4, PublishStep DEF PublishedSound
<1>5. CASE lock = 0 /\ lock' \in Ops /\ RowBegins(lock')
  BY <1>0, <1>1, <1>2, <1>5 DEF RowBegins, RowsSound
<1> QED
  BY <1>3, <1>4, <1>5, LockStep

(* Every step keeps that a worker reports what it has published. *)
LEMMA ReportsSoundStep ==
  ASSUME OpsInv, Next
  PROVE  ReportsSound'
<1> SUFFICES ASSUME NEW r \in Runners, NEW o \in Ops, task'[r][o].pc = "completing",
                    task'[r][o].result = "succeeded", op'[o].kind # "start"
             PROVE  o \in published'
  BY DEF ReportsSound
<1>1. published \subseteq published'
  BY PublishStep
<1>2. \/ task[r][o].pc = "completing" /\ task[r][o].result = "succeeded"
      \/ Publish(r, o)
  BY TasksStep DEF TaskStep
<1>3. op[o].status # "absent"
  BY <1>2 DEF Publish, At, OpsInv, TasksSound, TaskSound
<1>4. op[o].kind # "start"
  BY <1>3, BegunStays
<1>5. CASE task[r][o].pc = "completing" /\ task[r][o].result = "succeeded"
  BY <1>1, <1>4, <1>5 DEF OpsInv, ReportsSound
<1>6. CASE Publish(r, o)
  BY <1>4, <1>6 DEF Publish
<1> QED
  BY <1>2, <1>5, <1>6

(* Every step keeps that an operation that succeeded was published. *)
LEMMA SuccessStep ==
  ASSUME OpsInv, Next
  PROVE  SuccessWasPublished'
<1> SUFFICES ASSUME NEW o \in Ops, op'[o].status = "succeeded", op'[o].kind # "start"
             PROVE  o \in published'
  BY DEF SuccessWasPublished
<1>0. RowStep(o) /\ op \in [Ops -> Operation]
  BY RowsStep DEF OpsInv, TypeOK
<1>1. published \subseteq published'
  BY PublishStep
<1>2. ASSUME NEW r \in Runners, ClaimExecution(r, o) PROVE op[o].status = "succeeded"
  BY <1>0, <1>2 DEF ClaimExecution
<1>3. \/ op[o].status = "succeeded"
      \/ \E r \in Runners : task[r][o].pc = "completing" /\ task[r][o].result = "succeeded"
  BY <1>0, <1>2 DEF RowStep, RowBegins, RowSettles
<1>4. op[o].status # "absent"
  BY <1>3 DEF OpsInv, TasksSound, TaskSound
<1>5. op[o].kind # "start"
  BY <1>4, BegunStays
<1> QED
  BY <1>1, <1>3, <1>5 DEF OpsInv, ReportsSound, SuccessWasPublished

-----------------------------------------------------------------------------
(* The rows, the lock, the processes and the handlers of any number of     *)
(* operations stay consistent (OpsInv), whatever crashes, is overtaken or  *)
(* loses its lease: begin(), runWithExecutionLease(), recoverInterrupted(), *)
(* remove() and publishCiFailure() keep the invariant.                     *)
THEOREM OpsInvariance == Spec => []OpsInv
<1>1. Init => OpsInv
  BY OpsInitSound
<1>2. ASSUME OpsInv, [Next]_vars PROVE OpsInv'
  <2>1. CASE Next
    BY <1>2, <2>1, OpsTypeStep, HandlersStep, RowsSoundStep, TasksSoundStep, PublishedSoundStep,
       ReportsSoundStep, SuccessStep DEF OpsInv
  <2>2. CASE UNCHANGED vars
    BY <1>2, <2>2
    DEF vars, OpsInv, TypeOK, HandlersSound, RowsSound, TasksSound, TaskSound, FencesSound,
        PublishedSound, ReportsSound, SuccessWasPublished
  <2> QED
    BY <1>2, <2>1, <2>2
<1> QED
  BY <1>1, <1>2, PTL DEF Spec

(* Type correctness of the operation rows and of the tasks that work on them. *)
THEOREM OperationsTypeCorrect == Spec => []TypeOK
<1>1. OpsInv => TypeOK
  BY DEF OpsInv
<1> QED
  BY <1>1, OpsInvariance, PTL

(* execute(), stop() and remove() complete an operation as succeeded only when *)
(* its result went into the environment under the lock.                      *)
THEOREM SuccessIsPublished == Spec => []SuccessWasPublished
<1>1. OpsInv => SuccessWasPublished
  BY DEF OpsInv
<1> QED
  BY <1>1, OpsInvariance, PTL

(* The update of the environment is conditional on activeOperationId, so that *)
(* no late worker writes over the result of a newer operation (ADR-022).     *)
THEOREM StaleWorkerPublishesNothing == Spec => NewerStateSurvives
<1>1. ASSUME OpsInv, [Next]_vars
      PROVE  \A o \in published' \ published : \A p \in published : p < o
  <2>1. CASE Next
    <3>1. /\ \A p \in published : lock # 0 => p =< lock
          /\ \A o \in Ops : o \in Nat /\ o # 0
          /\ published \subseteq Ops
      BY <1>1, OperationsAssumption DEF OpsInv, TypeOK, PublishedSound, Ops
    <3> QED
      BY <1>1, <2>1, <3>1, PublishStep
  <2>2. CASE UNCHANGED vars
    BY <2>2 DEF vars
  <2> QED
    BY <1>1, <2>1, <2>2
<1> QED
  BY <1>1, OpsInvariance, PTL DEF Spec, NewerStateSurvives

(* A callback accepted before a CI retry was cancelled is refused by           *)
(* claimExecution(), which looks at finishedAt: nothing is deployed (ADR-032). *)
THEOREM FinishedOperationsAreNotWorked == Spec => LateCallbackDeploysNothing
<1>1. ASSUME OpsInv, [Next]_vars, NEW r \in Runners, NEW o \in Ops, op[o].finished, ~At(r, o, "working")
      PROVE  task'[r][o].pc # "working"
  <2>1. CASE Next
    <3>1. ~ClaimExecution(r, o)
      BY <1>1, Zenon DEF ClaimExecution, Claimable, Unfinished
    <3>2. TaskStep(r, o)
      BY <1>1, <2>1, TasksStep
    <3> QED
      BY <1>1, <3>1, <3>2 DEF TaskStep, At
  <2>2. CASE UNCHANGED vars
    BY <1>1, <2>2 DEF vars, At
  <2> QED
    BY <1>1, <2>1, <2>2
<1>2. OpsInv /\ [Next]_vars =>
        \A r \in Runners, o \in Ops : op[o].finished /\ ~At(r, o, "working") => task'[r][o].pc # "working"
  BY <1>1
<1> QED
  BY <1>2, OpsInvariance, PTL DEF Spec, LateCallbackDeploysNothing

(* Recovery, the reverts of begin() and the completions outside a context never *)
(* fail an operation with a live lease: only its own worker does.               *)
LEMMA LiveStep ==
  ASSUME OpsInv, Next, NEW k \in Ops, op[k].lease = "live", ~op[k].finished,
         op'[k].finished, op'[k].status = "failed"
  PROVE  \E r \in Runners : OwnsExecution(r, k) /\ task'[r][k].pc = "releasing"
<1>0. /\ op \in [Ops -> Operation] /\ task \in [Runners -> [Ops -> Task]]
      /\ op[k].owner # NoReplica
  BY DEF OpsInv, TypeOK, RowsSound
<1>1. op'[k] # op[k]
  OBVIOUS
<1>2. ASSUME NEW o \in Ops, NEW result \in Results, op' = Finished(o, result) PROVE k = o
  BY <1>0, <1>1, <1>2 DEF Finished
<1>3. ASSUME NEW r \in Runners, NEW kind \in Requested, Begin(r, kind) PROVE FALSE
  <2>1. PICK o \in Ops : op' = [op EXCEPT ![o] = [NoOp EXCEPT !.status = "running", !.kind = kind]]
    BY <1>3, Zenon DEF Begin
  <2>2. k = o
    BY <1>0, <1>1, <2>1
  <2>3. op'[k].status = "running"
    BY <1>0, <2>1, <2>2 DEF NoOp
  <2> QED
    BY <2>3
<1>4. ASSUME NEW o \in Ops, \/ op' = [op EXCEPT ![o].status = "cancelled", ![o].finished = TRUE]
                            \/ op' = [op EXCEPT ![o].status = "cancelled"]
      PROVE  FALSE
  <2>1. k # o => op'[k] = op[k]
    BY <1>0, <1>4
  <2>2. op'[o].status = "cancelled"
    <3>1. CASE op' = [op EXCEPT ![o].status = "cancelled", ![o].finished = TRUE]
      BY <1>0, <3>1
    <3>2. CASE op' = [op EXCEPT ![o].status = "cancelled"]
      BY <1>0, <3>2
    <3> QED
      BY <1>4, <3>1, <3>2
  <2> QED
    BY <1>1, <2>1, <2>2
<1>5. ASSUME NEW o \in Ops, NEW f, op' = [op EXCEPT ![o] = f], f.finished = op[o].finished PROVE FALSE
  <2>1. k # o => op'[k] = op[k]
    BY <1>0, <1>5
  <2>2. op'[o].finished = op[o].finished
    BY <1>0, <1>5, Zenon
  <2> QED
    BY <1>1, <2>1, <2>2
<1>6. ASSUME NEW r \in Runners, NEW o \in Ops, CompleteOwned(r, o)
      PROVE  OwnsExecution(r, k) /\ task'[r][k].pc = "releasing"
  <2>1. task[r][o].result \in Results /\ op' = Finished(o, task[r][o].result)
    BY <1>0, <1>6, Zenon DEF CompleteOwned, Task
  <2>2. k = o
    BY <1>2, <2>1
  <2> QED
    BY <1>0, <1>6, <2>2 DEF CompleteOwned, Idle
<1>7. ASSUME RecoverCommit PROVE FALSE
  <2>1. recovery.op \in Ops
    BY <1>7 DEF RecoverCommit, OpsInv, HandlersSound
  <2>2. AsFound /\ \E result \in Results : op' = Finished(recovery.op, result)
    BY <1>1, <1>7, Zenon DEF RecoverCommit, Results
  <2>3. k = recovery.op
    BY <1>2, <2>1, <2>2
  <2> QED
    BY <1>0, <2>2, <2>3 DEF AsFound, Interrupted
<1>8. ASSUME CiFailureComplete PROVE FALSE
  <2>1. failure.op \in Ops
    BY <1>8 DEF CiFailureComplete, OpsInv, HandlersSound
  <2>2. op' = op \/ (op[failure.op].owner = NoReplica /\ op' = Finished(failure.op, "failed"))
    BY <1>8, Zenon DEF CiFailureComplete
  <2>3. k = failure.op
    BY <1>1, <1>2, <2>1, <2>2 DEF Results
  <2> QED
    BY <1>0, <1>1, <2>2, <2>3
<1>9. ASSUME RemoveRetry \/ RemoveMark PROVE FALSE
  <2>1. removal.op \in Ops
    BY <1>9 DEF RemoveRetry, RemoveMark, OpsInv, HandlersSound
  <2> QED
    BY <1>4, <1>9, <2>1, Zenon DEF RemoveRetry, RemoveMark
<1>10. ASSUME NEW r \in Runners, NEW o \in Ops, CancelRejected(r, o) \/ RevertBegin(r, o) PROVE FALSE
  BY <1>4, <1>10, Zenon DEF CancelRejected, RevertBegin
<1>11. ASSUME NEW r \in Runners, NEW o \in Ops, Leave(r, o) PROVE FALSE
  <2> DEFINE left == [op[o] EXCEPT !.owner = NoReplica, !.lease = "none"]
  <2>1. op' = op \/ op' = [op EXCEPT ![o] = left]
    BY <1>11, Zenon DEF Leave
  <2>2. left.finished = op[o].finished
    BY <1>0, Zenon DEF Operation
  <2> HIDE DEF left
  <2> QED
    BY <1>1, <1>5, <2>1, <2>2, Zenon
<1>12. ASSUME NEW r \in Runners, NEW o \in Ops, ClaimExecution(r, o) PROVE FALSE
  <2> DEFINE n == IF op[o].owner = Process(r) THEN op[o].generation ELSE op[o].generation + 1
  <2> DEFINE claimed == [op[o] EXCEPT !.owner = Process(r), !.generation = n, !.lease = "live"]
  <2>1. op' = [op EXCEPT ![o] = claimed]
    BY <1>12, Zenon DEF ClaimExecution
  <2> HIDE DEF n
  <2>2. claimed.finished = op[o].finished
    BY <1>0, Zenon DEF Operation
  <2> HIDE DEF claimed
  <2> QED
    BY <1>5, <2>1, <2>2, Zenon
<1>13. ASSUME NEW o \in Ops, Lapse(o) PROVE FALSE
  <2> DEFINE lapsed == [op[o] EXCEPT !.lease = "lapsed"]
  <2>1. op' = [op EXCEPT ![o] = lapsed]
    BY <1>13, Zenon DEF Lapse
  <2>2. lapsed.finished = op[o].finished
    BY <1>0, Zenon DEF Operation
  <2> HIDE DEF lapsed
  <2> QED
    BY <1>5, <2>1, <2>2, Zenon
<1>14. ASSUME NEW r \in Runners, NEW o \in Ops, LoseFence(r, o) \/ PublishRefused(r, o) \/ DatabaseFails(r, o)
       PROVE  FALSE
  BY <1>1, <1>11, <1>14 DEF LoseFence, PublishRefused, DatabaseFails
<1>15. ASSUME NEW r \in Runners, NEW o \in Ops,
              \/ CiCallback(r, o) \/ EnterExecution(r, o) \/ AlreadyExecuting(r, o) \/ AwaitWorkflow(r, o)
              \/ RetryTagFails(r, o) \/ ClaimRefused(r, o)
              \/ WorkDone(r, o) \/ WorkFails(r, o) \/ TearDown(r, o) \/ TearDownFails(r, o)
              \/ Publish(r, o) \/ PublishFailure(r, o) \/ ReleaseLock(r, o)
       PROVE  FALSE
  BY <1>1, <1>15, Zenon
  DEF CiCallback, EnterExecution, AlreadyExecuting, AwaitWorkflow, RetryTagFails, ClaimRefused, WorkDone, WorkFails,
      TearDown, TearDownFails,
      Publish, PublishFailure, ReleaseLock
<1>16. ASSUME \/ RecoverFind \/ RecoverRelease \/ RemoveRead \/ CiFailureRead \/ CiFailureUnlock \/ RequestLost
              \/ \E p \in Replicas : Crash(p)
       PROVE  FALSE
  BY <1>1, <1>16, Zenon
  DEF RecoverFind, RecoverRelease, RemoveRead, CiFailureRead, CiFailureUnlock, RequestLost, Crash
<1> QED
  BY <1>3, <1>6, <1>7, <1>8, <1>9, <1>10, <1>12, <1>13, <1>14, <1>15, <1>16
  DEF Next, Asking, Execution, Recovering, Removing, FailingCi

(* The commit of recoverInterrupted() is a compare-and-set that looks at the    *)
(* lease again: an operation that its worker still runs is not failed (ADR-126). *)
THEOREM RecoveryLeavesLiveExecutions == Spec => LiveExecutionIsNotRecovered
<1>1. ASSUME OpsInv, [Next]_vars, NEW o \in Ops, op[o].lease = "live", ~op[o].finished,
             op'[o].finished, op'[o].status = "failed"
      PROVE  \E r \in Runners : OwnsExecution(r, o) /\ task'[r][o].pc = "releasing"
  <2>1. CASE Next
    BY <1>1, <2>1, LiveStep
  <2>2. CASE UNCHANGED vars
    BY <1>1, <2>2 DEF vars
  <2> QED
    BY <1>1, <2>1, <2>2
<1>2. OpsInv /\ [Next]_vars =>
        \A o \in Ops :
          /\ op[o].lease = "live"
          /\ ~op[o].finished
          /\ op'[o].finished
          /\ op'[o].status = "failed"
          => \E r \in Runners : /\ OwnsExecution(r, o)
                                /\ task'[r][o].pc = "releasing"
  BY <1>1
<1> QED
  BY <1>2, OpsInvariance, PTL DEF Spec, LiveExecutionIsNotRecovered

-----------------------------------------------------------------------------
(* ADR-022 allows one active operation; a ci-retry whose callback fails, or   *)
(* that is removed, breaks that (OneActiveOperation).  What follows shows that *)
(* nothing else does.                                                         *)

\* A ci-retry is as old as operation o, or older.
RetryBefore(o) == \E q \in Ops : q =< o /\ op[q].kind = "ci-retry"

\* The lock is held by the newest operation that was accepted.
NewestHolds ==
    \A r \in Runners, o \in Ops :
        task[r][o].pc \notin {"idle", "rejected"} /\ lock # 0 => o =< lock

\* remove() may clear the lock of an operation newer than the ci-retry it has read,
\* publishCiFailure() only that of a ci-retry, and recovery that of a finished one.
ClearersSound ==
    /\ removal.pc = "checked" /\ lock # 0 => removal.op =< lock
    /\ failure.pc # "idle" => op[failure.op].kind = "ci-retry"
    /\ recovery.pc = "releasing" => op[recovery.op].finished

\* No operation but a ci-retry has two tasks.
OneTask ==
    /\ \A r, s \in Runners, o \in Ops :
         task[r][o].pc # "idle" /\ task[s][o].pc # "idle" /\ op[o].kind # "ci-retry" => r = s
    /\ \A r \in Runners, o \in Ops :
         task[r][o].pc \in {"dispatched", "claiming"} => op[o].kind = "ci-retry"

\* Without a ci-retry an operation that is begun or worked on has the lock.
WorkersHold ==
    \A r \in Runners, o \in Ops :
        task[r][o].pc \in {"begun", "working"} /\ ~op[o].finished /\ ~RetryBefore(o) => lock = o

AloneInv == NewestHolds /\ ClearersSound /\ OneTask /\ WorkersHold

\* What one step may do to a task, and when it gets it.
TaskMove(r, o) ==
    /\ task'[r][o].pc # "idle" =>
         task[r][o].pc # "idle" \/ op[o].status = "absent" \/ op[o].kind = "ci-retry"
    /\ task[r][o].pc = "idle" /\ task'[r][o].pc # "idle" =>
         \A s \in Runners : s # r => task'[s][o] = task[s][o]
    /\ task'[r][o].pc \notin {"idle", "rejected"} =>
         task[r][o].pc \notin {"idle", "rejected"} \/ lock' = o
    /\ task'[r][o].pc = "begun" => task[r][o].pc = "begun" \/ lock' = o
    /\ task'[r][o].pc \in {"dispatched", "claiming"} =>
         \/ task[r][o].pc \in {"dispatched", "claiming"}
         \/ op[o].kind = "ci-retry" /\ op[o].status # "absent"
    /\ task'[r][o].pc = "working" => task[r][o].pc \in {"begun", "claiming", "working"}

(* Every step moves every task so. *)
LEMMA TasksMove ==
  ASSUME OpsInv, Next, NEW r \in Runners, NEW o \in Ops
  PROVE  TaskMove(r, o)
<1>0. task \in [Runners -> [Ops -> Task]] /\ op \in [Ops -> Operation]
  BY DEF OpsInv, TypeOK
<1> USE DEF TaskMove
<1>1. ASSUME NEW s \in Runners, NEW kind \in Requested, Begin(s, kind) PROVE TaskMove(r, o)
  <2>1. PICK p \in Ops : /\ op[p].status = "absent"
                         /\ \/ lock' = p /\ Goto(s, p, "begun")
                            \/ Goto(s, p, "rejected")
    BY <1>1, Zenon DEF Begin
  <2>2. PICK pc \in {"begun", "rejected"} : Goto(s, p, pc) /\ (pc = "begun" => lock' = p)
    BY <2>1
  <2>3. /\ task'[s][p].pc = pc
        /\ \A x \in Runners, y \in Ops : x # s \/ y # p => task'[x][y] = task[x][y]
    BY <1>0, <2>2 DEF Goto, Task
  <2> QED
    BY <2>1, <2>2, <2>3
<1>2. ASSUME NEW s \in Runners, NEW p \in Ops, Done(s, p) PROVE TaskMove(r, o)
  BY <1>0, <1>2 DEF Done, Idle
<1>3. ASSUME NEW s \in Runners, NEW p \in Ops,
             \/ CancelRejected(s, p) \/ RevertBegin(s, p) \/ AwaitWorkflow(s, p) \/ RetryTagFails(s, p)
             \/ ClaimRefused(s, p) \/ LoseFence(s, p) \/ PublishRefused(s, p) \/ ReleaseLock(s, p)
             \/ AlreadyExecuting(s, p)
      PROVE  TaskMove(r, o)
  BY <1>2, <1>3, Zenon
  DEF CancelRejected, RevertBegin, AwaitWorkflow, RetryTagFails, AlreadyExecuting, ClaimRefused, LoseFence,
      PublishRefused, ReleaseLock, Leave
<1>4. ASSUME NEW s \in Runners, NEW p \in Ops, NEW t,
             task' = [task EXCEPT ![s][p] = t], task[s][p].pc \notin {"idle", "rejected"},
             t.pc \in {"idle", "tearing", "publishing", "failing", "completing", "releasing"}
      PROVE  TaskMove(r, o)
  BY <1>0, <1>4
<1>5. ASSUME NEW s \in Runners, NEW p \in Ops, ClaimExecution(s, p) PROVE TaskMove(r, o)
  <2>1. /\ task[s][p].pc \in {"begun", "claiming"}
        /\ task'[s][p].pc = "working"
        /\ \A x \in Runners, y \in Ops : x # s \/ y # p => task'[x][y] = task[x][y]
    BY <1>0, <1>5 DEF ClaimExecution, Claiming, At
  <2> QED
    BY <1>0, <2>1
<1>6. ASSUME NEW s \in Runners, NEW p \in Ops, CiCallback(s, p) \/ EnterExecution(s, p) PROVE TaskMove(r, o)
  <2>1. CASE CiCallback(s, p)
    <3>1. /\ op[p].kind = "ci-retry" /\ op[p].status = "running" /\ lock' = p
          /\ task' = [task EXCEPT ![s][p].pc = "dispatched"]
      BY <2>1 DEF CiCallback, Goto
    <3> QED
      BY <1>0, <3>1
  <2>2. CASE EnterExecution(s, p)
    <3>1. task[s][p].pc = "dispatched" /\ task' = [task EXCEPT ![s][p].pc = "claiming"]
      BY <2>2 DEF EnterExecution, At, Goto
    <3> QED
      BY <1>0, <3>1
  <2> QED
    BY <1>6, <2>1, <2>2
<1>7. ASSUME NEW s \in Runners, NEW p \in Ops, NEW pc, Goto(s, p, pc),
             pc \in {"tearing", "publishing", "failing"},
             task[s][p].pc \notin {"idle", "rejected"}
      PROVE  TaskMove(r, o)
  BY <1>0, <1>7 DEF Goto
<1>8. ASSUME NEW s \in Runners, NEW p \in Ops, WorkDone(s, p) \/ WorkFails(s, p) \/ TearDownFails(s, p)
      PROVE  TaskMove(r, o)
  BY <1>7, <1>8 DEF WorkDone, WorkFails, TearDownFails, At
<1>9. ASSUME NEW s \in Runners, NEW p \in Ops, TearDown(s, p) \/ PublishFailure(s, p) \/ Publish(s, p)
      PROVE  TaskMove(r, o)
  <2>1. PICK result : task' = [task EXCEPT ![s][p].pc = "completing", ![s][p].result = result]
    BY <1>9 DEF TearDown, PublishFailure, Publish
  <2>2. task[s][p].pc \notin {"idle", "rejected"}
    BY <1>9 DEF TearDown, PublishFailure, Publish, At
  <2>3. /\ task'[s][p].pc = "completing"
        /\ \A x \in Runners, y \in Ops : x # s \/ y # p => task'[x][y] = task[x][y]
    BY <1>0, <2>1 DEF Task
  <2> QED
    BY <1>0, <2>2, <2>3
<1>10. ASSUME NEW s \in Runners, NEW p \in Ops, CompleteOwned(s, p) PROVE TaskMove(r, o)
  BY <1>0, <1>10 DEF CompleteOwned, At, Idle
<1>11. ASSUME NEW s \in Runners, NEW p \in Ops, DatabaseFails(s, p) PROVE TaskMove(r, o)
  <2>1. task[s][p].pc \notin {"idle", "rejected"} /\ (Goto(s, p, "failing") \/ Leave(s, p))
    BY <1>11 DEF DatabaseFails, At
  <2> QED
    BY <1>2, <1>7, <2>1 DEF Leave
<1>12. ASSUME NEW p \in Replicas, Crash(p) PROVE TaskMove(r, o)
  BY <1>0, <1>12 DEF Crash, Idle
<1>13. ASSUME UNCHANGED task PROVE TaskMove(r, o)
  BY <1>13
<1>14. ASSUME \/ Recovering \/ Removing \/ FailingCi \/ RequestLost \/ \E p \in Ops : Lapse(p)
       PROVE  TaskMove(r, o)
  BY <1>13, <1>14, Zenon
  DEF Recovering, Removing, FailingCi, RequestLost, Lapse, RecoverFind, RecoverCommit, RecoverRelease,
      RemoveRead, RemoveRetry, RemoveMark, CiFailureRead, CiFailureUnlock, CiFailureComplete
<1> QED
  BY <1>1, <1>3, <1>5, <1>6, <1>8, <1>9, <1>10, <1>11, <1>12, <1>14 DEF Next, Asking, Execution

(* An operation that has finished stays finished. *)
LEMMA FinishedStays ==
  ASSUME OpsInv, Next, NEW k \in Ops, op[k].finished
  PROVE  op'[k].finished
<1>1. /\ op \in [Ops -> Operation] /\ RowStep(k)
      /\ op[k].status # "absent"
  BY RowsStep DEF OpsInv, TypeOK, Results
<1>2. ASSUME NEW r \in Runners, ClaimExecution(r, k) PROVE FALSE
  BY <1>2 DEF ClaimExecution, Claimable, Unfinished
<1> QED
  BY <1>1, <1>2 DEF RowStep, RowBegins, RowSettles

\* Why the holder of the lock may lose it: the operation has finished, its own task
\* gives it up, or a ci-retry is behind it.
Loses(o) ==
    \/ op[o].kind = "ci-retry"
    \/ op[o].finished
    \/ \E s \in Runners : task[s][o].pc # "idle" /\ task'[s][o].pc \notin {"begun", "working"}
    \/ removal.pc = "checked" /\ removal.op \in Ops /\ op[removal.op].kind = "ci-retry"

(* The lock is released for one of these reasons. *)
LEMMA LockLost ==
  ASSUME OpsInv, AloneInv, Next, lock # 0, lock' # lock
  PROVE  Loses(lock)
<1>0. /\ task \in [Runners -> [Ops -> Task]] /\ op \in [Ops -> Operation]
      /\ HandlersSound /\ ClearersSound
  BY DEF OpsInv, TypeOK, AloneInv
<1> USE DEF Loses
<1>1. ASSUME NEW s \in Runners, NEW o \in Ops, Done(s, o), task[s][o].pc # "idle", lock = o
      PROVE  Loses(lock)
  <2>1. task'[s][o].pc = "idle"
    BY <1>0, <1>1 DEF Done, Idle
  <2> QED
    BY <1>1, <2>1
<1>2. ASSUME NEW s \in Runners, NEW o \in Ops, RevertBegin(s, o) \/ RetryTagFails(s, o) \/ ReleaseLock(s, o)
      PROVE  Loses(lock)
  <2>1. lock = o
    BY <1>2 DEF RevertBegin, RetryTagFails, ReleaseLock, Unlocked
  <2> QED
    BY <1>1, <1>2, <2>1 DEF RevertBegin, RetryTagFails, ReleaseLock, At
<1>3. ASSUME NEW s \in Runners, NEW o \in Ops, TearDown(s, o) \/ PublishFailure(s, o)
      PROVE  Loses(lock)
  <2>1. lock = o /\ task[s][o].pc # "idle"
    BY <1>3 DEF TearDown, PublishFailure, Unlocked, At
  <2>2. PICK result : task' = [task EXCEPT ![s][o].pc = "completing", ![s][o].result = result]
    BY <1>3 DEF TearDown, PublishFailure
  <2>3. task'[s][o].pc = "completing"
    BY <1>0, <2>2 DEF Task
  <2> QED
    BY <2>1, <2>3
<1>4. ASSUME NEW s \in Runners, NEW o \in Ops, Execution(s, o) PROVE Loses(lock)
  BY <1>2, <1>3, <1>4
  DEF Execution, CancelRejected, AwaitWorkflow, EnterExecution, AlreadyExecuting, ClaimExecution,
      ClaimRefused, WorkDone, WorkFails, LoseFence, TearDownFails, Publish, PublishRefused,
      CompleteOwned, DatabaseFails
<1>5. ASSUME RecoverRelease \/ RemoveRetry \/ CiFailureUnlock PROVE Loses(lock)
  BY <1>0, <1>5 DEF RecoverRelease, RemoveRetry, CiFailureUnlock, Unlocked, HandlersSound, ClearersSound
<1>6. ~RecoverFind /\ ~RecoverCommit /\ ~RemoveRead /\ ~RemoveMark /\ ~CiFailureRead /\ ~CiFailureComplete
      /\ ~RequestLost /\ \A o \in Ops : ~Lapse(o)
  BY DEF RecoverFind, RecoverCommit, RemoveRead, RemoveMark, CiFailureRead, CiFailureComplete, RequestLost, Lapse
<1>7. (\A r \in Runners : ~Asking(r)) /\ \A p \in Replicas : ~Crash(p)
  BY DEF Asking, Begin, CiCallback, Crash
<1> QED
  BY <1>4, <1>5, <1>6, <1>7 DEF Next, Recovering, Removing, FailingCi

(* The accepted operation that is newest stays the holder of the lock. *)
LEMMA NewestHoldsStep ==
  ASSUME OpsInv, AloneInv, Next
  PROVE  NewestHolds'
<1> SUFFICES ASSUME NEW r \in Runners, NEW o \in Ops,
                    task'[r][o].pc \notin {"idle", "rejected"}, lock' # 0
             PROVE  o =< lock'
  BY DEF NewestHolds
<1>1. /\ TaskMove(r, o) /\ lock \in 0..MaxOps /\ MaxOps \in Nat /\ RowsSound
      /\ task[r][o].pc # "idle" => op[o].status # "absent"
      /\ o \in Nat /\ NewestHolds
  BY TasksMove, OperationsAssumption DEF OpsInv, TypeOK, AloneInv, TasksSound, TaskSound, Ops
<1>2. CASE lock' = o
  BY <1>1, <1>2
<1>3. CASE lock' = lock /\ lock' # o
  BY <1>1, <1>3 DEF TaskMove, NewestHolds
<1>4. CASE lock' \in Ops /\ RowBegins(lock') /\ lock' # o
  <2>1. op[o].status # "absent" /\ op[lock'].status = "absent"
    BY <1>1, <1>4 DEF TaskMove, RowBegins
  <2>2. ~(lock' < o)
    BY <1>1, <1>4, <2>1 DEF RowsSound
  <2> QED
    BY <1>1, <1>4, <2>2 DEF Ops
<1> QED
  BY <1>2, <1>3, <1>4, LockStep

(* So do the handlers that may clear the lock know whose it was. *)
LEMMA ClearersStep ==
  ASSUME OpsInv, AloneInv, Next
  PROVE  ClearersSound'
<1>0. /\ op \in [Ops -> Operation] /\ HandlersSound /\ RowsSound /\ ClearersSound
      /\ lock \in 0..MaxOps /\ MaxOps \in Nat
      /\ \A o \in Ops : o \in Nat
      /\ failure \in Request /\ recovery \in Sweep
  BY OperationsAssumption DEF OpsInv, TypeOK, AloneInv, Ops
<1>1. removal'.pc = "checked" /\ lock' # 0 => removal'.op =< lock'
  <2> SUFFICES ASSUME removal'.pc = "checked", lock' # 0 PROVE removal'.op =< lock'
    OBVIOUS
  <2>1. CASE removal' = removal
    <3>1. removal.op \in Ops /\ op[removal.op].status # "absent"
      BY <1>0, <2>1 DEF HandlersSound
    <3>2. CASE lock' = lock
      BY <1>0, <2>1, <3>2 DEF ClearersSound
    <3>3. CASE lock' \in Ops /\ RowBegins(lock')
      BY <1>0, <2>1, <3>1, <3>3 DEF RowBegins, RowsSound
    <3> QED
      BY <3>2, <3>3, LockStep
  <2>2. CASE removal' # removal
    <3>1a. ASSUME NEW r \in Runners, NEW o \in Ops, Execution(r, o) PROVE FALSE
      BY <2>2, <3>1a, Zenon
      DEF Execution, CancelRejected, RevertBegin, AwaitWorkflow, RetryTagFails, EnterExecution, AlreadyExecuting,
          ClaimExecution, ClaimRefused,
          WorkDone, WorkFails, LoseFence, TearDown, TearDownFails, Publish, PublishRefused, PublishFailure,
          CompleteOwned, DatabaseFails, ReleaseLock
    <3>1b. ASSUME (\E r \in Runners : Asking(r)) \/ \E p \in Replicas : Crash(p) PROVE FALSE
      BY <2>2, <3>1b, Zenon DEF Asking, Begin, CiCallback, Crash
    <3>1. /\ \A r \in Runners : ~Asking(r) /\ \A o \in Ops : ~Execution(r, o)
         /\ \A p \in Replicas : ~Crash(p)
      BY <3>1a, <3>1b, Zenon
    <3>2. ~Recovering /\ ~FailingCi /\ \A o \in Ops : ~Lapse(o)
      BY <2>2
      DEF Recovering, FailingCi, RecoverFind, RecoverCommit, RecoverRelease, CiFailureRead, CiFailureUnlock,
          CiFailureComplete, Lapse
    <3>3. Removing \/ RequestLost
      BY <3>1, <3>2 DEF Next
    <3>4. RemoveRead
      BY <2>2, <3>3 DEF Removing, RemoveRetry, RemoveMark, RequestLost, NoRequest
    <3> QED
      BY <1>0, <3>4 DEF RemoveRead
  <2> QED
    BY <2>1, <2>2
<1>2. failure'.pc # "idle" => op'[failure'.op].kind = "ci-retry"
  <2> SUFFICES ASSUME failure'.pc # "idle" PROVE op'[failure'.op].kind = "ci-retry"
    OBVIOUS
  <2>1. failure'.op \in Ops /\ op[failure'.op].status # "absent" /\ op[failure'.op].kind = "ci-retry"
    <3>1. CASE failure' = failure
      BY <1>0, <3>1 DEF ClearersSound, HandlersSound
    <3>2. CASE failure' # failure
      <4>1. ASSUME NEW r \in Runners, NEW o \in Ops, Execution(r, o) PROVE RetryTagFails(r, o)
        BY <3>2, <4>1
        DEF Execution, CancelRejected, RevertBegin, AwaitWorkflow, EnterExecution,
      AlreadyExecuting, ClaimExecution, ClaimRefused, WorkDone,
            WorkFails, LoseFence, TearDown, TearDownFails, Publish, PublishRefused, PublishFailure,
            CompleteOwned, DatabaseFails, ReleaseLock
      <4>2. ASSUME NEW r \in Runners, NEW o \in Ops, RetryTagFails(r, o)
            PROVE  failure'.op = o /\ op[o].kind = "ci-retry" /\ op[o].status # "absent"
        BY <4>2 DEF RetryTagFails, At, OpsInv, TasksSound, TaskSound
      <4>3. (\A r \in Runners : ~Asking(r)) /\ \A p \in Replicas : ~Crash(p)
        BY <3>2 DEF Asking, Begin, CiCallback, Crash
      <4>4. ~Recovering /\ ~Removing /\ \A o \in Ops : ~Lapse(o)
        BY <3>2
        DEF Recovering, Removing, RecoverFind, RecoverCommit, RecoverRelease, RemoveRead, RemoveRetry,
            RemoveMark, Lapse
      <4>5. ~RequestLost
        BY <3>2 DEF RequestLost, NoRequest
      <4>6. FailingCi => failure'.op \in Ops /\ op[failure'.op].status # "absent"
                         /\ op[failure'.op].kind = "ci-retry"
        <5>1. CiFailureRead => failure'.op = lock /\ lock \in Ops /\ op[lock].kind = "ci-retry"
                               /\ op[lock].status = "running"
          BY <1>0 DEF CiFailureRead, Ops
        <5>2. CiFailureUnlock => failure'.op = failure.op /\ failure.pc = "checked"
          BY <1>0 DEF CiFailureUnlock, Request
        <5>3. ~CiFailureComplete
          BY DEF CiFailureComplete, NoRequest
        <5> QED
          BY <1>0, <5>1, <5>2, <5>3 DEF FailingCi, HandlersSound, ClearersSound
      <4> QED
        BY <4>1, <4>2, <4>3, <4>4, <4>5, <4>6 DEF Next
    <3> QED
      BY <3>1, <3>2
  <2> QED
    BY <2>1, BegunStays
<1>3. recovery'.pc = "releasing" => op'[recovery'.op].finished
  <2>1. ASSUME recovery.pc = "releasing", recovery' = recovery PROVE op'[recovery'.op].finished
    <3>1. recovery.op \in Ops /\ op[recovery.op].finished
      BY <1>0, <2>1 DEF ClearersSound, HandlersSound
    <3> QED
      BY <2>1, <3>1, FinishedStays
  <2>2. ASSUME RecoverCommit, recovery'.pc = "releasing" PROVE op'[recovery'.op].finished
    <3>0. AsFound
      <4>1. NoSweep.pc = "idle"
        BY DEF NoSweep
      <4>2. AsFound \/ recovery' = NoSweep
        BY <2>2, Zenon DEF RecoverCommit
      <4> QED
        BY <2>2, <4>1, <4>2
    <3>0a. recovery' = [recovery EXCEPT !.pc = "releasing"]
      BY <2>2, <3>0, Zenon DEF RecoverCommit
    <3>0b. recovery.pc = "found"
      BY <2>2, Zenon DEF RecoverCommit
    <3>1. AsFound /\ recovery'.op = recovery.op /\ recovery.op \in Ops
      BY <1>0, <3>0, <3>0a, <3>0b DEF Sweep, HandlersSound
    <3>2. PICK result : op' = Finished(recovery.op, result)
      BY <2>2, <3>1, Zenon DEF RecoverCommit
    <3> QED
      BY <1>0, <3>1, <3>2 DEF Finished, Operation
  <2>3. recovery'.pc = "releasing" => recovery' = recovery \/ RecoverCommit
    <3>1. ASSUME NEW r \in Runners, Asking(r) \/ \E o \in Ops : Execution(r, o) PROVE recovery' = recovery
      BY <3>1
      DEF Asking, Begin, CiCallback, Execution, CancelRejected, RevertBegin, AwaitWorkflow,
          RetryTagFails, EnterExecution, AlreadyExecuting, ClaimExecution, ClaimRefused, WorkDone,
          WorkFails, LoseFence, TearDown, TearDownFails, Publish, PublishRefused, PublishFailure,
          CompleteOwned, DatabaseFails, ReleaseLock
    <3>2. ASSUME NEW p \in Replicas, Crash(p) PROVE recovery' = recovery \/ recovery'.pc = "idle"
      BY <3>2 DEF Crash, NoSweep
    <3>3. ASSUME Recovering, ~RecoverCommit PROVE recovery'.pc # "releasing"
      BY <3>3 DEF Recovering, RecoverFind, RecoverRelease, NoSweep
    <3>4. ASSUME Removing \/ FailingCi \/ RequestLost \/ \E o \in Ops : Lapse(o) PROVE recovery' = recovery
      BY <3>4
      DEF Removing, FailingCi, RequestLost, Lapse, RemoveRead, RemoveRetry, RemoveMark, CiFailureRead,
          CiFailureUnlock, CiFailureComplete
    <3> QED
      BY <3>1, <3>2, <3>3, <3>4 DEF Next
  <2> QED
    BY <2>1, <2>2, <2>3
<1> QED
  BY <1>1, <1>2, <1>3 DEF ClearersSound

(* Only a ci-retry is ever worked on by two processes. *)
LEMMA OneTaskStep ==
  ASSUME OpsInv, AloneInv, Next
  PROVE  OneTask'
<1>0. /\ \A r \in Runners, o \in Ops : TaskMove(r, o)
      /\ \A r \in Runners, o \in Ops : task[r][o].pc # "idle" => op[o].status # "absent"
      /\ \A o \in Ops : op[o].status # "absent" => op'[o].kind = op[o].kind
      /\ OneTask
  BY TasksMove, BegunStays DEF OpsInv, TasksSound, TaskSound, AloneInv
<1>1. ASSUME NEW r \in Runners, NEW s \in Runners, NEW o \in Ops,
             task'[r][o].pc # "idle", task'[s][o].pc # "idle", op'[o].kind # "ci-retry"
      PROVE  r = s
  <2> SUFFICES ASSUME r # s PROVE FALSE
    OBVIOUS
  <2>1. CASE task[r][o].pc # "idle" /\ task[s][o].pc # "idle"
    BY <1>0, <1>1, <2>1 DEF OneTask
  <2>2. ASSUME NEW x \in Runners, NEW y \in Runners, x # y,
               task[x][o].pc = "idle", task'[x][o].pc # "idle", task'[y][o].pc # "idle"
        PROVE  FALSE
    <3>1. task[y][o].pc # "idle"
      BY <1>0, <2>2 DEF TaskMove
    <3>2. op[o].status # "absent"
      BY <1>0, <3>1
    <3>3. op[o].kind = "ci-retry"
      BY <1>0, <2>2, <3>2 DEF TaskMove
    <3> QED
      BY <1>0, <1>1, <3>2, <3>3
  <2> QED
    BY <1>1, <2>1, <2>2
<1>2. ASSUME NEW r \in Runners, NEW o \in Ops, task'[r][o].pc \in {"dispatched", "claiming"}
      PROVE  op'[o].kind = "ci-retry"
  <2>1. op[o].kind = "ci-retry" /\ op[o].status # "absent"
    BY <1>0, <1>2 DEF TaskMove, OneTask
  <2> QED
    BY <1>0, <2>1
<1> QED
  BY <1>1, <1>2, Zenon DEF OneTask

(* Before the first ci-retry, who works on an operation keeps the lock. *)
LEMMA WorkersHoldStep ==
  ASSUME OpsInv, AloneInv, Next
  PROVE  WorkersHold'
<1> SUFFICES ASSUME NEW r \in Runners, NEW o \in Ops, task'[r][o].pc \in {"begun", "working"},
                    ~op'[o].finished, ~RetryBefore(o)', lock' # o
             PROVE  FALSE
  BY DEF WorkersHold
<1>0. /\ TaskMove(r, o) /\ RowsSound /\ OneTask /\ WorkersHold /\ ClearersSound
      /\ task[r][o].pc # "idle" => op[o].status # "absent"
      /\ \A q \in Ops : q \in Nat
  BY TasksMove DEF OpsInv, TasksSound, TaskSound, AloneInv, Ops
<1>1. /\ op[o].status # "absent"
      /\ task[r][o].pc \in {"begun", "claiming", "working"}
  BY <1>0 DEF TaskMove
<1>2. ~RetryBefore(o)
  <2> SUFFICES ASSUME NEW q \in Ops, q =< o, op[q].kind = "ci-retry" PROVE FALSE
    BY DEF RetryBefore
  <2>1. op[q].status # "absent"
    BY <1>0, <1>1 DEF RowsSound
  <2>2. op'[q].kind = "ci-retry"
    BY <2>1, BegunStays
  <2> QED
    BY <2>2 DEF RetryBefore
<1>3. op[o].kind # "ci-retry" /\ ~op[o].finished
  BY <1>0, <1>2, FinishedStays DEF RetryBefore
<1>4. lock = o
  BY <1>0, <1>1, <1>2, <1>3 DEF OneTask, WorkersHold
<1>5. Loses(o)
  BY <1>0, <1>4, LockLost DEF Ops
<1>6. ASSUME NEW s \in Runners, task[s][o].pc # "idle", task'[s][o].pc \notin {"begun", "working"}
      PROVE  FALSE
  BY <1>0, <1>1, <1>3, <1>6 DEF OneTask
<1>7. ASSUME removal.pc = "checked", removal.op \in Ops, op[removal.op].kind = "ci-retry"
      PROVE  FALSE
  BY <1>0, <1>2, <1>4, <1>7 DEF ClearersSound, RetryBefore, Ops
<1> QED
  BY <1>3, <1>5, <1>6, <1>7 DEF Loses

(* The additional invariant holds in every reachable state. *)
THEOREM AloneInvariance == Spec => []AloneInv
<1>1. Init => AloneInv
  BY DEF Init, AloneInv, NewestHolds, ClearersSound, OneTask, WorkersHold, Idle, NoSweep, NoRequest
<1>2. OpsInv /\ AloneInv /\ [Next]_vars => AloneInv'
  <2>1. CASE Next
    BY <2>1, NewestHoldsStep, ClearersStep, OneTaskStep, WorkersHoldStep DEF AloneInv
  <2>2. CASE UNCHANGED vars
    BY <2>2 DEF vars, AloneInv, NewestHolds, ClearersSound, OneTask, WorkersHold, RetryBefore
  <2> QED
    BY <2>1, <2>2
<1> QED
  BY <1>1, <1>2, OpsInvariance, PTL DEF Spec

(* claimExecution() gives every process a generation of its own, so that two workers *)
(* of one operation never pass assertExecution() together, in two processes or in    *)
(* one: but for two callbacks of a ci-retry that one process takes up at once, whose *)
(* second claim keeps the generation of the first.                                   *)
THEOREM TakeoverFences == Spec => []OneFencePerOperation
<1>1. OpsInv /\ AloneInv => OneFencePerOperation
  BY DEF OpsInv, FencesSound, AloneInv, OneTask, OneFencePerOperation, Working
<1> QED
  BY <1>1, OpsInvariance, AloneInvariance, PTL

\* Two operations are worked on at once only if a ci-retry is as old as the older one.
OvertakenOnlyAfterRetry ==
    \A o, p \in Ops : o < p /\ Active(o) /\ Active(p) => RetryBefore(o)

(* OneActiveOperation does not hold of the code.  This is what is left of it:   *)
(* until a ci-retry has been accepted for the environment, the lock that        *)
(* begin() takes keeps every other worker with a live lease out, whatever       *)
(* crashes, lapses, is recovered or cancelled.                                  *)
THEOREM OnlyRetriesAreOvertaken == Spec => []OvertakenOnlyAfterRetry
<1>1. ASSUME OpsInv, AloneInv PROVE OvertakenOnlyAfterRetry
  <2> SUFFICES ASSUME NEW o \in Ops, NEW p \in Ops, o < p, Active(o), Active(p), ~RetryBefore(o)
               PROVE  FALSE
    BY DEF OvertakenOnlyAfterRetry
  <2>1. PICK r \in Runners : task[r][o].pc = "working" /\ ~op[o].finished
    BY DEF Active, HoldsLease, OwnsExecution, Unfinished
  <2>2. lock = o
    BY <1>1, <2>1 DEF AloneInv, WorkersHold
  <2>3. PICK s \in Runners : task[s][p].pc = "working"
    BY DEF Active
  <2>4. lock # 0 /\ o \in Nat /\ p \in Nat
    BY <2>2 DEF Ops
  <2>5. p =< lock
    BY <1>1, <2>3, <2>4 DEF AloneInv, NewestHolds
  <2> QED
    BY <2>2, <2>4, <2>5
<1> QED
  BY <1>1, OpsInvariance, AloneInvariance, PTL

-----------------------------------------------------------------------------
(* ADR-022 says that no finished operation keeps the environment locked; the  *)
(* lock is released by a statement of its own, which may be lost              *)
(* (FinishedOperationReleasesLock).  What follows shows that nothing else     *)
(* leaves the lock behind.                                                    *)

\* A worker or recovery has finished the operation and is about to release its lock.
Releaser(o) ==
    \/ \E r \in Runners : At(r, o, "releasing")
    \/ recovery.pc = "releasing" /\ recovery.op = o

\* A finished operation keeps the lock, and nobody is left who would release it.
Stranded(o) == op[o].finished /\ lock = o /\ ~Releaser(o)

\* The statement that would have released the lock of the operation fails, or is
\* never sent, for its process crashes.
ReleaseLost(o) ==
    /\ lock' = lock
    /\ \/ \E r \in Runners : ReleaseLock(r, o)
       \/ \E r \in Runners : At(r, o, "releasing") /\ Crash(Process(r))
       \/ /\ recovery.pc = "releasing"
          /\ recovery.op = o
          /\ RecoverRelease \/ \E p \in Replicas : Crash(p)

\* Who lost the race never had the lock, and a ci-retry is failed after its unlock.
WithoutLock ==
    /\ \A r \in Runners, o \in Ops : At(r, o, "rejected") => lock # o
    /\ failure.pc = "completing" => lock # failure.op

(* No step gives the lock to an operation that has begun. *)
LEMMA LockNotRegained ==
  ASSUME OpsInv, Next, NEW o \in Ops, op[o].status # "absent", lock' = o
  PROVE  lock = o
<1>1. o # 0
  BY DEF Ops
<1> QED
  BY <1>1, LockStep DEF RowBegins

(* A task turns to a rejected one only as its operation begins without the lock. *)
LEMMA RejectedStep ==
  ASSUME OpsInv, Next, NEW r \in Runners, NEW o \in Ops,
         task[r][o].pc # "rejected", task'[r][o].pc = "rejected"
  PROVE  lock' # o
<1>0. /\ task \in [Runners -> [Ops -> Task]] /\ op \in [Ops -> Operation]
      /\ RowsSound
  BY DEF OpsInv, TypeOK
<1>1. ASSUME NEW s \in Runners, NEW kind \in Requested, Begin(s, kind) PROVE lock' # o
  <2>1. PICK p \in Ops : /\ op[p].status = "absent"
                         /\ \/ lock = 0 /\ lock' = p /\ Goto(s, p, "begun")
                            \/ lock # 0 /\ lock' = lock /\ Goto(s, p, "rejected")
    BY <1>1, Zenon DEF Begin
  <2>2. CASE Goto(s, p, "begun")
    BY <1>0, <2>2 DEF Goto
  <2>3. CASE lock # 0 /\ lock' = lock /\ Goto(s, p, "rejected")
    <3>1. o = p
      BY <1>0, <2>3 DEF Goto
    <3> QED
      BY <1>0, <2>1, <2>3, <3>1 DEF RowsSound
  <2> QED
    BY <2>1, <2>2, <2>3
<1>2. ASSUME NEW s \in Runners, NEW p \in Ops, NEW t, task' = [task EXCEPT ![s][p] = t], t.pc # "rejected"
      PROVE  FALSE
  BY <1>0, <1>2
<1>3. ASSUME NEW s \in Runners, NEW p \in Ops, NEW pc, Goto(s, p, pc), pc # "rejected"
      PROVE  FALSE
  BY <1>0, <1>3 DEF Goto
<1>4. ASSUME NEW s \in Runners, NEW p \in Ops, Done(s, p) PROVE FALSE
  BY <1>0, <1>4 DEF Done, Idle
<1>5. ASSUME NEW s \in Runners, NEW p \in Ops, ClaimExecution(s, p) PROVE FALSE
  BY <1>0, <1>5 DEF ClaimExecution, Task
<1>6. ASSUME NEW s \in Runners, NEW p \in Ops, TearDown(s, p) \/ PublishFailure(s, p) \/ Publish(s, p)
      PROVE  FALSE
  <2>1. PICK result : task' = [task EXCEPT ![s][p].pc = "completing", ![s][p].result = result]
    BY <1>6 DEF TearDown, PublishFailure, Publish
  <2>2. /\ task'[s][p].pc = "completing"
        /\ \A x \in Runners, y \in Ops : x # s \/ y # p => task'[x][y] = task[x][y]
    BY <1>0, <2>1 DEF Task
  <2> QED
    BY <2>2
<1>7. ASSUME NEW s \in Runners, NEW p \in Ops, CompleteOwned(s, p) PROVE FALSE
  BY <1>0, <1>7 DEF CompleteOwned, Idle
<1>8. ASSUME NEW s \in Runners, NEW p \in Ops, Execution(s, p) PROVE FALSE
  BY <1>3, <1>4, <1>5, <1>6, <1>7, <1>8, Zenon
  DEF Execution, CancelRejected, RevertBegin, AwaitWorkflow, RetryTagFails, EnterExecution, AlreadyExecuting,
      ClaimRefused, WorkDone, WorkFails,
      LoseFence, TearDownFails, PublishRefused, DatabaseFails, ReleaseLock, Leave
<1>9. ASSUME NEW s \in Runners, NEW p \in Ops, CiCallback(s, p) PROVE FALSE
  BY <1>3, <1>9 DEF CiCallback
<1>10. ASSUME NEW p \in Replicas, Crash(p) PROVE FALSE
  BY <1>0, <1>10 DEF Crash, Idle
<1>11. ASSUME \/ Recovering \/ Removing \/ FailingCi \/ RequestLost \/ \E p \in Ops : Lapse(p)
       PROVE  FALSE
  BY <1>11, Zenon
  DEF Recovering, Removing, FailingCi, RequestLost, Lapse, RecoverFind, RecoverCommit, RecoverRelease,
      RemoveRead, RemoveRetry, RemoveMark, CiFailureRead, CiFailureUnlock, CiFailureComplete
<1> QED
  BY <1>1, <1>8, <1>9, <1>10, <1>11 DEF Next, Asking

(* A ci-retry is completed as a failure only after its environment was unlocked. *)
LEMMA CompletingStep ==
  ASSUME OpsInv, WithoutLock, Next, failure'.pc = "completing"
  PROVE  /\ lock' # failure'.op
<1>0. /\ HandlersSound /\ TasksSound
      /\ failure \in Request
      /\ \A o \in Ops : o # 0
  BY DEF OpsInv, TypeOK, Ops
<1>1. ASSUME failure' = failure PROVE lock' # failure'.op
  BY <1>0, <1>1, LockNotRegained DEF WithoutLock, HandlersSound
<1>2. ASSUME NEW r \in Runners, NEW o \in Ops, RetryTagFails(r, o) PROVE lock' # failure'.op
  BY <1>0, <1>2 DEF RetryTagFails, Unlocked
<1>3. ASSUME NEW r \in Runners, NEW o \in Ops, Execution(r, o), ~RetryTagFails(r, o)
      PROVE  failure' = failure
  BY <1>3
  DEF Execution, CancelRejected, RevertBegin, AwaitWorkflow, EnterExecution,
      AlreadyExecuting, ClaimExecution, ClaimRefused, WorkDone,
      WorkFails, LoseFence, TearDown, TearDownFails, Publish, PublishRefused, PublishFailure, CompleteOwned,
      DatabaseFails, ReleaseLock
<1>4. ASSUME CiFailureUnlock PROVE lock' # failure'.op
  BY <1>0, <1>4 DEF CiFailureUnlock, Unlocked, HandlersSound, Request
<1>5. ASSUME CiFailureRead \/ CiFailureComplete PROVE FALSE
  BY <1>5 DEF CiFailureRead, CiFailureComplete, NoRequest
<1>6. ASSUME RequestLost PROVE failure' = failure
  BY <1>6 DEF RequestLost, NoRequest
<1>7. ASSUME Recovering \/ Removing \/ \E p \in Ops : Lapse(p) PROVE failure' = failure
  BY <1>7
  DEF Recovering, Removing, Lapse, RecoverFind, RecoverCommit, RecoverRelease, RemoveRead, RemoveRetry, RemoveMark
<1>8. ASSUME (\E r \in Runners : Asking(r)) \/ \E p \in Replicas : Crash(p) PROVE failure' = failure
  BY <1>8, Zenon DEF Asking, Begin, CiCallback, Crash
<1> QED
  BY <1>1, <1>2, <1>3, <1>4, <1>5, <1>6, <1>7, <1>8 DEF Next, FailingCi

(* Whoever finishes an operation has unlocked its environment, or is about to. *)
LEMMA FinishStep ==
  ASSUME OpsInv, WithoutLock, Next, NEW o \in Ops, ~op[o].finished, op'[o].finished, lock' = o
  PROVE  Releaser(o)'
<1>0. /\ task \in [Runners -> [Ops -> Task]] /\ op \in [Ops -> Operation]
      /\ HandlersSound /\ o # 0
      /\ recovery \in Sweep
  BY DEF OpsInv, TypeOK, Ops
<1>1. ASSUME NEW s \in Runners, NEW p \in Ops, CancelRejected(s, p) \/ RevertBegin(s, p) PROVE FALSE
  <2>1. o = p
    BY <1>0, <1>1 DEF CancelRejected, RevertBegin
  <2> QED
    BY <1>0, <1>1, <2>1 DEF CancelRejected, RevertBegin, Unlocked, WithoutLock
<1>2. ASSUME NEW s \in Runners, NEW p \in Ops, CompleteOwned(s, p) PROVE Releaser(o)'
  <2>1. o = p
    BY <1>0, <1>2 DEF CompleteOwned, Finished
  <2>2. task'[s][p].pc = "releasing"
    BY <1>0, <1>2 DEF CompleteOwned, Idle
  <2> QED
    BY <2>1, <2>2 DEF Releaser, At
<1>3. ASSUME NEW s \in Runners, NEW p \in Ops, Execution(s, p), ~CancelRejected(s, p), ~RevertBegin(s, p),
             ~CompleteOwned(s, p)
      PROVE  FALSE
  <2>1. CASE Leave(s, p)
    <3>1. op' = op \/ op' = [op EXCEPT ![p].owner = NoReplica, ![p].lease = "none"]
      BY <2>1 DEF Leave
    <3>2. CASE op' = [op EXCEPT ![p].owner = NoReplica, ![p].lease = "none"]
      BY <1>0, <3>2
    <3> QED
      BY <3>1, <3>2
  <2>2. CASE ClaimExecution(s, p)
    BY <1>0, <2>2 DEF ClaimExecution
  <2>3. CASE op' = op
    BY <2>3
  <2> QED
    BY <1>3, <2>1, <2>2, <2>3
    DEF Execution, AwaitWorkflow, RetryTagFails, EnterExecution, AlreadyExecuting, ClaimRefused,
        WorkDone, WorkFails, LoseFence, TearDown, TearDownFails, Publish, PublishRefused,
        PublishFailure, DatabaseFails, ReleaseLock
<1>4. ASSUME RecoverCommit PROVE Releaser(o)'
  BY <1>0, <1>4 DEF RecoverCommit, Finished, Releaser, HandlersSound, Sweep
<1>5. ASSUME RemoveRetry \/ RemoveMark PROVE FALSE
  <2>1. CASE RemoveRetry
    BY <1>0, <2>1 DEF RemoveRetry
  <2>2. CASE op' = [op EXCEPT ![removal.op].status = "cancelled"]
    BY <1>0, <2>2
  <2> QED
    BY <1>5, <2>1, <2>2 DEF RemoveMark
<1>6. ASSUME CiFailureComplete PROVE FALSE
  BY <1>0, <1>6 DEF CiFailureComplete, Finished, HandlersSound, WithoutLock
<1>7. ASSUME NEW s \in Runners, NEW kind \in Requested, Begin(s, kind) PROVE FALSE
  BY <1>0, <1>7 DEF Begin, NoOp
<1>8. ASSUME NEW p \in Ops, Lapse(p) PROVE FALSE
  BY <1>0, <1>8 DEF Lapse
<1>9. ASSUME \/ RecoverFind \/ RecoverRelease \/ RemoveRead \/ CiFailureRead \/ CiFailureUnlock \/ RequestLost
             \/ \E p \in Replicas : Crash(p)
             \/ \E r \in Runners, p \in Ops : CiCallback(r, p)
      PROVE  FALSE
  BY <1>9
  DEF RecoverFind, RecoverRelease, RemoveRead, CiFailureRead, CiFailureUnlock, RequestLost, Crash, CiCallback
<1> QED
  BY <1>1, <1>2, <1>3, <1>4, <1>5, <1>6, <1>7, <1>8, <1>9 DEF Next, Asking, Recovering, Removing, FailingCi

(* A worker about to release the lock is stopped only by its own statement, or by *)
(* a crash.                                                                       *)
LEMMA ReleasingTaskStep ==
  ASSUME OpsInv, Next, NEW r \in Runners, NEW o \in Ops,
         task[r][o].pc = "releasing", task'[r][o].pc # "releasing"
  PROVE  ReleaseLock(r, o) \/ Crash(Process(r))
<1>0. /\ task \in [Runners -> [Ops -> Task]] /\ op[o].status # "absent"
  BY DEF OpsInv, TypeOK, TasksSound, TaskSound
<1>1. ASSUME NEW s \in Runners, NEW kind \in Requested, Begin(s, kind) PROVE FALSE
  <2>1. PICK p \in Ops : op[p].status = "absent" /\ (Goto(s, p, "begun") \/ Goto(s, p, "rejected"))
    BY <1>1, Zenon DEF Begin
  <2> QED
    BY <1>0, <2>1 DEF Goto
<1>2. ASSUME NEW s \in Runners, NEW p \in Ops, NEW t, task' = [task EXCEPT ![s][p] = t], task[s][p].pc # "releasing"
      PROVE  FALSE
  BY <1>0, <1>2
<1>3. ASSUME NEW s \in Runners, NEW p \in Ops, NEW pc, Goto(s, p, pc), task[s][p].pc # "releasing"
      PROVE  FALSE
  BY <1>0, <1>3 DEF Goto
<1>4. ASSUME NEW s \in Runners, NEW p \in Ops, Done(s, p), task[s][p].pc # "releasing" PROVE FALSE
  BY <1>0, <1>4 DEF Done
<1>5. ASSUME NEW s \in Runners, NEW p \in Ops, ClaimExecution(s, p) PROVE FALSE
  BY <1>0, <1>5 DEF ClaimExecution, Claiming, At
<1>6. ASSUME NEW s \in Runners, NEW p \in Ops,
             TearDown(s, p) \/ PublishFailure(s, p) \/ Publish(s, p) \/ CompleteOwned(s, p)
      PROVE  FALSE
  BY <1>0, <1>6 DEF TearDown, PublishFailure, Publish, CompleteOwned, At
<1>7. ASSUME NEW s \in Runners, NEW p \in Ops,
             \/ CancelRejected(s, p) \/ RevertBegin(s, p) \/ AwaitWorkflow(s, p) \/ RetryTagFails(s, p)
             \/ AlreadyExecuting(s, p) \/ ClaimRefused(s, p) \/ LoseFence(s, p) \/ PublishRefused(s, p)
      PROVE  FALSE
  <2>1. Done(s, p) /\ task[s][p].pc # "releasing"
    BY <1>7
    DEF CancelRejected, RevertBegin, AwaitWorkflow, RetryTagFails, AlreadyExecuting, ClaimRefused, LoseFence,
        PublishRefused, Leave, Claiming, At
  <2> QED
    BY <1>4, <2>1
<1>8. ASSUME NEW s \in Runners, NEW p \in Ops,
             WorkDone(s, p) \/ WorkFails(s, p) \/ TearDownFails(s, p) \/ DatabaseFails(s, p)
      PROVE  FALSE
  <2>1. task[s][p].pc # "releasing" /\ (Done(s, p) \/ \E pc : Goto(s, p, pc))
    BY <1>8 DEF WorkDone, WorkFails, TearDownFails, DatabaseFails, Leave, At
  <2> QED
    BY <1>3, <1>4, <2>1
<1>9. ASSUME NEW s \in Runners, NEW p \in Ops, ReleaseLock(s, p) PROVE s = r /\ p = o
  BY <1>0, <1>9 DEF ReleaseLock, Done
<1>10. ASSUME NEW s \in Runners, NEW p \in Ops, CiCallback(s, p) \/ EnterExecution(s, p) PROVE FALSE
  BY <1>3, <1>10 DEF CiCallback, EnterExecution, At
<1>11. ASSUME NEW p \in Replicas, Crash(p) PROVE p = Process(r)
  BY <1>0, <1>11 DEF Crash
<1>12. ASSUME \/ Recovering \/ Removing \/ FailingCi \/ RequestLost \/ \E p \in Ops : Lapse(p)
       PROVE  FALSE
  BY <1>12, Zenon
  DEF Recovering, Removing, FailingCi, RequestLost, Lapse, RecoverFind, RecoverCommit, RecoverRelease,
      RemoveRead, RemoveRetry, RemoveMark, CiFailureRead, CiFailureUnlock, CiFailureComplete
<1> QED
  BY <1>1, <1>5, <1>6, <1>7, <1>8, <1>9, <1>10, <1>11, <1>12 DEF Next, Asking, Execution

(* So is recovery that is about to release the lock. *)
LEMMA ReleasingSweepStep ==
  ASSUME OpsInv, Next, recovery.pc = "releasing", recovery' # recovery
  PROVE  RecoverRelease \/ \E p \in Replicas : Crash(p)
<1>1. ASSUME NEW r \in Runners, NEW o \in Ops, Execution(r, o) PROVE FALSE
  BY <1>1
  DEF Execution, CancelRejected, RevertBegin, AwaitWorkflow, RetryTagFails, EnterExecution,
      AlreadyExecuting, ClaimExecution, ClaimRefused, WorkDone,
      WorkFails, LoseFence, TearDown, TearDownFails, Publish, PublishRefused, PublishFailure, CompleteOwned,
      DatabaseFails, ReleaseLock
<1>2. ASSUME \/ RecoverFind \/ RecoverCommit \/ Removing \/ FailingCi \/ RequestLost \/ \E p \in Ops : Lapse(p)
      PROVE  FALSE
  BY <1>2
  DEF Removing, FailingCi, RequestLost, Lapse, RecoverFind, RecoverCommit, RemoveRead, RemoveRetry, RemoveMark,
      CiFailureRead, CiFailureUnlock, CiFailureComplete
<1>3. ASSUME NEW r \in Runners, Asking(r) PROVE FALSE
  BY <1>3, Zenon DEF Asking, Begin, CiCallback
<1> QED
  BY <1>1, <1>2, <1>3 DEF Next, Recovering

(* Neither a loser of the race nor a failed ci-retry ever holds the lock. *)
THEOREM WithoutLockInvariance == Spec => []WithoutLock
<1>1. Init => WithoutLock
  BY DEF Init, WithoutLock, At, Idle, NoRequest
<1>2. OpsInv /\ WithoutLock /\ [Next]_vars => WithoutLock'
  <2>1. ASSUME OpsInv, WithoutLock, Next PROVE WithoutLock'
    <3>1. ASSUME NEW r \in Runners, NEW o \in Ops, At(r, o, "rejected")' PROVE lock' # o
      <4>1. task'[r][o].pc = "rejected"
        BY <3>1 DEF At
      <4>2. CASE task[r][o].pc = "rejected"
        BY <2>1, <4>2, LockNotRegained DEF WithoutLock, At, OpsInv, TasksSound, TaskSound
      <4> QED
        BY <2>1, <4>1, <4>2, RejectedStep
    <3> QED
      BY <2>1, <3>1, CompletingStep DEF WithoutLock
  <2>2. CASE UNCHANGED vars
    BY <2>2 DEF vars, WithoutLock, At
  <2> QED
    BY <2>1, <2>2
<1> QED
  BY <1>1, <1>2, OpsInvariance, PTL DEF Spec

\* The lock of an environment is left behind only by a lost release.
StrandedByLostRelease ==
    [][\A o \in Ops : Stranded(o)' /\ ~Stranded(o) => ReleaseLost(o)]_vars

(* FinishedOperationReleasesLock does not hold of the code.  This is what is     *)
(* left of it: whoever finishes an operation releases its lock first, in the     *)
(* same transaction or next, and the lock is left behind in one way only, which  *)
(* is that this last statement of completeOwned() or of recoverInterrupted()     *)
(* fails or is cut off by a crash.  No interleaving of workers, takeovers,       *)
(* callbacks, recovery and removals does it.                                     *)
THEOREM OnlyLostReleasesStrand == Spec => StrandedByLostRelease
<1>1. ASSUME OpsInv, WithoutLock, Next, NEW o \in Ops, Stranded(o)', ~Stranded(o) PROVE ReleaseLost(o)
  <2>0. op'[o].finished /\ lock' = o /\ ~Releaser(o)'
    BY <1>1 DEF Stranded
  <2>1. op[o].finished
    BY <1>1, <2>0, FinishStep
  <2>2. lock = o
    BY <1>1, <2>0, <2>1, LockNotRegained DEF OpsInv, TypeOK, Results
  <2>3. Releaser(o)
    BY <1>1, <2>1, <2>2 DEF Stranded
  <2>4. CASE \E r \in Runners : At(r, o, "releasing")
    <3>1. PICK r \in Runners : task[r][o].pc = "releasing"
      BY <2>4 DEF At
    <3>2. task'[r][o].pc # "releasing"
      BY <2>0 DEF Releaser, At
    <3> QED
      BY <1>1, <2>0, <2>2, <3>1, <3>2, ReleasingTaskStep DEF ReleaseLost, At
  <2>5. CASE recovery.pc = "releasing" /\ recovery.op = o
    <3>1. recovery' # recovery
      BY <2>0, <2>5 DEF Releaser
    <3> QED
      BY <1>1, <2>0, <2>2, <2>5, <3>1, ReleasingSweepStep DEF ReleaseLost
  <2> QED
    BY <2>3, <2>4, <2>5 DEF Releaser
<1>2. OpsInv /\ WithoutLock /\ [Next]_vars
        => [\A o \in Ops : Stranded(o)' /\ ~Stranded(o) => ReleaseLost(o)]_vars
  BY <1>1
<1> QED
  BY <1>2, OpsInvariance, WithoutLockInvariance, PTL DEF Spec, StrandedByLostRelease

=============================================================================
