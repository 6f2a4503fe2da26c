------------------------- MODULE DeploymentOperations -------------------------
(***************************************************************************)
(* The operations of one environment on a direct (SSH, SFTP, local Docker) *)
(* target: apps/api/src/projects/project-deployment-operations.ts and its  *)
(* callers.  Two protections are layered.  Environment.activeOperationId   *)
(* is the lock of the environment, taken when an operation begins.  The    *)
(* execution lease (owner, generation, expiry) of the operation says which *)
(* API process does its work; localExecutions is to keep the process from  *)
(* doing it twice.  Every statement is an action: a process may stop, be   *)
(* overtaken, or lose its lease between any two of them.                   *)
(***************************************************************************)
EXTENDS Naturals, FiniteSets

CONSTANTS
    MaxOps,         \* bound: operations ever begun, numbered by creation
    Replicas,       \* API processes; a restarted process is another one
    Lanes,          \* bound: tasks a process may have for one operation at a time
    NoReplica,      \* executionOwner: null
    Requested,      \* the kinds of operation that users and CI ask for
    MaxGeneration   \* bound: takeovers of a ci-retry operation

ASSUME OperationsAssumption ==
    /\ MaxOps \in Nat
    /\ MaxGeneration \in Nat
    /\ NoReplica \notin Replicas
    /\ Requested \subseteq {"deploy", "start", "stop", "remove", "ci-retry"}

VARIABLES
    lock,       \* Environment.activeOperationId, 0 when it is null
    op,         \* the DeploymentOperation rows
    task,       \* what each process is doing for each operation, lane by lane
    local,      \* localExecutions of each process
    recovery,   \* recoverInterrupted() of the leader, or of a starting process
    removal,    \* a user's remove() of an environment with an active operation
    failure,    \* publishCiFailure() of a ci-retry
    dead,       \* processes that crashed
    published   \* history: operations whose result was written to the environment

vars == <<lock, op, task, local, recovery, removal, failure, dead, published>>

Ops == 1..MaxOps

\* begin() starts one task for its operation; a ci-retry gets another one with every
\* callback.  A task runs in one of the processes.
Runners == Replicas \X Lanes

Process(r) == r[1]

Results == {"succeeded", "failed", "cancelled"}

\* "deploy" stands for deploy, promote, redeploy, rollback and ci-deploy.
Kinds == {"deploy", "start", "stop", "remove", "ci-retry"}

\* Run in the background, and look for a cancellation when the work is done.
Background == {"deploy", "start", "ci-retry"}

NoOp == [status |-> "absent", finished |-> FALSE, kind |-> "deploy",
         owner |-> NoReplica, generation |-> 0, lease |-> "none"]

Operation == [status : {"absent", "running"} \cup Results,
              finished : BOOLEAN,           \* finishedAt is set
              kind : Kinds,
              owner : Replicas \cup {NoReplica},
              generation : Nat,
              lease : {"none", "live", "lapsed"}]

Idle == [pc |-> "idle", generation |-> 0, result |-> "failed"]

Working == {"working", "tearing", "publishing", "failing", "completing"}

Waiting == {"idle", "begun", "rejected", "dispatched", "claiming"}

Task == [pc : Waiting \cup Working \cup {"releasing"},
         generation : Nat,
         result : Results]

\* A handler that is idle, or is about to act on an operation it has read.
NoSweep == [pc |-> "idle", op |-> 0, status |-> "absent", owner |-> NoReplica,
            generation |-> 0]

Sweep == [pc : {"idle", "found", "releasing"}, op : Nat,
          status : {"absent", "running"} \cup Results,
          owner : Replicas \cup {NoReplica}, generation : Nat]

NoRequest == [pc |-> "idle", op |-> 0]

Request == [pc : {"idle", "checked", "completing"}, op : 0..MaxOps]

(***************************************************************************)
(* The type invariant of the rows, the processes and the handlers.         *)
(***************************************************************************)
TypeOK ==
    /\ lock \in 0..MaxOps
    /\ op \in [Ops -> Operation]
    /\ \A o \in Ops : op[o].finished => op[o].status \in Results
    /\ task \in [Runners -> [Ops -> Task]]
    /\ local \in [Replicas -> SUBSET Ops]
    /\ recovery \in Sweep
    /\ removal \in Request
    /\ failure \in Request
    /\ dead \subseteq Replicas
    /\ published \subseteq Ops

Init ==
    /\ lock = 0
    /\ op = [o \in Ops |-> NoOp]
    /\ task = [r \in Runners |-> [o \in Ops |-> Idle]]
    /\ local = [p \in Replicas |-> {}]
    /\ recovery = NoSweep
    /\ removal = NoRequest
    /\ failure = NoRequest
    /\ dead = {}
    /\ published = {}

-----------------------------------------------------------------------------

At(r, o, pc) == task[r][o].pc = pc

Goto(r, o, pc) == task' = [task EXCEPT ![r][o].pc = pc]

\* Task (r, o) is over: its execution context is gone.
Done(r, o) == task' = [task EXCEPT ![r][o] = Idle]

\* environment.updateMany({ where: { activeOperationId: o } }, null)
Unlocked(o) == IF lock = o THEN 0 ELSE lock

Unfinished(o) == op[o].status \in {"running", "cancelled"} /\ ~op[o].finished

\* The owner and generation of the execution context are the stored ones.
SameFence(r, o) ==
    /\ op[o].owner = Process(r)
    /\ op[o].generation = task[r][o].generation

OwnsExecution(r, o) == Unfinished(o) /\ SameFence(r, o)

\* assertExecution() succeeds, by renewing the lease.
HoldsLease(r, o) == OwnsExecution(r, o) /\ op[o].lease = "live"

\* Mutant: the result is left out of the update.
FinishedWithoutResult(o, result) ==
    [op EXCEPT ![o].finished = TRUE, ![o].owner = NoReplica, ![o].lease = "none"]

Finished(o, result) ==
    [op EXCEPT ![o].status = result, ![o].finished = TRUE,
               ![o].owner = NoReplica, ![o].lease = "none"]

-----------------------------------------------------------------------------
(* begin() *)

\* The transaction: the operation is created, and takes the lock if it is free.
Begin(r, kind) ==
    \E o \in Ops :
        /\ op[o].status = "absent"
        /\ \A p \in Ops : p < o => op[p].status # "absent"
        /\ op' = [op EXCEPT ![o] = [NoOp EXCEPT !.status = "running", !.kind = kind]]
        /\ IF lock = 0
           THEN /\ lock' = o
                /\ Goto(r, o, "begun")
           ELSE /\ lock' = lock
                /\ Goto(r, o, "rejected")
        /\ UNCHANGED <<local, recovery, removal, failure, dead, published>>

\* The loser of the race is cancelled by a statement of its own.
CancelRejected(r, o) ==
    /\ At(r, o, "rejected")
    /\ op' = [op EXCEPT ![o].status = "cancelled", ![o].finished = TRUE]
    /\ Done(r, o)
    /\ UNCHANGED <<lock, local, recovery, removal, failure, dead, published>>

\* The audit record fails, or the approved production state has changed.
RevertBegin(r, o) ==
    /\ At(r, o, "begun")
    /\ op' = [op EXCEPT ![o].status = "cancelled", ![o].finished = TRUE]
    /\ lock' = Unlocked(o)
    /\ Done(r, o)
    /\ UNCHANGED <<local, recovery, removal, failure, dead, published>>

\* runAgain(): a ci-retry waits for the workflow that its tag has started.
AwaitWorkflow(r, o) ==
    /\ At(r, o, "begun")
    /\ op[o].kind = "ci-retry"
    /\ Done(r, o)
    /\ UNCHANGED <<lock, op, local, recovery, removal, failure, dead, published>>

\* createRetryTag() throws: as when the workflow fails, the environment is
\* unlocked, and then the operation completed.
RetryTagFails(r, o) ==
    /\ At(r, o, "begun")
    /\ op[o].kind = "ci-retry"
    /\ failure.pc = "idle"
    /\ lock' = Unlocked(o)
    /\ failure' = [pc |-> "completing", op |-> o]
    /\ Done(r, o)
    /\ UNCHANGED <<op, local, recovery, removal, dead, published>>

\* The call of createRetryTag() is over, so that its workflow can have run.
TagCreated(o) == \A r \in Runners : ~At(r, o, "begun")

\* deployFromCi(): the workflow of a ci-retry succeeded.  Deliveries may repeat.
CiCallback(r, o) ==
    /\ TagCreated(o)
    /\ lock = o
    /\ op[o].kind = "ci-retry"
    /\ op[o].status = "running"
    /\ op[o].generation < MaxGeneration
    /\ At(r, o, "idle")
    /\ Goto(r, o, "dispatched")
    /\ UNCHANGED <<lock, op, local, recovery, removal, failure, dead, published>>

-----------------------------------------------------------------------------
(* runWithExecutionLease() *)

\* localExecutions.has(): the process does not yet work for the operation, as far as
\* it knows.  It adds the operation only when its claim has been answered.
EnterExecution(r, o) ==
    /\ At(r, o, "dispatched")
    /\ o \notin local[Process(r)]
    /\ Goto(r, o, "claiming")
    /\ UNCHANGED <<lock, op, local, recovery, removal, failure, dead, published>>

\* "Deployment operation is already executing in this API process"
AlreadyExecuting(r, o) ==
    /\ At(r, o, "dispatched")
    /\ o \in local[Process(r)]
    /\ Done(r, o)
    /\ UNCHANGED <<lock, op, local, recovery, removal, failure, dead, published>>

\* Past localExecutions, which cannot hold an operation that has just begun.
Claiming(r, o) ==
    \/ At(r, o, "claiming")
    \/ At(r, o, "begun") /\ op[o].kind # "ci-retry"

\* Mutant: finishedAt is not looked at, and a cancelled operation can be claimed.
ClaimableWhenCancelled(r, o) ==
    /\ op[o].status \in {"running", "cancelled"}
    /\ op[o].owner \in {NoReplica, Process(r)} \/ op[o].lease = "lapsed"

Claimable(r, o) ==
    /\ Unfinished(o)
    /\ op[o].owner \in {NoReplica, Process(r)} \/ op[o].lease = "lapsed"

\* Mutant: a takeover keeps the generation.
ClaimExecutionOldGeneration(r, o) ==
    /\ Claiming(r, o)
    /\ Claimable(r, o)
    /\ op' = [op EXCEPT ![o].owner = Process(r), ![o].lease = "live"]
    /\ task' = [task EXCEPT ![r][o].pc = "working",
                            ![r][o].generation = op[o].generation]
    /\ local' = [local EXCEPT ![Process(r)] = @ \cup {o}]
    /\ UNCHANGED <<lock, recovery, removal, failure, dead, published>>

\* claimExecution(): every change of owner is a new generation.  A second claim of
\* the same process keeps it.
ClaimExecution(r, o) ==
    LET generation == IF op[o].owner = Process(r) THEN op[o].generation
                                                  ELSE op[o].generation + 1 IN
    /\ Claiming(r, o)
    /\ Claimable(r, o)
    /\ op' = [op EXCEPT ![o].owner = Process(r), ![o].generation = generation,
                        ![o].lease = "live"]
    /\ task' = [task EXCEPT ![r][o].pc = "working", ![r][o].generation = generation]
    /\ local' = [local EXCEPT ![Process(r)] = @ \cup {o}]
    /\ UNCHANGED <<lock, recovery, removal, failure, dead, published>>

ClaimRefused(r, o) ==
    /\ Claiming(r, o)
    /\ ~Claimable(r, o)
    /\ Done(r, o)
    /\ UNCHANGED <<lock, op, local, recovery, removal, failure, dead, published>>

\* The finally block: the process forgets that it works for the operation, also when
\* another of its tasks does.
Forget(r, o) == local' = [local EXCEPT ![Process(r)] = @ \ {o}]

\* It goes on with releaseExecution(), whose failure is ignored.  (One step: a callback
\* that comes in between, and then claims and loses the row to this release, might as
\* well have passed localExecutions before.)
Leave(r, o) ==
    /\ \/ op' = IF SameFence(r, o)
                THEN [op EXCEPT ![o].owner = NoReplica, ![o].lease = "none"]
                ELSE op
       \/ op' = op
    /\ Done(r, o)
    /\ Forget(r, o)

\* deploy() or teardown() of the provider returns.  Then cancelled() asserts the
\* lease and reads the status; stop() and remove() only assert the lease.
WorkDone(r, o) ==
    /\ At(r, o, "working")
    /\ HoldsLease(r, o)
    /\ Goto(r, o, IF op[o].kind \in Background /\ op[o].status = "cancelled"
                  THEN "tearing" ELSE "publishing")
    /\ UNCHANGED <<lock, op, local, recovery, removal, failure, dead, published>>

\* The provider throws; the catch branch asserts the lease.
WorkFails(r, o) ==
    /\ At(r, o, "working")
    /\ HoldsLease(r, o)
    /\ Goto(r, o, "failing")
    /\ UNCHANGED <<lock, op, local, recovery, removal, failure, dead, published>>

\* assertExecution() throws: "Never publish failure from a worker that cannot
\* prove its execution fence."
LoseFence(r, o) ==
    /\ task[r][o].pc \in {"working", "tearing", "completing"}
    /\ ~HoldsLease(r, o)
    /\ Leave(r, o)
    /\ UNCHANGED <<lock, recovery, removal, failure, dead, published>>

\* A cancelled deployment is torn down; emptyState() also unlocks.
TearDown(r, o) ==
    /\ At(r, o, "tearing")
    /\ lock' = Unlocked(o)
    /\ task' = [task EXCEPT ![r][o].pc = "completing", ![r][o].result = "cancelled"]
    /\ UNCHANGED <<op, local, recovery, removal, failure, dead, published>>

\* The teardown throws, into the same catch branch.
TearDownFails(r, o) ==
    /\ At(r, o, "tearing")
    /\ HoldsLease(r, o)
    /\ Goto(r, o, "failing")
    /\ UNCHANGED <<lock, op, local, recovery, removal, failure, dead, published>>

\* Mutant: the environment is updated by its id alone.
PublishUnlocked(r, o) ==
    /\ At(r, o, "publishing")
    /\ published' = published \cup {o}
    /\ task' = [task EXCEPT ![r][o].pc = "completing", ![r][o].result = "succeeded"]
    /\ UNCHANGED <<lock, op, local, recovery, removal, failure, dead>>

\* Mutant: no kind of operation looks at published.count.
PublishUncounted(r, o) ==
    /\ At(r, o, "publishing")
    /\ published' = IF lock = o THEN published \cup {o} ELSE published
    /\ task' = [task EXCEPT ![r][o].pc = "completing", ![r][o].result = "succeeded"]
    /\ UNCHANGED <<lock, op, local, recovery, removal, failure, dead>>

\* The result is written where activeOperationId is still this operation.
\* start() does not look whether a row was written, and succeeds all the same.
Publish(r, o) ==
    /\ At(r, o, "publishing")
    /\ lock = o \/ op[o].kind = "start"
    /\ published' = IF lock = o THEN published \cup {o} ELSE published
    /\ task' = [task EXCEPT ![r][o].pc = "completing", ![r][o].result = "succeeded"]
    /\ UNCHANGED <<lock, op, local, recovery, removal, failure, dead>>

\* published.count is 0: the worker gives up without completing the operation.
PublishRefused(r, o) ==
    /\ At(r, o, "publishing")
    /\ lock # o
    /\ op[o].kind # "start"
    /\ Leave(r, o)
    /\ UNCHANGED <<lock, recovery, removal, failure, dead, published>>

\* A failed deployment or start releases the lock here, if the statement does not
\* fail; a failed stop or remove releases it with its completion.
PublishFailure(r, o) ==
    /\ At(r, o, "failing")
    /\ \/ lock' = lock
       \/ op[o].kind \in Background /\ lock' = Unlocked(o)
    /\ task' = [task EXCEPT ![r][o].pc = "completing", ![r][o].result = "failed"]
    /\ UNCHANGED <<op, local, recovery, removal, failure, dead, published>>

\* completeOwned(): the compare-and-set.  The lease was asserted just before and
\* may have lapsed since.  (LoseFence is the assertion, or the set, failing.)
CompleteOwned(r, o) ==
    /\ At(r, o, "completing")
    /\ OwnsExecution(r, o)
    /\ op' = Finished(o, task[r][o].result)
    /\ task' = [task EXCEPT ![r][o] = [Idle EXCEPT !.pc = "releasing"]]
    /\ UNCHANGED <<lock, local, recovery, removal, failure, dead, published>>

\* A statement fails.  A background task is then in its catch branch, unless it
\* was there already; a stop or remove is over.
DatabaseFails(r, o) ==
    /\ \/ task[r][o].pc \in {"publishing", "completing"}
       \/ At(r, o, "failing") /\ op[o].kind \notin Background
    /\ IF /\ op[o].kind \in Background
          /\ HoldsLease(r, o)
          /\ ~(At(r, o, "completing") /\ task[r][o].result = "failed")
       THEN Goto(r, o, "failing") /\ op' = op /\ local' = local
       ELSE Leave(r, o)
    /\ UNCHANGED <<lock, recovery, removal, failure, dead, published>>

\* The rest of completeOwned(): a statement of its own, which may fail.
ReleaseLock(r, o) ==
    /\ At(r, o, "releasing")
    /\ lock' \in {lock, Unlocked(o)}
    /\ Done(r, o)
    /\ Forget(r, o)
    /\ UNCHANGED <<op, recovery, removal, failure, dead, published>>

\* The process could not renew the lease in time: it stopped, or only stalled.
Lapse(o) ==
    /\ op[o].lease = "live"
    /\ ~op[o].finished
    /\ op' = [op EXCEPT ![o].lease = "lapsed"]
    /\ UNCHANGED <<lock, task, local, recovery, removal, failure, dead, published>>

-----------------------------------------------------------------------------
(* recoverInterrupted(), at startup and in the sweep of the leader. *)

\* Mutant: only operations that somebody once took are recovered.
InterruptedOwned(o) == Unfinished(o) /\ op[o].lease = "lapsed"

\* The lease ran out, or nobody ever took it (the 90 s grace of that case is
\* no guarantee, so it is not modelled).
Interrupted(o) ==
    /\ Unfinished(o)
    /\ \/ op[o].lease = "lapsed"
       \/ /\ op[o].owner = NoReplica
          /\ op[o].lease = "none"
          /\ op[o].kind # "ci-retry"

RecoverFind ==
    /\ recovery.pc = "idle"
    /\ \E o \in Ops :
        /\ Interrupted(o)
        /\ recovery' = [pc |-> "found", op |-> o, status |-> op[o].status,
                        owner |-> op[o].owner, generation |-> op[o].generation]
    /\ UNCHANGED <<lock, op, task, local, removal, failure, dead, published>>

\* Mutant: the compare-and-set looks at the status alone.
AsFoundByStatus ==
    /\ Unfinished(recovery.op)
    /\ op[recovery.op].status = recovery.status

\* The row is as it was found, and still interrupted.
AsFound ==
    LET o == recovery.op IN
    /\ Interrupted(o)
    /\ op[o].status = recovery.status
    /\ op[o].owner = recovery.owner
    /\ op[o].generation = recovery.generation

RecoverCommit ==
    /\ recovery.pc = "found"
    /\ IF AsFound
       THEN /\ op' = Finished(recovery.op,
                              IF recovery.status = "cancelled"
                              THEN "cancelled" ELSE "failed")
            /\ recovery' = [recovery EXCEPT !.pc = "releasing"]
       ELSE /\ op' = op
            /\ recovery' = NoSweep
    /\ UNCHANGED <<lock, task, local, removal, failure, dead, published>>

\* The environment becomes empty or failed, and is unlocked, by another statement,
\* whose failure is only logged.
RecoverRelease ==
    /\ recovery.pc = "releasing"
    /\ lock' \in {lock, Unlocked(recovery.op)}
    /\ recovery' = NoSweep
    /\ UNCHANGED <<op, task, local, removal, failure, dead, published>>

-----------------------------------------------------------------------------
(* remove() while an operation is active: it reads the environment and the *)
(* operation, then writes both without looking again.                      *)

RemoveRead ==
    /\ removal.pc = "idle"
    /\ lock # 0
    /\ removal' = [pc |-> "checked", op |-> lock]
    /\ UNCHANGED <<lock, op, task, local, recovery, failure, dead, published>>

\* A ci-retry is finished and the environment emptied, in one transaction.  (The
\* complete() after it finds nothing left to do.)
RemoveRetry ==
    LET o == removal.op IN
    /\ removal.pc = "checked"
    /\ op[o].kind = "ci-retry"
    /\ op' = [op EXCEPT ![o].status = "cancelled", ![o].finished = TRUE]
    /\ lock' = 0
    /\ removal' = NoRequest
    /\ UNCHANGED <<task, local, recovery, failure, dead, published>>

\* Another operation is marked, for its worker to notice.
RemoveMark ==
    LET o == removal.op IN
    /\ removal.pc = "checked"
    /\ op[o].kind # "ci-retry"
    /\ op' = [op EXCEPT ![o].status = "cancelled"]
    /\ removal' = NoRequest
    /\ UNCHANGED <<lock, task, local, recovery, failure, dead, published>>

-----------------------------------------------------------------------------
(* publishCiFailure() of a ci-retry. *)

CiFailureRead ==
    /\ failure.pc = "idle"
    /\ lock # 0
    /\ TagCreated(lock)
    /\ op[lock].kind = "ci-retry"
    /\ op[lock].status = "running"
    /\ failure' = [pc |-> "checked", op |-> lock]
    /\ UNCHANGED <<lock, op, task, local, recovery, removal, dead, published>>

CiFailureUnlock ==
    /\ failure.pc = "checked"
    /\ lock' = Unlocked(failure.op)
    /\ failure' = [failure EXCEPT !.pc = "completing"]
    /\ UNCHANGED <<op, task, local, recovery, removal, dead, published>>

\* complete() outside an execution context: only an operation without an owner.
\* A failed statement is swallowed.  (The lock it then releases again is gone.)
CiFailureComplete ==
    /\ failure.pc = "completing"
    /\ LET o == failure.op IN
       \/ op' = IF op[o].owner = NoReplica /\ ~op[o].finished
                THEN Finished(o, "failed") ELSE op
       \/ op' = op
    /\ failure' = NoRequest
    /\ UNCHANGED <<lock, task, local, recovery, removal, dead, published>>

\* Either request dies with its process, or with the database connection.
RequestLost ==
    /\ \/ removal # NoRequest /\ removal' = NoRequest /\ failure' = failure
       \/ failure # NoRequest /\ failure' = NoRequest /\ removal' = removal
    /\ UNCHANGED <<lock, op, task, local, recovery, dead, published>>

-----------------------------------------------------------------------------

\* A process dies with everything it was doing; another one survives it.
Crash(p) ==
    /\ p \notin dead
    /\ \E q \in Replicas : q \notin dead \cup {p}
    /\ dead' = dead \cup {p}
    /\ task' = [r \in Runners |-> IF Process(r) = p THEN [o \in Ops |-> Idle] ELSE task[r]]
    /\ local' = [local EXCEPT ![p] = {}]
    /\ recovery' \in {recovery, NoSweep}   \* it was the process that sweeps, or not
    /\ UNCHANGED <<lock, op, removal, failure, published>>

Asking(r) ==
    \/ \E kind \in Requested : Begin(r, kind)
    \/ \E o \in Ops : CiCallback(r, o)

Execution(r, o) ==
    \/ CancelRejected(r, o)
    \/ RevertBegin(r, o)
    \/ AwaitWorkflow(r, o)
    \/ RetryTagFails(r, o)
    \/ EnterExecution(r, o)
    \/ AlreadyExecuting(r, o)
    \/ ClaimExecution(r, o)
    \/ ClaimRefused(r, o)
    \/ WorkDone(r, o)
    \/ WorkFails(r, o)
    \/ LoseFence(r, o)
    \/ TearDown(r, o)
    \/ TearDownFails(r, o)
    \/ Publish(r, o)
    \/ PublishRefused(r, o)
    \/ PublishFailure(r, o)
    \/ CompleteOwned(r, o)
    \/ DatabaseFails(r, o)
    \/ ReleaseLock(r, o)

Recovering ==
    \/ RecoverFind
    \/ RecoverCommit
    \/ RecoverRelease

Removing == RemoveRead \/ RemoveRetry \/ RemoveMark

FailingCi == CiFailureRead \/ CiFailureUnlock \/ CiFailureComplete

Next ==
    \/ \E r \in Runners :
        /\ Process(r) \notin dead
        /\ Asking(r) \/ \E o \in Ops : Execution(r, o)
    \/ \E p \in Replicas : Crash(p)
    \/ Recovering
    \/ Removing
    \/ FailingCi
    \/ RequestLost
    \/ \E o \in Ops : Lapse(o)

Spec == Init /\ [][Next]_vars

-----------------------------------------------------------------------------
(* Fairness: a process that lives finishes what it started (provider calls  *)
(* have timeouts), the recovery sweep of a living process comes round again, *)
(* handlers are answered, and a lease nobody renews runs out.                *)

Renewed(o) == \E r \in Runners : OwnsExecution(r, o) /\ task[r][o].pc \in Working

Fairness ==
    /\ \A r \in Runners, o \in Ops : WF_vars(Process(r) \notin dead /\ Execution(r, o))
    /\ WF_vars(Recovering)
    /\ \A o \in Ops : WF_vars(~Renewed(o) /\ Lapse(o))

FairSpec == Spec /\ Fairness

-----------------------------------------------------------------------------
(* Properties *)

\* A deployment, stop or remove is reported as succeeded only if its result
\* went into the environment (execute() checks published.count).  start() does
\* not look at the count, so it is left out.
SuccessWasPublished ==
    \A o \in Ops :
        op[o].status = "succeeded" /\ op[o].kind # "start" => o \in published

\* Two workers of one operation differ in generation, so that at most one of them
\* passes assertExecution(): a takeover fences the other.  The one exception is two
\* callbacks of a ci-retry that one process takes up at the same time: both are past
\* localExecutions before either is in it, and the second claim keeps the generation.
OneFencePerOperation ==
    \A r, s \in Runners, o \in Ops :
        /\ r # s
        /\ task[r][o].pc \in Working
        /\ task[s][o].pc \in Working
        /\ task[r][o].generation = task[s][o].generation
        => Process(r) = Process(s) /\ op[o].kind = "ci-retry"

\* "zastaraly worker neprepise novejsi stav" (ADR-022): no worker, however late,
\* writes its result over the result of an operation that began after its own.
NewerStateSurvives ==
    [][\A o \in published' \ published : \A p \in published : p < o]_vars

\* "Recovery meni pouze prokazatelne expirovanou nebo starou legacy operaci"
\* (ADR-126): an operation whose lease is live is failed by its own worker only,
\* although recovery commits some time after it has looked at the row.
LiveExecutionIsNotRecovered ==
    [][\A o \in Ops :
         /\ op[o].lease = "live"
         /\ ~op[o].finished
         /\ op'[o].finished
         /\ op'[o].status = "failed"
         => \E r \in Runners : /\ OwnsExecution(r, o)
                               /\ task'[r][o].pc = "releasing"]_vars

\* "Cancel ji ukonci, takze pozdni callback nic nenasadi" (ADR-032): no callback,
\* even one accepted before, starts to work for an operation that has finished.
LateCallbackDeploysNothing ==
    [][\A r \in Runners, o \in Ops :
         op[o].finished /\ ~At(r, o, "working") => task'[r][o].pc # "working"]_vars

\* Whatever crashes or loses its lease, every operation but a waiting ci-retry is
\* brought to an end: by its worker, or by recoverInterrupted().
OperationsFinish ==
    \A o \in Ops :
        op[o].status = "running" /\ op[o].kind # "ci-retry" ~> op[o].finished

-----------------------------------------------------------------------------
(* What the documentation says and the code does not keep. *)

\* ADR-022: the database allows at most one active operation per environment.
\* Active: a worker with a live lease is doing the provider's work for it.
Active(o) ==
    \E r \in Runners : task[r][o].pc = "working" /\ HoldsLease(r, o)

OneActiveOperation ==
    \A o, p \in Ops : Active(o) /\ Active(p) => o = p

\* ADR-022: orphaned operations are marked as interrupted and the environment
\* returns to a consistent state.  Nothing but begin() needs the lock, and
\* begin() is refused as long as a finished operation keeps it.
FinishedOperationReleasesLock ==
    \A o \in Ops : op[o].finished /\ lock = o ~> lock # o

\* The comment in remove(): "A CI retry is only waiting for the SCM workflow.
\* Finish it synchronously so an eventual callback cannot revive this
\* environment."  When remove() empties the environment, nobody deploys to it.
CiRetryOnlyWaits ==
    [][\A o \in Ops :
         /\ op[o].kind = "ci-retry"
         /\ ~op[o].finished
         /\ op'[o].finished
         /\ op'[o].status = "cancelled"
         /\ removal # removal'
         => ~Active(o)]_vars

=============================================================================
