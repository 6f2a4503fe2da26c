--------------------------- MODULE AgentLeaseProofs ---------------------------
(***************************************************************************)
(* Proofs about AgentLease, for every number of jobs, agents, requests and *)
(* leases and every lease time.  The inductive invariant IInv says what a  *)
(* worker and a request in flight may still rely on, however old they are: *)
(* a token never runs ahead of the row, and an answer that is about to be  *)
(* sent is already the final outcome of the row.                           *)
(***************************************************************************)
EXTENDS AgentLease, TLAPS

\* What a claim handler or an agent remembers is from the past of the row.
SoundWorker(w) ==
    worker[w].phase # "idle" =>
        /\ worker[w].job \in Jobs
        /\ worker[w].now =< clock
        /\ worker[w].phase # "claiming" =>
             worker[w].token =< job[worker[w].job].attempt
        /\ worker[w].phase = "reporting" => worker[w].outcome \in Outcomes

WorkerSound == \A w \in Workers : SoundWorker(w)

\* A request to complete carries an outcome; one about to be answered with 200
\* names the stored outcome of the current attempt.
SoundCall(c) ==
    /\ c.kind \in {"complete", "replay", "answer"} => c.outcome \in Outcomes
    /\ c.kind = "answer" =>
         /\ job[c.job].attempt = c.token
         /\ job[c.job].status = c.outcome

CallSound == \A c \in calls : SoundCall(c)

IInv ==
    /\ TypeOK
    /\ WorkerSound
    /\ CallSound
    /\ OneHolderPerToken
    /\ AckedOutcomeStands

\* What one step may do to the rows.
RowAdvances(j) ==
    /\ job'[j].attempt >= job[j].attempt
    /\ job[j].status \in Terminal => job'[j] = job[j]
    /\ job'[j].attempt = job[j].attempt => job'[j].sequence >= job[j].sequence
    /\ job[j].status = "leased" /\ job'[j].attempt # job[j].attempt
         => job[j].expires =< clock

-----------------------------------------------------------------------------
(* The initial state satisfies the invariant. *)
LEMMA InitSound == Init => IInv
  BY LeaseAssumption
  DEF Init, IInv, TypeOK, WorkerSound, SoundWorker, CallSound, SoundCall, OneHolderPerToken, AckedOutcomeStands,
      JobRow, NoJob, Idle, WorkerState, Verdicts, Outcomes, Terminal

(* Cancelling keeps the attempt and the progress, and spares a decided row.   *)
LEMMA WithdrawnRow ==
  ASSUME NEW row \in JobRow
  PROVE  /\ Withdrawn(row) \in JobRow
         /\ Withdrawn(row).attempt = row.attempt
         /\ Withdrawn(row).sequence = row.sequence
         /\ row.status \notin {"queued", "leased"} => Withdrawn(row) = row
         /\ row.status \in {"queued", "leased"} => Withdrawn(row).status = "cancelled"
  BY DEF Withdrawn, JobRow, Terminal, Outcomes

(* The rows only ever advance: this is where the where-clauses of             *)
(* AgentJobLeases do their work.                                              *)
LEMMA RowsAdvance ==
  ASSUME IInv, Next, NEW k \in Jobs
  PROVE  RowAdvances(k)
<1> USE DEF IInv
<1>0. ASSUME UNCHANGED job PROVE RowAdvances(k)
  BY <1>0 DEF RowAdvances, TypeOK, JobRow
<1>1. ASSUME NEW j \in Jobs, Enqueue(j) PROVE RowAdvances(k)
  BY <1>1 DEF Enqueue, RowAdvances, TypeOK, JobRow, Terminal, Outcomes
<1>2. ASSUME NEW j \in Jobs, CancelJob(j) PROVE RowAdvances(k)
  BY <1>2 DEF CancelJob, Withdrawn, RowAdvances, TypeOK, JobRow, Terminal, Outcomes
<1>3. ASSUME Disconnect PROVE RowAdvances(k)
  <2>1. job[k] \in JobRow /\ job'[k] = Withdrawn(job[k])
    BY <1>3 DEF Disconnect, TypeOK
  <2> QED
    BY <2>1, WithdrawnRow DEF RowAdvances, JobRow, Terminal, Outcomes
<1>4. ASSUME NEW w \in Workers, GrantLease(w) PROVE RowAdvances(k)
  BY <1>4 DEF GrantLease, StillClaimable, WorkerSound, SoundWorker, RowAdvances, TypeOK, JobRow,
              WorkerState, Terminal, Outcomes
<1>5. ASSUME NEW w \in Workers, FailInvalidDelivery(w) PROVE RowAdvances(k)
  BY <1>5 DEF FailInvalidDelivery, ActiveLease, BoundLease, RowAdvances, TypeOK, JobRow,
              Terminal, Outcomes
<1>6. ASSUME NEW c \in calls, RenewLease(c) PROVE RowAdvances(k)
  BY <1>6 DEF RenewLease, ActiveLease, BoundLease, RowAdvances, TypeOK, JobRow,
              Terminal, Outcomes
<1>7. ASSUME NEW c \in calls, RecordProgress(c) PROVE RowAdvances(k)
  BY <1>7 DEF RecordProgress, ActiveLease, BoundLease, RowAdvances, TypeOK, JobRow,
              Call, Terminal, Outcomes
<1>8. ASSUME NEW c \in calls, CompleteJob(c) PROVE RowAdvances(k)
  BY <1>8 DEF CompleteJob, ActiveLease, BoundLease, RowAdvances, TypeOK, JobRow,
              Terminal, Outcomes
<1>9. ASSUME Enroll \/ Tick PROVE RowAdvances(k)
  BY <1>9, <1>0 DEF Enroll, Tick
<1>10. ASSUME NEW w \in Workers,
              \/ ClaimRead(w) \/ ClaimRaced(w) \/ Deliver(w) \/ RejectDelivery(w)
              \/ Working(w)
       PROVE  RowAdvances(k)
  BY <1>10, <1>0 DEF ClaimRead, ClaimRaced, Deliver, RejectDelivery, Working, SendRenew,
              SendProgress, FinishWork, SendComplete, Abandon
<1>11. ASSUME NEW c \in calls, ReplayComplete(c) \/ AnswerComplete(c) \/ LoseCall(c)
       PROVE  RowAdvances(k)
  BY <1>11, <1>0 DEF ReplayComplete, AnswerComplete, LoseCall
<1> QED
  BY <1>1, <1>2, <1>3, <1>4, <1>5, <1>6, <1>7, <1>8, <1>9, <1>10, <1>11
  DEF Next, ControlPlane, Claiming, Handling

-----------------------------------------------------------------------------
(* Type correctness of one step. *)
LEMMA TypeStep ==
  ASSUME IInv, Next
  PROVE  TypeOK'
<1> USE LeaseAssumption DEF IInv, TypeOK
<1>1. ASSUME NEW j \in Jobs, Enqueue(j) PROVE TypeOK'
  BY <1>1 DEF Enqueue, JobRow
<1>2. ASSUME NEW j \in Jobs, CancelJob(j) PROVE TypeOK'
  BY <1>2, WithdrawnRow DEF CancelJob
<1>3. ASSUME Disconnect PROVE TypeOK'
  BY <1>3, WithdrawnRow DEF Disconnect
<1>4. ASSUME Enroll PROVE TypeOK'
  BY <1>4 DEF Enroll
<1>5. ASSUME Tick PROVE TypeOK'
  BY <1>5 DEF Tick
<1>6. ASSUME NEW w \in Workers, ClaimRead(w) PROVE TypeOK'
  <2>1. PICK j \in Jobs :
          worker' = [worker EXCEPT ![w] =
                       [Idle EXCEPT !.phase = "claiming",
                                    !.job = j,
                                    !.token = IF job[j].status = "queued"
                                              THEN 0 ELSE job[j].attempt,
                                    !.now = clock,
                                    !.credential = agent.generation]]
    BY <1>6 DEF ClaimRead
  <2>2. j \in Nat /\ job[j].attempt \in Nat /\ agent.generation \in Nat
    BY DEF Jobs, JobRow
  <2>3. worker'[w] \in WorkerState
    BY <2>1, <2>2 DEF WorkerState, Idle, Verdicts
  <2>4. worker' \in [Workers -> WorkerState]
    BY <2>1, <2>3
  <2> QED
    BY <1>6, <2>4 DEF ClaimRead
<1>7. ASSUME NEW w \in Workers, GrantLease(w) PROVE TypeOK'
  <2>1. worker[w].job \in Jobs
    BY <1>7 DEF GrantLease, WorkerSound, SoundWorker
  <2>2. job[worker[w].job].attempt + 1 \in Nat /\ worker[w].now + LeaseTime \in Nat
    BY <2>1 DEF JobRow, WorkerState
  <2>3. job' \in [Jobs -> JobRow]
    BY <1>7, <2>1, <2>2 DEF GrantLease, JobRow
  <2> DEFINE granted == [worker[w] EXCEPT !.phase = "delivering",
                                          !.token = job[worker[w].job].attempt + 1]
  <2>4. worker' \in [Workers -> WorkerState]
    <3>1. worker' = [worker EXCEPT ![w] = granted]
      BY <1>7, Zenon DEF GrantLease
    <3>2. granted \in WorkerState
      BY <2>2 DEF WorkerState
    <3> QED
      BY <3>1, <3>2
  <2> QED
    BY <1>7, <2>3, <2>4 DEF GrantLease
<1>8. ASSUME NEW w \in Workers, ClaimRaced(w) \/ Abandon(w) PROVE TypeOK'
  BY <1>8 DEF ClaimRaced, Abandon, WorkerState, Idle, Verdicts
<1>9. ASSUME NEW w \in Workers, Deliver(w) \/ RejectDelivery(w) PROVE TypeOK'
  BY <1>9 DEF Deliver, RejectDelivery, WorkerState
<1>10. ASSUME NEW w \in Workers, FailInvalidDelivery(w) PROVE TypeOK'
  <2>1. job' \in [Jobs -> JobRow]
    <3> DEFINE row == [job[worker[w].job] EXCEPT !.status = "failed", !.expires = 0]
    <3>1. job' = job \/ job' = [job EXCEPT ![worker[w].job] = row]
      BY <1>10, Zenon DEF FailInvalidDelivery
    <3>2. worker[w].job \in Jobs => row \in JobRow
      BY DEF JobRow, Terminal, Outcomes
    <3>3. worker[w].job \in Jobs
      BY <1>10 DEF FailInvalidDelivery, WorkerSound, SoundWorker
    <3> QED
      BY <3>1, <3>2, <3>3
  <2>2. worker' \in [Workers -> WorkerState]
    BY <1>10 DEF FailInvalidDelivery, WorkerState, Idle, Verdicts
  <2> QED
    BY <1>10, <2>1, <2>2 DEF FailInvalidDelivery
<1>11. ASSUME NEW w \in Workers, SendRenew(w) PROVE TypeOK'
  BY <1>11 DEF SendRenew, Arrive, Request, WorkerSound, SoundWorker, WorkerState, Call
<1>12. ASSUME NEW w \in Workers, SendProgress(w) PROVE TypeOK'
  BY <1>12 DEF SendProgress, Arrive, Request, WorkerSound, SoundWorker, WorkerState, Call
<1>13. ASSUME NEW w \in Workers, FinishWork(w) PROVE TypeOK'
  <2>1. PICK outcome \in Outcomes :
          worker' = [worker EXCEPT ![w].phase = "reporting", ![w].outcome = outcome]
    BY <1>13 DEF FinishWork
  <2>2. outcome \in Verdicts
    BY DEF Verdicts
  <2>3. [worker[w] EXCEPT !.phase = "reporting", !.outcome = outcome] \in WorkerState
    BY <2>2 DEF WorkerState
  <2>4. worker' = [worker EXCEPT ![w] =
                     [worker[w] EXCEPT !.phase = "reporting", !.outcome = outcome]]
    BY <2>1
  <2> QED
    BY <1>13, <2>3, <2>4 DEF FinishWork
<1>14. ASSUME NEW w \in Workers, SendComplete(w) PROVE TypeOK'
  BY <1>14 DEF SendComplete, Arrive, Request, WorkerSound, SoundWorker, WorkerState, Call
<1>15. ASSUME NEW c \in calls, RenewLease(c) PROVE TypeOK'
  BY <1>15 DEF RenewLease, Call, JobRow
<1>16. ASSUME NEW c \in calls, RecordProgress(c) PROVE TypeOK'
  BY <1>16 DEF RecordProgress, Call, JobRow
<1>17. ASSUME NEW c \in calls, CompleteJob(c) PROVE TypeOK'
  BY <1>17 DEF CompleteJob, CallSound, SoundCall, Call, JobRow, Terminal
<1>18. ASSUME NEW c \in calls, ReplayComplete(c) PROVE TypeOK'
  BY <1>18 DEF ReplayComplete, Call
<1>19. ASSUME NEW c \in calls, AnswerComplete(c) PROVE TypeOK'
  BY <1>19 DEF AnswerComplete, CallSound, SoundCall, Call, Receipt
<1>20. ASSUME NEW c \in calls, LoseCall(c) PROVE TypeOK'
  BY <1>20 DEF LoseCall
<1> QED
  BY <1>1, <1>2, <1>3, <1>4, <1>5, <1>6, <1>7, <1>8, <1>9, <1>10, <1>11, <1>12, <1>13,
     <1>14, <1>15, <1>16, <1>17, <1>18, <1>19, <1>20
  DEF Next, ControlPlane, Claiming, Working, Handling

-----------------------------------------------------------------------------
(* What a worker remembers stays true: the clock and the rows only advance.   *)
LEMMA UntouchedWorker ==
  ASSUME IInv, Next, NEW v \in Workers, worker'[v] = worker[v]
  PROVE  SoundWorker(v)'
<1> USE DEF IInv
<1>1. clock \in Nat /\ clock' \in Nat /\ clock' >= clock
  <2>1. ControlPlane => UNCHANGED clock
    BY DEF ControlPlane, Enqueue, CancelJob, Disconnect, Enroll
  <2>2. \A w \in Workers : Claiming(w) => UNCHANGED clock
    BY DEF Claiming, ClaimRead, GrantLease, ClaimRaced, Deliver, RejectDelivery,
           FailInvalidDelivery
  <2>3. \A w \in Workers : Working(w) => UNCHANGED clock
    BY DEF Working, SendRenew, SendProgress, FinishWork, SendComplete, Abandon
  <2>4. \A c \in calls : Handling(c) => UNCHANGED clock
    BY DEF Handling, RenewLease, RecordProgress, CompleteJob, ReplayComplete,
           AnswerComplete, LoseCall
  <2>5. clock \in Nat /\ (UNCHANGED clock \/ clock' = clock + 1)
    BY <2>1, <2>2, <2>3, <2>4 DEF Next, Tick, TypeOK
  <2> QED
    BY <2>5
<1>2. \A j \in Jobs : /\ job[j].attempt \in Nat /\ job'[j].attempt \in Nat
                      /\ job'[j].attempt >= job[j].attempt
  BY TypeStep, RowsAdvance DEF TypeOK, JobRow, RowAdvances
<1>3. worker[v].now \in Nat /\ worker[v].token \in Nat
  BY DEF TypeOK, WorkerState
<1> QED
  BY <1>1, <1>2, <1>3 DEF WorkerSound, SoundWorker

LEMMA WorkerStep ==
  ASSUME IInv, Next
  PROVE  WorkerSound'
<1> USE DEF IInv
<1>1. ASSUME UNCHANGED worker PROVE WorkerSound'
  BY <1>1, UntouchedWorker DEF WorkerSound
<1>2. ASSUME NEW w \in Workers, SoundWorker(w)',
             \A v \in Workers \ {w} : worker'[v] = worker[v]
      PROVE  WorkerSound'
  BY <1>2, UntouchedWorker DEF WorkerSound
<1>3. ASSUME NEW w \in Workers, ClaimRead(w) PROVE WorkerSound'
  <2>1. PICK j \in Jobs :
          worker' = [worker EXCEPT ![w] =
                       [Idle EXCEPT !.phase = "claiming",
                                    !.job = j,
                                    !.token = IF job[j].status = "queued"
                                              THEN 0 ELSE job[j].attempt,
                                    !.now = clock,
                                    !.credential = agent.generation]]
    BY <1>3 DEF ClaimRead
  <2>2. SoundWorker(w)'
    BY <1>3, <2>1 DEF ClaimRead, SoundWorker, Idle, TypeOK
  <2>3. \A v \in Workers \ {w} : worker'[v] = worker[v]
    BY <2>1 DEF TypeOK
  <2> QED
    BY <1>2, <2>2, <2>3
<1>4. ASSUME NEW w \in Workers, GrantLease(w) PROVE WorkerSound'
  <2>1. worker[w].job \in Jobs /\ worker[w].now =< clock
    BY <1>4 DEF GrantLease, WorkerSound, SoundWorker
  <2>2. job[worker[w].job].attempt + 1 \in Nat
    BY <2>1 DEF TypeOK, JobRow
  <2>3. SoundWorker(w)'
    BY <1>4, <2>1, <2>2 DEF GrantLease, SoundWorker, TypeOK, WorkerState
  <2>4. \A v \in Workers \ {w} : worker'[v] = worker[v]
    BY <1>4 DEF GrantLease, TypeOK
  <2> QED
    BY <1>2, <2>3, <2>4
<1>5. ASSUME NEW w \in Workers, ClaimRaced(w) \/ Abandon(w) \/ FailInvalidDelivery(w)
      PROVE  WorkerSound'
  BY <1>5, <1>2 DEF ClaimRaced, Abandon, FailInvalidDelivery, SoundWorker, Idle, TypeOK
<1>6. ASSUME NEW w \in Workers, Deliver(w) \/ RejectDelivery(w) PROVE WorkerSound'
  BY <1>6, <1>2 DEF Deliver, RejectDelivery, WorkerSound, SoundWorker, TypeOK, WorkerState
<1>7. ASSUME NEW w \in Workers, SendProgress(w) PROVE WorkerSound'
  BY <1>7, <1>2 DEF SendProgress, WorkerSound, SoundWorker, TypeOK, WorkerState
<1>8. ASSUME NEW w \in Workers, FinishWork(w) PROVE WorkerSound'
  BY <1>8, <1>2 DEF FinishWork, WorkerSound, SoundWorker, TypeOK, WorkerState
<1>9. ASSUME ControlPlane \/ Tick PROVE WorkerSound'
  BY <1>9, <1>1 DEF ControlPlane, Enqueue, CancelJob, Disconnect, Enroll, Tick
<1>10. ASSUME NEW w \in Workers, SendRenew(w) \/ SendComplete(w) PROVE WorkerSound'
  BY <1>10, <1>1 DEF SendRenew, SendComplete
<1>11. ASSUME NEW c \in calls, Handling(c) PROVE WorkerSound'
  BY <1>11, <1>1 DEF Handling, RenewLease, RecordProgress, CompleteJob, ReplayComplete,
                     AnswerComplete, LoseCall
<1> QED
  BY <1>3, <1>4, <1>5, <1>6, <1>7, <1>8, <1>9, <1>10, <1>11 DEF Next, Claiming, Working

-----------------------------------------------------------------------------
(* A decided row keeps its attempt and its outcome.                           *)
LEMMA DecidedRowStays ==
  ASSUME IInv, Next, NEW j \in Jobs, job[j].status \in Outcomes
  PROVE  job'[j] = job[j]
  BY RowsAdvance DEF RowAdvances, Terminal

LEMMA UntouchedCall ==
  ASSUME IInv, Next, NEW c \in calls
  PROVE  SoundCall(c)'
<1>1. SoundCall(c) /\ c.job \in Jobs
  BY DEF IInv, CallSound, TypeOK, Call
<1>2. ASSUME c.kind = "answer" PROVE job'[c.job] = job[c.job]
  BY <1>1, <1>2, DecidedRowStays DEF SoundCall
<1> QED
  BY <1>1, <1>2 DEF SoundCall

LEMMA CallStep ==
  ASSUME IInv, Next
  PROVE  CallSound'
<1> USE DEF IInv
<1>1. ASSUME calls' \subseteq calls PROVE CallSound'
  BY <1>1, UntouchedCall DEF CallSound
<1>2. ASSUME NEW r, calls' \subseteq calls \cup {r}, SoundCall(r)' PROVE CallSound'
  BY <1>2, UntouchedCall DEF CallSound
<1>3. ASSUME NEW w \in Workers, SendRenew(w) PROVE CallSound'
  BY <1>3, <1>2 DEF SendRenew, Arrive, Request, SoundCall
<1>4. ASSUME NEW w \in Workers, SendProgress(w) PROVE CallSound'
  BY <1>4, <1>2 DEF SendProgress, Arrive, Request, SoundCall
<1>5. ASSUME NEW w \in Workers, SendComplete(w) PROVE CallSound'
  BY <1>5, <1>2 DEF SendComplete, Arrive, Request, SoundCall, WorkerSound, SoundWorker
<1>6. ASSUME NEW c \in calls, CompleteJob(c) PROVE CallSound'
  <2>1. c.job \in Jobs /\ c.outcome \in Outcomes /\ c \in Call
    BY <1>6 DEF CompleteJob, CallSound, SoundCall, TypeOK, Call
  <2>2. CASE ActiveLease(c)
    <3>1. calls' \subseteq calls \cup {[c EXCEPT !.kind = "answer"]}
      BY <1>6, <2>2 DEF CompleteJob
    <3>2. job'[c.job].attempt = c.token /\ job'[c.job].status = c.outcome
      BY <1>6, <2>1, <2>2 DEF CompleteJob, ActiveLease, BoundLease, TypeOK, JobRow
    <3>3. SoundCall([c EXCEPT !.kind = "answer"])'
      BY <2>1, <3>2 DEF SoundCall, Call
    <3> QED
      BY <1>2, <3>1, <3>3
  <2>3. CASE ~ActiveLease(c)
    <3>1. calls' \subseteq calls \cup {[c EXCEPT !.kind = "replay"]}
      BY <1>6, <2>3 DEF CompleteJob
    <3>2. SoundCall([c EXCEPT !.kind = "replay"])'
      BY <2>1 DEF SoundCall, Call
    <3> QED
      BY <1>2, <3>1, <3>2
  <2> QED
    BY <2>2, <2>3
<1>7. ASSUME NEW c \in calls, ReplayComplete(c) PROVE CallSound'
  <2>1. c.outcome \in Outcomes /\ c \in Call /\ job' = job
    BY <1>7 DEF ReplayComplete, CallSound, SoundCall, TypeOK
  <2>2. CASE IsReplay(c)
    <3>1. calls' \subseteq calls \cup {[c EXCEPT !.kind = "answer"]}
      BY <1>7, <2>2 DEF ReplayComplete
    <3>2. SoundCall([c EXCEPT !.kind = "answer"])'
      BY <2>1, <2>2 DEF IsReplay, BoundLease, SoundCall, Call
    <3> QED
      BY <1>2, <3>1, <3>2
  <2> QED
    BY <1>7, <1>1, <2>2 DEF ReplayComplete
<1>8. ASSUME NEW c \in calls,
             RenewLease(c) \/ RecordProgress(c) \/ AnswerComplete(c) \/ LoseCall(c)
      PROVE  CallSound'
  BY <1>8, <1>1 DEF RenewLease, RecordProgress, AnswerComplete, LoseCall
<1>9. ASSUME ControlPlane \/ Tick PROVE CallSound'
  BY <1>9, <1>1 DEF ControlPlane, Enqueue, CancelJob, Disconnect, Enroll, Tick
<1>10. ASSUME NEW w \in Workers, Claiming(w) \/ FinishWork(w) \/ Abandon(w) PROVE CallSound'
  BY <1>10, <1>1 DEF Claiming, ClaimRead, GrantLease, ClaimRaced, Deliver, RejectDelivery,
                     FailInvalidDelivery, FinishWork, Abandon
<1> QED
  BY <1>3, <1>4, <1>5, <1>6, <1>7, <1>8, <1>9, <1>10 DEF Next, Working, Handling

-----------------------------------------------------------------------------
(* Tokens. *)
Holds(w) == worker[w].phase \notin {"idle", "claiming"}

LEMMA HolderStep ==
  ASSUME IInv, Next
  PROVE  OneHolderPerToken'
<1> USE DEF IInv
<1>1. ASSUME \A w \in Workers :
               Holds(w)' => /\ Holds(w)
                            /\ worker'[w].job = worker[w].job
                            /\ worker'[w].token = worker[w].token
      PROVE  OneHolderPerToken'
  BY <1>1 DEF OneHolderPerToken, Holds
<1>2. ASSUME UNCHANGED worker PROVE OneHolderPerToken'
  BY <1>2 DEF OneHolderPerToken
<1>3. ASSUME NEW w \in Workers, GrantLease(w) PROVE OneHolderPerToken'
  <2>1. worker[w].job \in Jobs
    BY <1>3 DEF GrantLease, WorkerSound, SoundWorker
  <2>2. job[worker[w].job].attempt \in Nat
    BY <2>1 DEF TypeOK, JobRow
  <2>3. /\ worker'[w].token = job[worker[w].job].attempt + 1
        /\ worker'[w].job = worker[w].job
        /\ \A v \in Workers \ {w} : worker'[v] = worker[v]
    BY <1>3 DEF GrantLease, TypeOK, WorkerState
  <2>4. \A v \in Workers : Holds(v) /\ worker[v].job = worker[w].job =>
          /\ worker[v].token \in Nat
          /\ worker[v].token =< job[worker[w].job].attempt
    BY DEF WorkerSound, SoundWorker, Holds, TypeOK, WorkerState
  <2> QED
    BY <2>2, <2>3, <2>4 DEF OneHolderPerToken, Holds
<1>4. ASSUME NEW w \in Workers, Claiming(w), ~GrantLease(w) PROVE OneHolderPerToken'
  <2>1. CASE ClaimRead(w)
    BY <2>1, <1>1 DEF ClaimRead, Idle, Holds, TypeOK
  <2>2. CASE ClaimRaced(w) \/ FailInvalidDelivery(w)
    BY <2>2, <1>1 DEF ClaimRaced, FailInvalidDelivery, Idle, Holds, TypeOK
  <2>3. CASE Deliver(w) \/ RejectDelivery(w)
    BY <2>3, <1>1 DEF Deliver, RejectDelivery, Holds, TypeOK, WorkerState
  <2> QED
    BY <1>4, <2>1, <2>2, <2>3 DEF Claiming
<1>5. ASSUME NEW w \in Workers, Working(w) PROVE OneHolderPerToken'
  BY <1>5, <1>1, <1>2 DEF Working, SendRenew, SendProgress, FinishWork, SendComplete, Abandon,
                          Idle, Holds, TypeOK, WorkerState
<1>6. ASSUME ControlPlane \/ Tick PROVE OneHolderPerToken'
  BY <1>6, <1>2 DEF ControlPlane, Enqueue, CancelJob, Disconnect, Enroll, Tick
<1>7. ASSUME NEW c \in calls, Handling(c) PROVE OneHolderPerToken'
  BY <1>7, <1>2 DEF Handling, RenewLease, RecordProgress, CompleteJob, ReplayComplete,
                    AnswerComplete, LoseCall
<1> QED
  BY <1>3, <1>4, <1>5, <1>6, <1>7 DEF Next

(* Receipts. *)
LEMMA ReceiptStep ==
  ASSUME IInv, Next
  PROVE  AckedOutcomeStands'
<1> USE DEF IInv
<1>1. \A a \in acked : job'[a.job] = job[a.job]
  BY DecidedRowStays DEF AckedOutcomeStands, TypeOK, Receipt
<1>2. ASSUME NEW c \in calls, AnswerComplete(c) PROVE AckedOutcomeStands'
  BY <1>1, <1>2 DEF AnswerComplete, CallSound, SoundCall, AckedOutcomeStands
<1>3. ASSUME UNCHANGED acked PROVE AckedOutcomeStands'
  BY <1>1, <1>3 DEF AckedOutcomeStands
<1>4. ControlPlane \/ Tick => UNCHANGED acked
  BY DEF ControlPlane, Enqueue, CancelJob, Disconnect, Enroll, Tick
<1>5. \A w \in Workers : Claiming(w) \/ Working(w) => UNCHANGED acked
  BY DEF Claiming, ClaimRead, GrantLease, ClaimRaced, Deliver, RejectDelivery,
         FailInvalidDelivery, Working, SendRenew, SendProgress, FinishWork, SendComplete, Abandon
<1>6. \A c \in calls : Handling(c) => AnswerComplete(c) \/ UNCHANGED acked
  BY DEF Handling, RenewLease, RecordProgress, CompleteJob, ReplayComplete, LoseCall
<1> QED
  BY <1>2, <1>3, <1>4, <1>5, <1>6 DEF Next

-----------------------------------------------------------------------------
(* The theorems. *)

(* A stutter changes nothing. *)
LEMMA Stutter ==
  ASSUME IInv, UNCHANGED vars
  PROVE  IInv'
  BY DEF vars, IInv, TypeOK, WorkerSound, SoundWorker, CallSound, SoundCall,
         OneHolderPerToken, AckedOutcomeStands

(* The inductive invariant: what handlers and agents rely on is true of every *)
(* reachable state of the lease protocol of agent-job-leases.ts.              *)
THEOREM Invariance == Spec => []IInv
<1>1. Init => IInv
  BY InitSound
<1>2. IInv /\ [Next]_vars => IInv'
  <2>1. ASSUME IInv, Next PROVE IInv'
    BY <2>1, TypeStep, WorkerStep, CallStep, HolderStep, ReceiptStep DEF IInv
  <2> QED
    BY <2>1, Stutter
<1> QED
  BY <1>1, <1>2, PTL DEF Spec

(* Rows, handlers, requests and receipts keep their types.                    *)
THEOREM TypeCorrect == Spec => []TypeOK
<1>1. IInv => TypeOK
  BY DEF IInv
<1> QED
  BY <1>1, Invariance, PTL

(* A completion that was answered with 200 is the stored outcome for ever.    *)
THEOREM ReceiptsStand == Spec => []AckedOutcomeStands
<1>1. IInv => AckedOutcomeStands
  BY DEF IInv
<1> QED
  BY <1>1, Invariance, PTL

(* No two agents ever hold the same lease token.                              *)
THEOREM TokensAreExclusive == Spec => []OneHolderPerToken
<1>1. IInv => OneHolderPerToken
  BY DEF IInv
<1> QED
  BY <1>1, Invariance, PTL

(* No handler, however late, changes a row that is terminal.                  *)
THEOREM TerminalRowsAreFinal == Spec => TerminalIsFinal
<1>1. IInv /\ [Next]_vars =>
        [\A j \in Jobs : job[j].status \in Terminal => job'[j] = job[j]]_vars
  BY RowsAdvance DEF RowAdvances
<1> QED
  BY <1>1, Invariance, PTL DEF Spec, TerminalIsFinal

(* A reclaim waits for the stored expiry, renewals in between included.       *)
THEOREM LiveLeasesAreKept == Spec => LiveLeaseIsNeverTaken
<1>1. IInv /\ [Next]_vars =>
        [\A j \in Jobs : /\ job[j].status = "leased"
                         /\ job'[j].attempt # job[j].attempt
                         => job[j].expires =< clock]_vars
  BY RowsAdvance DEF RowAdvances
<1> QED
  BY <1>1, Invariance, PTL DEF Spec, LiveLeaseIsNeverTaken

(* Late or repeated reports never move the progress of a lease back.          *)
THEOREM ProgressOnlyAdvances == Spec => ProgressNeverRegresses
<1>1. IInv /\ [Next]_vars =>
        [\A j \in Jobs : job'[j].attempt = job[j].attempt
                           => job'[j].sequence >= job[j].sequence]_vars
  BY RowsAdvance DEF RowAdvances
<1> QED
  BY <1>1, Invariance, PTL DEF Spec, ProgressNeverRegresses

-----------------------------------------------------------------------------
(* The refinement of JobContract. *)

\* The contract's view of the rows.
SameView(j) ==
    /\ Stage(j)' = Stage(j)
    /\ Verdict(j)' = Verdict(j)
    /\ job'[j].attempt = job[j].attempt

LEMMA ViewStutters ==
  ASSUME \A j \in Jobs : SameView(j), UNCHANGED acked
  PROVE  UNCHANGED Contract!cvars
  BY DEF SameView, Contract!cvars

LEMMA ContractInit == Init => Contract!CInit
  BY DEF Init, NoJob, Contract!CInit, Contract!Undecided, Stage, Verdict, Outcomes

(* A step that decides one row is the contract's Decide. *)
LEMMA DecisionStep ==
  ASSUME IInv, UNCHANGED acked, NEW k \in Jobs, NEW outcome \in Outcomes,
         job[k].status = "leased", job[k].attempt # 0,
         job'[k].status = outcome, job'[k].attempt = job[k].attempt,
         \A j \in Jobs \ {k} : job'[j] = job[j]
  PROVE  Contract!Decide(k, outcome)
<1>1. \A j \in Jobs \ {k} : SameView(j)
  BY DEF SameView, Stage, Verdict
<1>2. Stage(k) = "open" /\ Stage(k)' = "decided" /\ Verdict(k)' = outcome
  BY DEF Stage, Verdict, Outcomes
<1> QED
  BY <1>1, <1>2 DEF Contract!Decide, SameView

LEMMA ContractStep ==
  ASSUME IInv, Next
  PROVE  [Contract!CNext]_(Contract!cvars)
<1> USE DEF IInv
<1>1. ASSUME UNCHANGED <<job, acked>> PROVE UNCHANGED Contract!cvars
  BY <1>1, ViewStutters DEF SameView, Stage, Verdict
<1>2. ASSUME NEW k \in Jobs, Enqueue(k) PROVE UNCHANGED Contract!cvars
  BY <1>2, ViewStutters DEF Enqueue, SameView, Stage, Verdict, Outcomes, TypeOK, JobRow
<1>3. ASSUME NEW k \in Jobs, CancelJob(k) PROVE Contract!Withdraw({k})
  <2>1. \A j \in Jobs \ {k} : SameView(j)
    BY <1>3 DEF CancelJob, SameView, Stage, Verdict, TypeOK
  <2>2. Stage(k) = "open" /\ Verdict(k) = "none"
    BY <1>3 DEF CancelJob, Stage, Verdict, Outcomes
  <2>3. job'[k] = Withdrawn(job[k]) /\ job[k] \in JobRow
    BY <1>3 DEF CancelJob, TypeOK
  <2>4. /\ Stage(k)' = "withdrawn"
        /\ Verdict(k)' = "none"
        /\ job'[k].attempt = job[k].attempt
    BY <1>3, <2>3, WithdrawnRow DEF CancelJob, Stage, Verdict, Outcomes
  <2> QED
    BY <1>3, <2>1, <2>2, <2>4 DEF Contract!Withdraw, SameView, CancelJob
<1>4. ASSUME Disconnect PROVE [Contract!CNext]_(Contract!cvars)
  <2> DEFINE S == {j \in Jobs : job[j].status \in {"queued", "leased"}}
  <2>1. \A j \in Jobs : job'[j] = Withdrawn(job[j]) /\ job[j] \in JobRow
    BY <1>4 DEF Disconnect, TypeOK
  <2>2. \A j \in Jobs \ S : SameView(j)
    BY <2>1, WithdrawnRow DEF SameView, Stage, Verdict
  <2>3. \A j \in S : /\ Stage(j) = "open" /\ Stage(j)' = "withdrawn"
                     /\ Verdict(j) = "none" /\ Verdict(j)' = "none"
                     /\ job'[j].attempt = job[j].attempt
    BY <2>1, WithdrawnRow DEF Stage, Verdict, Outcomes
  <2>4. CASE S = {}
    BY <1>4, <2>2, <2>4, ViewStutters DEF Disconnect
  <2>5. CASE S # {}
    <3>1. Contract!Withdraw(S)
      BY <1>4, <2>2, <2>3, <2>5 DEF Contract!Withdraw, SameView, Disconnect
    <3> QED
      BY <3>1 DEF Contract!CNext
  <2> QED
    BY <2>4, <2>5
<1>5. ASSUME NEW w \in Workers, NEW k \in Jobs, worker[w].job = k, GrantLease(w)
      PROVE  Contract!Grant(k)
  <2>2. \A j \in Jobs \ {k} : SameView(j)
    BY <1>5 DEF GrantLease, SameView, Stage, Verdict, TypeOK
  <2>3. job[k].status \in {"queued", "leased"}
    BY <1>5 DEF GrantLease, StillClaimable
  <2>4. job'[k].status = "leased" /\ job'[k].attempt = job[k].attempt + 1
    BY <1>5 DEF GrantLease, TypeOK
  <2>5. /\ Stage(k) = "open" /\ Stage(k)' = "open"
        /\ Verdict(k) = "none" /\ Verdict(k)' = "none"
    BY <2>3, <2>4 DEF Stage, Verdict, Outcomes
  <2> QED
    BY <1>5, <2>2, <2>4, <2>5 DEF Contract!Grant, SameView, GrantLease
<1>6. ASSUME NEW w \in Workers, FailInvalidDelivery(w) PROVE [Contract!CNext]_(Contract!cvars)
  <2>1. CASE ActiveLease(worker[w])
    <3>1. Contract!Decide(worker[w].job, "failed")
      BY <1>6, <2>1, DecisionStep
      DEF FailInvalidDelivery, ActiveLease, BoundLease, Outcomes, TypeOK, JobRow
    <3> QED
      BY <2>1, <3>1 DEF Contract!CNext, ActiveLease, BoundLease, Outcomes
  <2>2. CASE ~ActiveLease(worker[w])
    BY <1>6, <1>1, <2>2 DEF FailInvalidDelivery
  <2> QED
    BY <2>1, <2>2
<1>7. ASSUME NEW c \in calls, CompleteJob(c) PROVE [Contract!CNext]_(Contract!cvars)
  <2>1. c.outcome \in Outcomes
    BY <1>7 DEF CompleteJob, CallSound, SoundCall
  <2>2. CASE ActiveLease(c)
    <3>1. Contract!Decide(c.job, c.outcome)
      BY <1>7, <2>1, <2>2, DecisionStep
      DEF CompleteJob, ActiveLease, BoundLease, TypeOK, JobRow
    <3> QED
      BY <2>1, <2>2, <3>1 DEF Contract!CNext, ActiveLease, BoundLease
  <2>3. CASE ~ActiveLease(c)
    BY <1>7, <1>1, <2>3 DEF CompleteJob
  <2> QED
    BY <2>2, <2>3
<1>8. ASSUME NEW c \in calls, AnswerComplete(c) PROVE Contract!Tell(c.job) /\ c.job \in Jobs
  <2>1. /\ c.job \in Jobs
        /\ c.outcome \in Outcomes
        /\ job[c.job].attempt = c.token
        /\ job[c.job].status = c.outcome
    BY <1>8 DEF AnswerComplete, CallSound, SoundCall, TypeOK, Call
  <2>2. Stage(c.job) = "decided" /\ Verdict(c.job) = c.outcome
    BY <2>1 DEF Stage, Verdict, Outcomes
  <2>3. \A j \in Jobs : SameView(j)
    BY <1>8 DEF AnswerComplete, SameView, Stage, Verdict
  <2> QED
    BY <1>8, <2>1, <2>2, <2>3 DEF Contract!Tell, AnswerComplete, SameView
<1>9. ASSUME NEW c \in calls, RenewLease(c) \/ RecordProgress(c)
      PROVE  UNCHANGED Contract!cvars
  BY <1>9, ViewStutters
  DEF RenewLease, RecordProgress, SameView, Stage, Verdict, TypeOK, JobRow
<1>10. ASSUME NEW c \in calls, ReplayComplete(c) \/ LoseCall(c) PROVE UNCHANGED Contract!cvars
  BY <1>10, <1>1 DEF ReplayComplete, LoseCall
<1>11. ASSUME Enroll \/ Tick PROVE UNCHANGED Contract!cvars
  BY <1>11, <1>1 DEF Enroll, Tick
<1>12. ASSUME NEW w \in Workers,
              \/ ClaimRead(w) \/ ClaimRaced(w) \/ Deliver(w) \/ RejectDelivery(w)
              \/ Working(w)
       PROVE  UNCHANGED Contract!cvars
  BY <1>12, <1>1 DEF ClaimRead, ClaimRaced, Deliver, RejectDelivery, Working, SendRenew,
                     SendProgress, FinishWork, SendComplete, Abandon
<1>13. ASSUME NEW w \in Workers, GrantLease(w) PROVE [Contract!CNext]_(Contract!cvars)
  <2>1. PICK k \in Jobs : worker[w].job = k
    BY <1>13 DEF GrantLease, WorkerSound, SoundWorker
  <2>2. Contract!Grant(k)
    BY <1>5, <1>13, <2>1
  <2> QED
    BY <2>2 DEF Contract!CNext
<1>14. ASSUME NEW k \in Jobs, CancelJob(k) PROVE [Contract!CNext]_(Contract!cvars)
  <2>1. {k} \in SUBSET Jobs
    OBVIOUS
  <2> QED
    BY <1>3, <1>14, <2>1 DEF Contract!CNext
<1>15. ASSUME NEW c \in calls, AnswerComplete(c) PROVE [Contract!CNext]_(Contract!cvars)
  BY <1>8, <1>15 DEF Contract!CNext
<1> QED
  BY <1>2, <1>4, <1>6, <1>7, <1>9, <1>10, <1>11, <1>12, <1>13, <1>14, <1>15
  DEF Next, ControlPlane, Claiming, Handling

(* The lease protocol implements the contract of the job queue: one decision  *)
(* per job, by the current holder, and nothing else is ever confirmed.        *)
THEOREM ImplementsContract == Spec => KeepsContract
<1>1. Init => Contract!CInit
  BY ContractInit
<1>2. IInv /\ [Next]_vars => [Contract!CNext]_(Contract!cvars)
  <2>1. ASSUME UNCHANGED vars PROVE UNCHANGED Contract!cvars
    BY <2>1, ViewStutters DEF vars, SameView, Stage, Verdict
  <2> QED
    BY <2>1, ContractStep
<1>3. [Contract!CNext]_(Contract!cvars) => [Contract!Change]_(Contract!cvars)
  BY DEF Contract!Change, Contract!cvars
<1> QED
  BY <1>1, <1>2, <1>3, Invariance, PTL DEF Spec, KeepsContract, Contract!CSpec

=============================================================================
