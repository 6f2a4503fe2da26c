------------------------------ MODULE AgentLease ------------------------------
(***************************************************************************)
(* The lease protocol between the control plane and the outbound agents    *)
(* (apps/api/src/agents/agent-job-leases.ts, agent-jobs.service.ts, and    *)
(* the job loop of apps/agent).  An agent polls for a job of its target,   *)
(* the API leases the oldest claimable row, and every later call of the    *)
(* agent is fenced by the lease token and the expiry stored in the row.    *)
(*                                                                         *)
(* An API handler is not atomic: it authenticates, takes `now`, and only   *)
(* afterwards issues its compare-and-set.  A request is therefore a record *)
(* in `calls` that carries the `now` it captured on arrival; its database  *)
(* statement is a later action.  A request may be repeated by the agent,   *)
(* overtaken by a later one, or lost with the API process.                 *)
(***************************************************************************)
EXTENDS Naturals, FiniteSets

CONSTANTS
    NumJobs,        \* jobs of one target, numbered by createdAt
    Workers,        \* claim requests of the target's agents and the work after them
    LeaseTime,      \* LEASE_MS in clock ticks
    MaxClock,       \* bound: the clock
    MaxAttempt,     \* bound: leases granted per job
    MaxSequence,    \* bound: progress reports per lease
    MaxCalls,       \* bound: requests being handled at a time
    MaxGeneration   \* bound: agent credentials ever issued

ASSUME LeaseAssumption ==
    /\ NumJobs \in Nat
    /\ LeaseTime \in Nat \ {0}
    /\ MaxClock \in Nat
    /\ MaxAttempt \in Nat
    /\ MaxSequence \in Nat
    /\ MaxCalls \in Nat
    /\ MaxGeneration \in Nat

VARIABLES
    clock,      \* the API's wall clock
    job,        \* the AgentJob rows
    agent,      \* the Agent row of the target: credential generation, disabledAt
    worker,     \* the claim handlers and the agent job loops behind them
    calls,      \* requests of the agents that the API is handling
    acked       \* history: completions the API has answered with 200

vars == <<clock, job, agent, worker, calls, acked>>

Jobs == 1..NumJobs
Outcomes == {"succeeded", "failed"}
Terminal == Outcomes \cup {"cancelled"}

\* Every claim that wins writes a fresh random token and increments attempt:
\* the attempt number identifies the token, and 0 stands for "no token".
\* A row that is absent is not yet created, or still blocked by an earlier step.
JobRow == [status : {"absent", "queued", "leased"} \cup Terminal,
           attempt : Nat,
           expires : Nat,
           sequence : Nat]

NoJob == [status |-> "absent", attempt |-> 0, expires |-> 0, sequence |-> 0]

\* "none" until the agent has decided what to report.
Verdicts == Outcomes \cup {"none"}

Idle == [phase |-> "idle", job |-> 0, token |-> 0, now |-> 0,
         sequence |-> 0, outcome |-> "none", credential |-> 0]

WorkerState ==
    [phase : {"idle", "claiming", "delivering", "rejecting", "working", "reporting"},
     job : Nat, token : Nat, now : Nat, sequence : Nat,
     outcome : Verdicts, credential : Nat]

Call == [kind : {"renew", "progress", "complete", "replay", "answer"},
         job : Jobs, token : Nat, now : Nat, sequence : Nat,
         outcome : Verdicts, credential : Nat]

Receipt == [job : Jobs, token : Nat, outcome : Outcomes]

(***************************************************************************)
(* The type invariant of the lease tables, the handlers and the agents.    *)
(***************************************************************************)
TypeOK ==
    /\ clock \in Nat
    /\ job \in [Jobs -> JobRow]
    /\ agent \in [generation : Nat, disabled : BOOLEAN]
    /\ worker \in [Workers -> WorkerState]
    /\ calls \subseteq Call
    /\ acked \subseteq Receipt

Init ==
    /\ clock = 0
    /\ job = [j \in Jobs |-> NoJob]
    /\ agent = [generation |-> 1, disabled |-> FALSE]
    /\ worker = [w \in Workers |-> Idle]
    /\ calls = {}
    /\ acked = {}

-----------------------------------------------------------------------------
(* The where-clauses of AgentJobLeases. *)

\* activeCredential(): the target's agent is enabled and still has the
\* credential the request was authenticated with.
ActiveCredential(credential) ==
    /\ ~agent.disabled
    /\ agent.generation = credential

\* Mutant: the token of the request is not compared with the stored one.
BoundLeaseAnyToken(r) ==
    /\ r.job \in Jobs
    /\ ActiveCredential(r.credential)
    /\ r.token # 0

\* boundLease(): r is a request or a worker that names a job, a token and a credential.
BoundLease(r) ==
    /\ r.job \in Jobs
    /\ ActiveCredential(r.credential)
    /\ r.token = job[r.job].attempt
    /\ r.token # 0

\* activeLease(): the row is still leased and had not expired at the `now` of r.
ActiveLease(r) ==
    /\ BoundLease(r)
    /\ job[r.job].status = "leased"
    /\ job[r.job].expires > r.now

\* What claimOnce() looks for at time `now`.
Claimable(j, now) ==
    \/ job[j].status = "queued"
    \/ job[j].status = "leased" /\ job[j].expires =< now

\* orderBy createdAt, the first row.
IsCandidate(j, now) ==
    /\ Claimable(j, now)
    /\ \A i \in Jobs : i < j => ~Claimable(i, now)

-----------------------------------------------------------------------------
(* The control plane creates and withdraws jobs. *)

\* createProbe(), createLifecycleTest(), queueDeployment(), queueLifecycle(),
\* queueReconcile(), and the release of a blocked step.  They look at the
\* agent in an earlier statement, so the row may appear after a disconnect.
Enqueue(j) ==
    /\ job[j].status = "absent"
    /\ job' = [job EXCEPT ![j].status = "queued"]
    /\ UNCHANGED <<clock, agent, worker, calls, acked>>

Withdrawn(row) ==
    IF row.status \in {"queued", "leased"}
    THEN [row EXCEPT !.status = "cancelled", !.expires = 0]
    ELSE row

\* Environment removal, supersession by a newer route, a failed first step.
CancelJob(j) ==
    /\ job[j].status \in {"queued", "leased"}
    /\ job' = [job EXCEPT ![j] = Withdrawn(job[j])]
    /\ UNCHANGED <<clock, agent, worker, calls, acked>>

\* makeUnavailable(): one transaction revokes the credential and cancels every
\* live job of the target.
Disconnect ==
    /\ ~agent.disabled
    /\ agent' = [agent EXCEPT !.disabled = TRUE]
    /\ job' = [j \in Jobs |-> Withdrawn(job[j])]
    /\ UNCHANGED <<clock, worker, calls, acked>>

\* A disconnected target is enrolled again, with a new credential.
Enroll ==
    /\ agent.disabled
    /\ agent.generation < MaxGeneration
    /\ agent' = [generation |-> agent.generation + 1, disabled |-> FALSE]
    /\ UNCHANGED <<clock, job, worker, calls, acked>>

-----------------------------------------------------------------------------
(* POST /agent/jobs/claim *)

\* authenticate(), `now`, and the findFirst() of claimOnce().  The token of a
\* claiming worker is the one it saw in the row; 0 means it saw "queued".
ClaimRead(w) ==
    /\ worker[w].phase = "idle"
    /\ ~agent.disabled
    /\ \E j \in Jobs :
        /\ IsCandidate(j, clock)
        /\ worker' = [worker EXCEPT ![w] =
                        [Idle EXCEPT !.phase = "claiming",
                                     !.job = j,
                                     !.token = IF job[j].status = "queued"
                                               THEN 0 ELSE job[j].attempt,
                                     !.now = clock,
                                     !.credential = agent.generation]]
    /\ UNCHANGED <<clock, job, agent, calls, acked>>

\* Mutant: a row seen as queued is taken even if another claim has leased it.
StillClaimableOnceQueued(w) ==
    /\ ActiveCredential(worker[w].credential)
    /\ IF worker[w].token = 0
       THEN job[worker[w].job].status \in {"queued", "leased"}
       ELSE /\ job[worker[w].job].status = "leased"
            /\ job[worker[w].job].expires =< worker[w].now
            /\ job[worker[w].job].attempt = worker[w].token

\* The condition of claimOnce()'s updateMany() for what w has read.
StillClaimable(w) ==
    /\ ActiveCredential(worker[w].credential)
    /\ IF worker[w].token = 0
       THEN job[worker[w].job].status = "queued"
       ELSE /\ job[worker[w].job].status = "leased"
            /\ job[worker[w].job].expires =< worker[w].now
            /\ job[worker[w].job].attempt = worker[w].token

\* Mutant: a reclaim keeps the lease token of the expired attempt.
GrantLeaseOldToken(w) ==
    LET j == worker[w].job
        token == IF job[j].attempt = 0 THEN 1 ELSE job[j].attempt IN
    /\ worker[w].phase = "claiming"
    /\ StillClaimable(w)
    /\ job' = [job EXCEPT ![j] = [status |-> "leased",
                                  attempt |-> token,
                                  expires |-> worker[w].now + LeaseTime,
                                  sequence |-> 0]]
    /\ worker' = [worker EXCEPT ![w].phase = "delivering", ![w].token = token]
    /\ UNCHANGED <<clock, agent, calls, acked>>

\* The updateMany() of claimOnce(): a fresh token, a fresh expiry.
GrantLease(w) ==
    LET j == worker[w].job IN
    /\ worker[w].phase = "claiming"
    /\ StillClaimable(w)
    /\ job[j].attempt < MaxAttempt
    /\ job' = [job EXCEPT ![j] = [status |-> "leased",
                                  attempt |-> job[j].attempt + 1,
                                  expires |-> worker[w].now + LeaseTime,
                                  sequence |-> 0]]
    /\ worker' = [worker EXCEPT ![w].phase = "delivering",
                                ![w].token = job[j].attempt + 1]
    /\ UNCHANGED <<clock, agent, calls, acked>>

\* outcome 'raced': claim() loops, which is a new ClaimRead.
ClaimRaced(w) ==
    /\ worker[w].phase = "claiming"
    /\ ~StillClaimable(w)
    /\ worker' = [worker EXCEPT ![w] = Idle]
    /\ UNCHANGED <<clock, job, agent, calls, acked>>

\* The claim is answered and the agent starts to work on it.
Deliver(w) ==
    /\ worker[w].phase = "delivering"
    /\ worker' = [worker EXCEPT ![w].phase = "working"]
    /\ UNCHANGED <<clock, job, agent, calls, acked>>

\* deliveryForLease() throws: the artifact is gone, the config changed, or the
\* lease was lost meanwhile.  failInvalidDelivery() takes its own `now`.
RejectDelivery(w) ==
    /\ worker[w].phase = "delivering"
    /\ worker' = [worker EXCEPT ![w].phase = "rejecting", ![w].now = clock]
    /\ UNCHANGED <<clock, job, agent, calls, acked>>

\* failInvalidDelivery()'s updateMany(); claim() then looks for another job.
FailInvalidDelivery(w) ==
    /\ worker[w].phase = "rejecting"
    /\ job' = IF ActiveLease(worker[w])
              THEN [job EXCEPT ![worker[w].job].status = "failed",
                               ![worker[w].job].expires = 0]
              ELSE job
    /\ worker' = [worker EXCEPT ![w] = Idle]
    /\ UNCHANGED <<clock, agent, calls, acked>>

-----------------------------------------------------------------------------
(* The agent: executeClaimedJob(), retryProtocolCall(), renewLeaseLoop(). *)

\* A request of w reaches the API, is authenticated and takes its `now`.
Request(w, kind, sequence) ==
    [kind |-> kind, job |-> worker[w].job, token |-> worker[w].token,
     now |-> clock, sequence |-> sequence,
     outcome |-> worker[w].outcome, credential |-> worker[w].credential]

Arrive(w, kind, sequence) ==
    /\ ActiveCredential(worker[w].credential)
    /\ Cardinality(calls) < MaxCalls
    /\ calls' = calls \cup {Request(w, kind, sequence)}

SendRenew(w) ==
    /\ worker[w].phase = "working"
    /\ Arrive(w, "renew", 0)
    /\ UNCHANGED <<clock, job, agent, worker, acked>>

\* A new report, or the retry of one whose answer did not come back.
SendProgress(w) ==
    /\ worker[w].phase = "working"
    /\ \E sequence \in {worker[w].sequence, worker[w].sequence + 1} :
        /\ sequence \in 1..MaxSequence
        /\ Arrive(w, "progress", sequence)
        /\ worker' = [worker EXCEPT ![w].sequence = sequence]
    /\ UNCHANGED <<clock, job, agent, acked>>

\* The work is over; what the agent reports from now on does not change.
FinishWork(w) ==
    /\ worker[w].phase = "working"
    /\ \E outcome \in Outcomes :
        worker' = [worker EXCEPT ![w].phase = "reporting", ![w].outcome = outcome]
    /\ UNCHANGED <<clock, job, agent, calls, acked>>

\* Mutant: the completion is sent while the work still runs.
SendCompleteEarly(w) ==
    /\ worker[w].phase \in {"working", "reporting"}
    /\ Arrive(w, "complete", 0)
    /\ UNCHANGED <<clock, job, agent, worker, acked>>

\* Sent until it is answered, so it may be handled more than once.
SendComplete(w) ==
    /\ worker[w].phase = "reporting"
    /\ Arrive(w, "complete", 0)
    /\ UNCHANGED <<clock, job, agent, worker, acked>>

\* The agent stops, crashes, loses the answer of its claim, or gives up after a
\* 409, its answer, or its deadline.  Requests that were sent stay in flight.
Abandon(w) ==
    /\ worker[w].phase # "idle"
    /\ worker' = [worker EXCEPT ![w] = Idle]
    /\ UNCHANGED <<clock, job, agent, calls, acked>>

-----------------------------------------------------------------------------
(* The statements of the request handlers. *)

\* renew(): the new expiry counts from the `now` of the request.
RenewLease(c) ==
    /\ c \in calls
    /\ c.kind = "renew"
    /\ job' = IF ActiveLease(c)
              THEN [job EXCEPT ![c.job].expires = c.now + LeaseTime]
              ELSE job
    /\ calls' = calls \ {c}
    /\ UNCHANGED <<clock, agent, worker, acked>>

\* Mutant: the last report to be handled wins.
RecordProgressLast(c) ==
    /\ c \in calls
    /\ c.kind = "progress"
    /\ job' = IF ActiveLease(c)
              THEN [job EXCEPT ![c.job].sequence = c.sequence]
              ELSE job
    /\ calls' = calls \ {c}
    /\ UNCHANGED <<clock, agent, worker, acked>>

\* progress(): a duplicate or an overtaken report changes nothing.
RecordProgress(c) ==
    /\ c \in calls
    /\ c.kind = "progress"
    /\ job' = IF ActiveLease(c) /\ job[c.job].sequence < c.sequence
              THEN [job EXCEPT ![c.job].sequence = c.sequence]
              ELSE job
    /\ calls' = calls \ {c}
    /\ UNCHANGED <<clock, agent, worker, acked>>

\* complete(): the transaction that stores the outcome.  When it changes no row
\* the handler goes on to look for a completion this request repeats.  (The
\* read of the binding before it can only refuse earlier what is refused here.)
CompleteJob(c) ==
    /\ c \in calls
    /\ c.kind = "complete"
    /\ IF ActiveLease(c)
       THEN /\ job' = [job EXCEPT ![c.job].status = c.outcome,
                                  ![c.job].expires = 0]
            /\ calls' = (calls \ {c}) \cup {[c EXCEPT !.kind = "answer"]}
       ELSE /\ job' = job
            /\ calls' = (calls \ {c}) \cup {[c EXCEPT !.kind = "replay"]}
    /\ UNCHANGED <<clock, agent, worker, acked>>

\* Mutant: any agent that reports the stored outcome is confirmed.
IsReplayAnyToken(c) ==
    /\ ActiveCredential(c.credential)
    /\ job[c.job].status = c.outcome

\* The stored outcome is the one reported again, under the same token.
IsReplay(c) ==
    /\ BoundLease(c)
    /\ job[c.job].status = c.outcome

\* Otherwise the request ends with 409, lostLease().
ReplayComplete(c) ==
    /\ c \in calls
    /\ c.kind = "replay"
    /\ calls' = IF IsReplay(c)
                THEN (calls \ {c}) \cup {[c EXCEPT !.kind = "answer"]}
                ELSE calls \ {c}
    /\ UNCHANGED <<clock, job, agent, worker, acked>>

\* The projections have run and the agent is answered with 200.
AnswerComplete(c) ==
    /\ c \in calls
    /\ c.kind = "answer"
    /\ calls' = calls \ {c}
    /\ acked' = acked \cup {[job |-> c.job, token |-> c.token, outcome |-> c.outcome]}
    /\ UNCHANGED <<clock, job, agent, worker>>

\* The API process dies, or the database refuses, in the middle of a request.
LoseCall(c) ==
    /\ c \in calls
    /\ calls' = calls \ {c}
    /\ UNCHANGED <<clock, job, agent, worker, acked>>

Tick ==
    /\ clock < MaxClock
    /\ clock' = clock + 1
    /\ UNCHANGED <<job, agent, worker, calls, acked>>

-----------------------------------------------------------------------------

ControlPlane ==
    \/ \E j \in Jobs : Enqueue(j) \/ CancelJob(j)
    \/ Disconnect
    \/ Enroll

Claiming(w) ==
    \/ ClaimRead(w)
    \/ GrantLease(w)
    \/ ClaimRaced(w)
    \/ Deliver(w)
    \/ RejectDelivery(w)
    \/ FailInvalidDelivery(w)

Working(w) ==
    \/ SendRenew(w)
    \/ SendProgress(w)
    \/ FinishWork(w)
    \/ SendComplete(w)
    \/ Abandon(w)

Handling(c) ==
    \/ RenewLease(c)
    \/ RecordProgress(c)
    \/ CompleteJob(c)
    \/ ReplayComplete(c)
    \/ AnswerComplete(c)
    \/ LoseCall(c)

Next ==
    \/ ControlPlane
    \/ \E w \in Workers : Claiming(w) \/ Working(w)
    \/ \E c \in calls : Handling(c)
    \/ Tick

Spec == Init /\ [][Next]_vars

-----------------------------------------------------------------------------
(* Properties *)

\* complete() answers 200 only for the outcome that is, and stays, the stored
\* one: a replayed completion is compared with the row under the same token.
\* The agent discards its work after a 200, so a receipt must never be wrong.
AckedOutcomeStands ==
    \A a \in acked :
        /\ job[a.job].attempt = a.token
        /\ job[a.job].status = a.outcome

\* The token is the only thing that tells the agents of one target apart
\* (leasedByAgentId is the same for all of them), so no two of them may hold
\* the same token of a job, whatever races in claimOnce().
OneHolderPerToken ==
    \A v, w \in Workers :
        /\ v # w
        /\ worker[v].phase \notin {"idle", "claiming"}
        /\ worker[w].phase \notin {"idle", "claiming"}
        /\ worker[v].job = worker[w].job
        => worker[v].token # worker[w].token

\* A job that succeeded, failed or was cancelled is never touched again, by
\* whatever handler is still in flight: no second completion, no renewal, no
\* late progress, no reclaim (activeLease() and the status filters).
TerminalIsFinal ==
    [][\A j \in Jobs : job[j].status \in Terminal => job'[j] = job[j]]_vars

\* claimOnce() takes a job away from its holder only when the lease stored in
\* the row has run out, although it reads the row and takes `now` before its
\* updateMany(), and a renewal may be stored in between.
LiveLeaseIsNeverTaken ==
    [][\A j \in Jobs :
         /\ job[j].status = "leased"
         /\ job'[j].attempt # job[j].attempt
         => job[j].expires =< clock]_vars

\* Reports of progress may be repeated and overtake each other; the row never
\* goes back within one lease (progressSequence: { lt: dto.sequence }).
ProgressNeverRegresses ==
    [][\A j \in Jobs :
         job'[j].attempt = job[j].attempt => job'[j].sequence >= job[j].sequence]_vars

(***************************************************************************)
(* The lease protocol keeps the contract of the job queue.                 *)
(***************************************************************************)
Stage(j) ==
    CASE job[j].status \in Outcomes -> "decided"
      [] job[j].status = "cancelled" -> "withdrawn"
      [] OTHER -> "open"

Verdict(j) == IF job[j].status \in Outcomes THEN job[j].status ELSE "none"

Contract == INSTANCE JobContract WITH
    Jobs <- Jobs,
    Outcomes <- Outcomes,
    stage <- [j \in Jobs |-> Stage(j)],
    fence <- [j \in Jobs |-> job[j].attempt],
    verdict <- [j \in Jobs |-> Verdict(j)],
    told <- acked

\* Every step of claim(), complete(), failInvalidDelivery(), the cancellations
\* and makeUnavailable() is a step of JobContract, or changes nothing it sees.
KeepsContract == Contract!CSpec

=============================================================================
