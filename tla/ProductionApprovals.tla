-------------------------- MODULE ProductionApprovals --------------------------
(***************************************************************************)
(* Requests to change production: project-production-approvals.ts, with    *)
(* begin() of project-deployment-operations.ts that checks the approved    *)
(* inputs again, and the editors of configuration and target that change   *)
(* them.  Every statement or transaction of a request is an action; what   *)
(* happens to an operation after begin() is DeploymentOperations.          *)
(***************************************************************************)
EXTENDS Naturals, FiniteSets

CONSTANTS
    Reviewers,          \* calls of approve() under way at the same time
    MaxProdRequests,    \* bound: requests, numbered by creation
    MaxProdOps,         \* bound: operations on production, numbered by creation
    MaxEdits,           \* bound: changes of inputs
    MaxMishaps          \* bound: statements that fail, crashes and a full quota

ASSUME ApprovalsAssumption ==
    /\ MaxProdRequests \in Nat /\ MaxProdOps \in Nat
    /\ MaxEdits \in Nat /\ MaxMishaps \in Nat

VARIABLES
    inputs,     \* what a request is about: source, configuration, and of target and
                \* allocation the revision (updatedAt) and what a deployment uses of them
    prodLock,   \* activeOperationId of the environment, 0 when it is free
    prodOp,     \* operations on production, each with its request (0: none)
    request,    \* ProductionDeploymentRequest rows
    draft,      \* the state that a call of create() has read
    review,     \* calls of approve()
    edit,       \* a change of the target that has counted the active operations
    mishaps,    \* failures so far
    overtaken,  \* history: operations under which such a change was written
    unlinked    \* history: requests whose operation was started but not stored

approvalVars == <<inputs, prodLock, prodOp, request, draft, review, edit, mishaps, overtaken, unlinked>>

Requests == 1..MaxProdRequests
ProdOps == 1..MaxProdOps
Nothing == [source |-> 0, config |-> 0, revision |-> 0, settings |-> 0]
NoReview == [pc |-> "idle", request |-> 0, op |-> 0]
Edits == inputs.source + inputs.config + inputs.revision

ApprovalsInit ==
    /\ inputs = [Nothing EXCEPT !.source = 1]
    /\ prodLock = 0
    /\ prodOp = [o \in ProdOps |-> [status |-> "absent", request |-> 0]]
    /\ request = [q \in Requests |-> [status |-> "absent", token |-> Nothing]]
    /\ draft = Nothing
    /\ review = [r \in Reviewers |-> NoReview]
    /\ edit = "idle"
    /\ mishaps = 0
    /\ overtaken = {}
    /\ unlinked = {}

Free(ids, row) == {i \in ids : row[i].status = "absent" /\ \A j \in ids : j < i => row[j].status # "absent"}
LiveRequest == {"pending", "approving"}

-----------------------------------------------------------------------------
(* What the request is about changes *)

\* A newer build runs in the stage that production is promoted from.
EditSource ==
    /\ Edits <= MaxEdits
    /\ inputs' = [inputs EXCEPT !.source = @ + 1]
    /\ UNCHANGED <<prodLock, prodOp, request, draft, review, edit, mishaps, overtaken, unlinked>>

\* AppConfigService: the revision and the value, only while nothing is active.
EditConfig ==
    /\ Edits <= MaxEdits
    /\ prodLock = 0
    /\ inputs' = [inputs EXCEPT !.config = @ + 1]
    /\ UNCHANGED <<prodLock, prodOp, request, draft, review, edit, mishaps, overtaken, unlinked>>

\* verify(), restore(), an enrolment, a gateway preflight and a re-encryption
\* write the row of the target whatever is active: its revision moves, what a
\* deployment uses of it does not.
TouchTarget ==
    /\ Edits <= MaxEdits
    /\ inputs' = [inputs EXCEPT !.revision = @ + 1]
    /\ UNCHANGED <<prodLock, prodOp, request, draft, review, edit, mishaps, overtaken, unlinked>>

\* update() of a target or an allocation and makeUnavailable() count the active
\* operations and write later, whatever has begun or ended since.
CountOperations ==
    /\ edit # "free"
    /\ edit' = IF prodLock = 0 THEN "free" ELSE "busy"
    /\ UNCHANGED <<inputs, prodLock, prodOp, request, draft, review, mishaps, overtaken, unlinked>>

\* They refuse when something was active.
EditTarget ==
    /\ edit = "free"
    /\ Edits <= MaxEdits
    /\ inputs' = [inputs EXCEPT !.revision = @ + 1, !.settings = @ + 1]
    /\ overtaken' = overtaken \cup ({prodLock} \ {0})
    /\ edit' = "idle"
    /\ UNCHANGED <<prodLock, prodOp, request, draft, review, mishaps, unlinked>>

\* How an operation that has not ended is closed.
Closed(o) == [prodOp EXCEPT ![o].status = IF @ = "running" THEN "done" ELSE "undone"]

\* makeUnavailable() of a target with an agent goes on, and cancels what is
\* active by now if it had counted anything.  There is no connection to forget.
DisconnectAgent ==
    /\ edit # "idle"
    /\ Edits <= MaxEdits
    /\ inputs' = [inputs EXCEPT !.revision = @ + 1]
    /\ edit' = "idle"
    /\ IF edit = "busy" /\ prodLock # 0 THEN prodOp' = Closed(prodLock) /\ prodLock' = 0
       ELSE UNCHANGED <<prodOp, prodLock>>
    /\ UNCHANGED <<request, draft, review, mishaps, overtaken, unlinked>>

\* A stop or a start of production, which needs no request.
OtherOperation ==
    /\ prodLock = 0
    /\ \E o \in Free(ProdOps, prodOp) :
        /\ prodOp' = [prodOp EXCEPT ![o].status = "running"]
        /\ prodLock' = o
    /\ UNCHANGED <<inputs, request, draft, review, edit, mishaps, overtaken, unlinked>>

\* The operation ends, or recovery fails it; its environment is free again.
OperationEnds ==
    /\ prodLock # 0
    /\ prodOp[prodLock].status \in {"running", "lost"}
    /\ prodOp' = Closed(prodLock)
    /\ prodLock' = 0
    /\ UNCHANGED <<inputs, request, draft, review, edit, mishaps, overtaken, unlinked>>

-----------------------------------------------------------------------------
(* create(), cancel(), reject(), latest() *)

\* What a comparison sees of the inputs: of a target, the revision only.
Compared(i) == <<i.source, i.config, i.revision>>

\* snapshot() refuses an environment with an active operation.
Matches(q) == prodLock = 0 /\ Compared(request[q].token) = Compared(inputs)

ReadSnapshot ==
    /\ draft = Nothing
    /\ prodLock = 0
    /\ draft' = inputs
    /\ UNCHANGED <<inputs, prodLock, prodOp, request, review, edit, mishaps, overtaken, unlinked>>

\* One transaction: pending requests are replaced, and the partial unique index
\* refuses the new one while another is being approved.
Create ==
    /\ draft # Nothing
    /\ draft' = Nothing
    /\ \/ \E q \in Requests : request[q].status = "approving" /\ UNCHANGED request
       \/ /\ \A q \in Requests : request[q].status # "approving"
          /\ \E new \in Free(Requests, request) :
                request' = [q \in Requests |->
                    IF q = new THEN [status |-> "pending", token |-> draft]
                    ELSE IF request[q].status = "pending"
                         THEN [request[q] EXCEPT !.status = "stale"] ELSE request[q]]
    /\ UNCHANGED <<inputs, prodLock, prodOp, review, edit, mishaps, overtaken, unlinked>>

SetRequest(q, status) == request' = [request EXCEPT ![q].status = status]

\* A compare-and-set on "pending": cancel(), reject(), latest() when the inputs
\* it has read do not match, and create() taking back what it could not audit.
Settle(q) ==
    /\ request[q].status = "pending"
    /\ \E status \in {"cancelled", "rejected"} \cup (IF Matches(q) THEN {} ELSE {"stale"}) :
            SetRequest(q, status)
    /\ UNCHANGED <<inputs, prodLock, prodOp, draft, review, edit, mishaps, overtaken, unlinked>>

-----------------------------------------------------------------------------
(* approve() *)

Go(r, pc) == review' = [review EXCEPT ![r].pc = pc]
Stop(r) == review' = [review EXCEPT ![r] = NoReview]

ReviewRead(r) ==
    /\ review[r].pc = "idle"
    /\ \E q \in Requests :
        /\ request[q].status = "pending"
        /\ review' = [review EXCEPT ![r] = [pc |-> "read", request |-> q, op |-> 0]]
    /\ UNCHANGED <<inputs, prodLock, prodOp, request, draft, edit, mishaps, overtaken, unlinked>>

ReviewMatches(r) ==
    /\ review[r].pc = "read"
    /\ Matches(review[r].request)
    /\ Go(r, "matched")
    /\ UNCHANGED <<inputs, prodLock, prodOp, request, draft, edit, mishaps, overtaken, unlinked>>

\* markStale(): also a request that someone else is approving by now.
ReviewStale(r) ==
    LET q == review[r].request IN
    /\ review[r].pc = "read"
    /\ ~Matches(q)
    /\ IF request[q].status \in LiveRequest THEN SetRequest(q, "stale") ELSE UNCHANGED request
    /\ Stop(r)
    /\ UNCHANGED <<inputs, prodLock, prodOp, draft, edit, mishaps, overtaken, unlinked>>

\* Mutant: the request is claimed whatever its status is by now.
ClaimedAnyway(q) == TRUE

\* updateMany({ status: pending }, approving) finds the row.
Claimable(q) == request[q].status = "pending"

ReviewClaim(r) ==
    LET q == review[r].request IN
    /\ review[r].pc = "matched"
    /\ IF Claimable(q) THEN SetRequest(q, "approving") /\ Go(r, "claimed")
                       ELSE UNCHANGED request /\ Stop(r)
    /\ UNCHANGED <<inputs, prodLock, prodOp, draft, edit, mishaps, overtaken, unlinked>>

\* The catch of review(): a conflict makes the request stale, another error
\* lets it be reviewed again.
GiveBack(r, status) ==
    LET q == review[r].request IN
    /\ IF request[q].status = "approving" THEN SetRequest(q, status) ELSE UNCHANGED request
    /\ Stop(r)

Mishap ==
    /\ mishaps < MaxMishaps
    /\ mishaps' = mishaps + 1

\* What matchesExpectedState() compares: not the source, which the approved
\* version stands for.
AsApproved(q) ==
    inputs.config = request[q].token.config /\ inputs.revision = request[q].token.revision

\* begin() reads the environment and compares it.
BeginRead(r) ==
    /\ review[r].pc = "claimed"
    /\ IF AsApproved(review[r].request) THEN Go(r, "begun") /\ UNCHANGED request
       ELSE GiveBack(r, "stale")
    /\ UNCHANGED <<inputs, prodLock, prodOp, draft, edit, mishaps, overtaken, unlinked>>

\* The transaction of begin(): the operation takes the environment if it is
\* free and its configuration as approved; if not, the request is pending again.
BeginLock(r) ==
    LET q == review[r].request IN
    /\ review[r].pc = "begun"
    /\ \E o \in Free(ProdOps, prodOp) :
        IF prodLock = 0 /\ inputs.config = request[q].token.config
        THEN /\ prodLock' = o
             /\ prodOp' = [prodOp EXCEPT ![o] = [status |-> "claimed", request |-> q]]
             /\ review' = [review EXCEPT ![r].pc = "locked", ![r].op = o]
             /\ UNCHANGED request
        ELSE GiveBack(r, "pending") /\ UNCHANGED <<prodLock, prodOp>>
    /\ UNCHANGED <<inputs, draft, edit, mishaps, overtaken, unlinked>>

\* The quota of concurrent operations is reached, which is a conflict too.
QuotaReached(r) ==
    /\ review[r].pc = "begun"
    /\ Mishap
    /\ GiveBack(r, "stale")
    /\ UNCHANGED <<inputs, prodLock, prodOp, draft, edit, overtaken, unlinked>>

\* Mutant: what changed while the environment was being locked is not noticed.
NotRechecked(q) == TRUE

\* The second matchesExpectedState(), with the environment locked.
Rechecked(q) == AsApproved(q)

\* cancelUnstarted(): the environment is freed if it is still taken by o.
Undo(o) ==
    /\ prodOp' = [prodOp EXCEPT ![o].status = "undone"]
    /\ prodLock' = IF prodLock = o THEN 0 ELSE prodLock

BeginRecheck(r) ==
    LET o == review[r].op IN
    /\ review[r].pc = "locked"
    /\ IF Rechecked(review[r].request)
       THEN /\ prodOp' = [prodOp EXCEPT ![o].status = "running"]
            /\ Go(r, "scheduled")
            /\ UNCHANGED <<prodLock, request>>
       ELSE Undo(o) /\ GiveBack(r, "stale")
    /\ UNCHANGED <<inputs, draft, edit, mishaps, overtaken, unlinked>>

\* The audit event of the acceptance or of the operation cannot be stored: the
\* operation, if there is one, is undone and the request can be reviewed again.
AuditFails(r) ==
    LET o == review[r].op IN
    /\ review[r].pc \in {"claimed", "locked"}
    /\ Mishap
    /\ IF o = 0 THEN UNCHANGED <<prodLock, prodOp>> ELSE Undo(o)
    /\ GiveBack(r, "pending")
    /\ UNCHANGED <<inputs, draft, edit, overtaken, unlinked>>

\* update({ id }, approved): with no look at the status.
ReviewDone(r) ==
    /\ review[r].pc = "scheduled"
    /\ SetRequest(review[r].request, "approved")
    /\ Stop(r)
    /\ UNCHANGED <<inputs, prodLock, prodOp, draft, edit, mishaps, overtaken, unlinked>>

\* That statement fails: the request is pending again and its operation runs.
LinkFails(r) ==
    /\ review[r].pc = "scheduled"
    /\ Mishap
    /\ unlinked' = unlinked \cup {review[r].request}
    /\ GiveBack(r, "pending")
    /\ UNCHANGED <<inputs, prodLock, prodOp, draft, edit, overtaken>>

\* The process dies.  Nothing looks for a request that was being approved.
ReviewCrash(r) ==
    /\ review[r].pc # "idle"
    /\ Mishap
    /\ prodOp' = IF review[r].pc = "locked" /\ prodLock = review[r].op
                 THEN [prodOp EXCEPT ![review[r].op].status = "lost"] ELSE prodOp
    /\ Stop(r)
    /\ UNCHANGED <<inputs, prodLock, request, draft, edit, overtaken, unlinked>>

ApprovalsNext ==
    \/ EditSource \/ EditConfig \/ TouchTarget \/ CountOperations \/ EditTarget \/ DisconnectAgent
    \/ OtherOperation \/ OperationEnds
    \/ ReadSnapshot \/ Create
    \/ \E q \in Requests : Settle(q)
    \/ \E r \in Reviewers :
        \/ ReviewRead(r) \/ ReviewMatches(r) \/ ReviewStale(r) \/ ReviewClaim(r)
        \/ BeginRead(r) \/ BeginLock(r) \/ QuotaReached(r) \/ BeginRecheck(r) \/ AuditFails(r)
        \/ ReviewDone(r) \/ LinkFails(r) \/ ReviewCrash(r)

ApprovalsSpec == ApprovalsInit /\ [][ApprovalsNext]_approvalVars

-----------------------------------------------------------------------------
(* Properties *)

\* What the deployment of a request uses is what its reviewer has seen.
UsesApproved(q) ==
    inputs.config = request[q].token.config /\ inputs.settings = request[q].token.settings

\* A deployment that an approval has started finds the configuration and the
\* settings of the target that the reviewer approved for as long as it runs,
\* unless a change of the target had counted the operations before it began.
\* begin() compares revisions only, and they move for other reasons too.
RunsWhatWasApproved ==
    \A r \in Reviewers : review[r].pc = "scheduled" /\ prodOp[review[r].op].status = "running"
        /\ review[r].op \notin overtaken => UsesApproved(review[r].request)

\* One approval starts one deployment: reviewers who press the button together,
\* repeat it or meet errors start no second one, unless the first could not be
\* stored with the request.
OneDeploymentPerRequest ==
    \A o, p \in ProdOps : o # p /\ prodOp[o].request = prodOp[p].request
        /\ prodOp[o].request \notin unlinked \cup {0}
        /\ prodOp[o].status \in {"running", "done"} => prodOp[p].status \notin {"running", "done"}

=============================================================================
