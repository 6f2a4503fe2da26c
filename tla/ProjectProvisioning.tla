-------------------------- MODULE ProjectProvisioning --------------------------
(***************************************************************************)
(* Setting up a project: create() and importExisting() of                  *)
(* projects.service.ts over the effect journal of provisioning.service.ts, *)
(* the retry of a failed attempt, the cleanup of what it left, and the     *)
(* recovery of an attempt whose lease ran out.  One repository name is     *)
(* modelled; the checkout, the collaborators (handled like the repository  *)
(* by create, like the secrets by import) and the environments are not.    *)
(***************************************************************************)
EXTENDS Naturals, FiniteSets

CONSTANTS
    ProvCalls,      \* calls of retryProvisioning() or cleanupProvisioning()
    MaxAttempts,    \* bound: attempts, numbered by creation
    MaxProvFaults   \* bound: calls and statements that fail, and crashes

ASSUME ProvisioningAssumption == MaxAttempts \in Nat \ {0} /\ MaxProvFaults \in Nat

VARIABLES
    setup,      \* what is asked for, and of which provider
    repository, \* the repository of that name: the attempt that made it
    secrets,    \* the attempt that wrote InitPad's secrets into it
    record,     \* the Project row of that name: the attempt that made it
    attempt,    \* ProvisioningOperation rows
    effect,     \* ProvisioningEffect rows of each attempt
    setter,     \* the create() or importExisting() call of each attempt
    helper,     \* calls of retry and of cleanup
    provFaults, \* failures so far
    late        \* history: attempts whose lease ran out under a live call

provVars == <<setup, repository, secrets, record, attempt, effect, setter, helper, provFaults, late>>

Attempts == 1..MaxAttempts
Somebody == MaxAttempts + 1       \* a repository InitPad did not create
Effects == {"repository", "project", "secrets"}
NoEffects == [k \in Effects |-> "absent"]
NoAttempt == [status |-> "absent", bound |-> 0, of |-> 0, owner |-> 0]
NoHelp == [pc |-> "idle", of |-> 0, seen |-> NoEffects, bound |-> 0]
Safe == {"absent", "planned", "compensated"}

ProvInit ==
    /\ setup \in [kind : {"create"}, scm : {"github", "gitea"}] \cup [kind : {"import"}, scm : {"github"}]
    /\ repository \in IF setup.kind = "import" THEN {Somebody} ELSE {0, Somebody}
    /\ secrets = 0
    /\ record = 0
    /\ attempt = [a \in Attempts |-> IF a = 1 THEN [NoAttempt EXCEPT !.status = "running"] ELSE NoAttempt]
    /\ effect = [a \in Attempts |-> NoEffects]
    /\ setter = [a \in Attempts |-> IF a = 1 THEN "check" ELSE "none"]
    /\ helper = [h \in ProvCalls |-> NoHelp]
    /\ provFaults = 0
    /\ late = {}

Creates == setup.kind = "create"
FirstEffect == IF Creates THEN "repository" ELSE "project"

-----------------------------------------------------------------------------
(* The journal *)

\* transitionEffect(): a compare-and-set on the status of one effect.
Moved(a, k, from, to) == [effect EXCEPT ![a][k] = IF @ \in from THEN to ELSE @]
Compensable == {"planned", "applying", "applied", "failed", "compensation_failed", "reconciliation_required"}
Compensated(a, k) == Moved(a, k, Compensable, "compensated")
NotCompensated(a, k) == Moved(a, k, Compensable \ {"planned"}, "compensation_failed")
FailedEffect(a, k) == Moved(a, k, {"planned", "applying"}, "failed")

\* renewLease() refuses every status but "running".
Leased(a) == attempt[a].status = "running"

ProvFault == provFaults < MaxProvFaults /\ provFaults' = provFaults + 1
Goes(a, pc) == setter' = [setter EXCEPT ![a] = pc]

-----------------------------------------------------------------------------
(* The call that carries an attempt out *)

\* A project of that name refuses a new one; otherwise the first effect is
\* planned, before anything happens outside.
PlanFirst(a) ==
    /\ setter[a] = "check"
    /\ \/ record # 0 /\ Goes(a, "fail") /\ UNCHANGED effect
       \/ /\ record = 0
          /\ effect' = [effect EXCEPT ![a][FirstEffect] = "planned"]
          /\ Goes(a, IF Creates THEN "repository" ELSE "project")
    /\ UNCHANGED <<setup, repository, secrets, record, attempt, helper, provFaults, late>>

BeginRepository(a) ==
    /\ setter[a] = "repository"
    /\ IF Leased(a)
       THEN effect' = Moved(a, "repository", {"planned"}, "applying") /\ Goes(a, "provision")
       ELSE Goes(a, "fail") /\ UNCHANGED effect
    /\ UNCHANGED <<setup, repository, secrets, record, attempt, helper, provFaults, late>>

\* provision(): GitHub refuses a name that is taken, Gitea goes on with the
\* repository it finds.  After a failing push GitHub deletes what it created,
\* if that works; Gitea leaves it.
Provision(a) ==
    /\ setter[a] = "provision"
    /\ \/ /\ repository = 0 \/ setup.scm = "gitea"
          /\ repository' = IF repository = 0 THEN a ELSE repository
          /\ Goes(a, "provisioned")
          /\ UNCHANGED <<effect, provFaults>>
       \/ /\ repository # 0 /\ setup.scm = "github"
          /\ effect' = FailedEffect(a, "repository")
          /\ Goes(a, "fail")
          /\ UNCHANGED <<repository, provFaults>>
       \/ /\ ProvFault
          /\ repository' \in {repository} \cup (IF repository = 0 THEN {a} ELSE {})
          /\ effect' = FailedEffect(a, "repository")
          /\ Goes(a, "fail")
    /\ UNCHANGED <<setup, secrets, record, attempt, helper, late>>

\* completeEffect() moves the effect and then renews the lease; when either
\* fails the repository, whose identity is known by now, is deleted again.
CompleteRepository(a) ==
    /\ setter[a] = "provisioned"
    /\ effect' = Moved(a, "repository", {"applying"}, "applied")
    /\ Goes(a, IF effect[a].repository = "applying" /\ Leased(a) THEN "record" ELSE "unrepository")
    /\ UNCHANGED <<setup, repository, secrets, record, attempt, helper, provFaults, late>>

\* The project row: its effect is planned and begun (import planned it first).
BeginProject(a) ==
    /\ setter[a] \in {"record", "project"}
    /\ \/ /\ Leased(a)
          /\ effect' = [effect EXCEPT ![a].project = "applying"]
          /\ Goes(a, "insert")
       \/ /\ ~Leased(a)
          /\ effect' = [effect EXCEPT ![a].project = IF Creates THEN "failed" ELSE "planned"]
          /\ Goes(a, IF Creates THEN "unrepository" ELSE "fail")
    /\ UNCHANGED <<setup, repository, secrets, record, attempt, helper, provFaults, late>>

\* The name is unique in its workspace.
InsertProject(a) ==
    /\ setter[a] = "insert"
    /\ \/ record = 0 /\ record' = a /\ Goes(a, "bind") /\ UNCHANGED <<effect, provFaults>>
       \/ /\ \/ record # 0 /\ UNCHANGED provFaults
             \/ ProvFault
          /\ effect' = FailedEffect(a, "project")
          /\ Goes(a, IF Creates THEN "unrepository" ELSE "fail")
          /\ UNCHANGED record
    /\ UNCHANGED <<setup, repository, secrets, attempt, helper, late>>

BindProject(a) ==
    /\ setter[a] = "bind"
    /\ \/ attempt' = [attempt EXCEPT ![a].bound = a] /\ Goes(a, "inserted") /\ UNCHANGED provFaults
       \/ ProvFault /\ Goes(a, "unrecord") /\ UNCHANGED attempt
    /\ UNCHANGED <<setup, repository, secrets, record, effect, helper, late>>

CompleteProject(a) ==
    /\ setter[a] = "inserted"
    /\ effect' = Moved(a, "project", {"applying"}, "applied")
    /\ Goes(a, IF effect[a].project # "applying" \/ ~Leased(a) THEN "unrecord"
                ELSE IF Creates THEN "succeed" ELSE "secrets")
    /\ UNCHANGED <<setup, repository, secrets, record, attempt, helper, provFaults, late>>

\* The row is deleted and unbound; what became of that is journalled after the
\* repository has been undone.  Import journals it here.
UndoProject(a) ==
    /\ setter[a] = "unrecord"
    /\ LET failed == IF effect[a].project \in {"planned", "applying"} THEN "failed" ELSE effect[a].project IN
        \/ /\ record' = IF record = a THEN 0 ELSE record
           /\ attempt' = [attempt EXCEPT ![a].bound = 0]
           /\ effect' = [effect EXCEPT ![a].project = IF Creates THEN failed ELSE "compensated"]
           /\ Goes(a, IF Creates THEN "unrepository" ELSE "fail")
           /\ UNCHANGED provFaults
        \/ /\ ProvFault
           /\ effect' = [effect EXCEPT ![a].project = IF Creates THEN failed ELSE "compensation_failed"]
           /\ Goes(a, IF Creates THEN "unrepository, row kept" ELSE "fail")
           /\ UNCHANGED <<record, attempt>>
    /\ UNCHANGED <<setup, repository, secrets, helper, late>>

\* deleteRepo() goes by owner and name.
UndoRepository(a) ==
    /\ setter[a] \in {"unrepository", "unrepository, row kept"}
    /\ LET project == (IF setter[a] = "unrepository" THEN Compensated(a, "project")
                       ELSE NotCompensated(a, "project"))[a].project IN
        \/ /\ repository' = 0
           /\ effect' = [Compensated(a, "repository") EXCEPT ![a].project = project]
           /\ UNCHANGED provFaults
        \/ /\ ProvFault
           /\ effect' = [NotCompensated(a, "repository") EXCEPT ![a].project = project]
           /\ UNCHANGED repository
    /\ Goes(a, "fail")
    /\ UNCHANGED <<setup, secrets, record, attempt, helper, late>>

\* Import: the secrets are planned and begun, then written; a failing call may
\* have written some of them.
BeginSecrets(a) ==
    /\ setter[a] = "secrets"
    /\ IF Leased(a)
       THEN effect' = [effect EXCEPT ![a].secrets = "applying"] /\ Goes(a, "write")
       ELSE effect' = [effect EXCEPT ![a].secrets = "planned"] /\ Goes(a, "unimport")
    /\ UNCHANGED <<setup, repository, secrets, record, attempt, helper, provFaults, late>>

WriteSecrets(a) ==
    /\ setter[a] = "write"
    /\ secrets' = a
    /\ \/ Goes(a, "written") /\ UNCHANGED <<effect, provFaults>>
       \/ ProvFault /\ effect' = FailedEffect(a, "secrets") /\ Goes(a, "unsecrets")
    /\ UNCHANGED <<setup, repository, record, attempt, helper, late>>

CompleteSecrets(a) ==
    /\ setter[a] = "written"
    /\ effect' = Moved(a, "secrets", {"applying"}, "applied")
    /\ Goes(a, IF effect[a].secrets = "applying" /\ Leased(a) THEN "succeed" ELSE "unsecrets")
    /\ UNCHANGED <<setup, repository, secrets, record, attempt, helper, provFaults, late>>

\* The project is deleted only when everything outside has been undone.
UndoSecrets(a) ==
    /\ setter[a] = "unsecrets"
    /\ \/ secrets' = 0 /\ effect' = Compensated(a, "secrets") /\ Goes(a, "unimport") /\ UNCHANGED provFaults
       \/ ProvFault /\ effect' = NotCompensated(a, "secrets") /\ Goes(a, "fail") /\ UNCHANGED secrets
    /\ UNCHANGED <<setup, repository, record, attempt, helper, late>>

UndoImport(a) ==
    /\ setter[a] = "unimport"
    /\ \/ /\ record' = IF record = a THEN 0 ELSE record
          /\ attempt' = [attempt EXCEPT ![a].bound = 0]
          /\ effect' = Compensated(a, "project")
          /\ UNCHANGED provFaults
       \/ ProvFault /\ effect' = NotCompensated(a, "project") /\ UNCHANGED <<record, attempt>>
    /\ Goes(a, "fail")
    /\ UNCHANGED <<setup, repository, secrets, helper, late>>

\* succeed() and fail() write without a guard and swallow their own failure.
EndAttempt(a) ==
    /\ setter[a] \in {"succeed", "fail"}
    /\ attempt' = [attempt EXCEPT ![a].status = IF setter[a] = "succeed" THEN "succeeded" ELSE "failed",
                                  ![a].bound = IF setter[a] = "succeed" THEN a ELSE @]
    /\ Goes(a, "none")
    /\ UNCHANGED <<setup, repository, secrets, record, effect, helper, provFaults, late>>

AttemptCrash(a) ==
    /\ setter[a] # "none"
    /\ ProvFault
    /\ Goes(a, "none")
    /\ UNCHANGED <<setup, repository, secrets, record, attempt, effect, helper, late>>

-----------------------------------------------------------------------------
(* reconcileStale(): the row first, its effects in a second statement *)

Working(a) ==
    \/ setter[a] # "none"
    \/ \E h \in ProvCalls : helper[h].of = a /\ helper[h].pc \in {"outside", "row", "finish", "release"}

\* A call that is still at work may have outlasted its five minutes.
Interrupt(a) ==
    /\ attempt[a].status \in {"running", "cleaning", "retrying"}
    /\ attempt' = [attempt EXCEPT ![a].status = "interrupted", ![a].owner = 0]
    /\ IF Working(a) THEN ProvFault /\ late' = late \cup {a} ELSE UNCHANGED <<provFaults, late>>
    /\ UNCHANGED <<setup, repository, secrets, record, effect, setter, helper>>

Reconcile(a) ==
    /\ attempt[a].status = "interrupted"
    /\ effect' = [effect EXCEPT
           ![a] = [k \in Effects |->
                       IF @[k] = "applying" THEN "reconciliation_required" ELSE @[k]]]
    /\ effect' # effect
    /\ UNCHANGED <<setup, repository, secrets, record, attempt, setter, helper, provFaults, late>>

-----------------------------------------------------------------------------
(* retryProvisioning() *)

Ended(a) == attempt[a].status \in {"failed", "interrupted"}
Helps(h, pc) == helper' = [helper EXCEPT ![h].pc = pc]

\* Mutant: an attempt that has come to an end can be retried, cleaned or not.
RetryableUnclean(a) == Ended(a)

\* isRetryable(): every effect is planned or compensated.
Retryable(a) == Ended(a) /\ \A k \in Effects : effect[a][k] \in Safe

ReadForRetry(h, a) ==
    /\ helper[h].pc = "idle"
    /\ Retryable(a)
    /\ helper' = [helper EXCEPT ![h] = [NoHelp EXCEPT !.pc = "retry", !.of = a]]
    /\ UNCHANGED <<setup, repository, secrets, record, attempt, effect, setter, provFaults, late>>

ClaimRetry(h) ==
    /\ helper[h].pc = "retry"
    /\ LET a == helper[h].of IN
        IF Ended(a)
        THEN attempt' = [attempt EXCEPT ![a].status = "retrying", ![a].owner = h] /\ Helps(h, "start")
        ELSE helper' = [helper EXCEPT ![h] = NoHelp] /\ UNCHANGED attempt
    /\ UNCHANGED <<setup, repository, secrets, record, effect, setter, provFaults, late>>

\* start() retires the predecessor it has claimed, or rolls back.
StillOurs(h) == attempt[helper[h].of].status = "retrying" /\ attempt[helper[h].of].owner = h

StartRetry(h) ==
    /\ helper[h].pc = "start"
    /\ StillOurs(h)
    /\ \E b \in Attempts :
        /\ attempt[b].status = "absent"
        /\ \A c \in 1..(b - 1) : attempt[c].status # "absent"
        /\ attempt' = [attempt EXCEPT ![helper[h].of].status = "retried",
                                      ![helper[h].of].owner = 0,
                                      ![b].status = "running",
                                      ![b].of = helper[h].of]
        /\ setter' = [setter EXCEPT ![b] = "check"]
    /\ helper' = [helper EXCEPT ![h] = NoHelp]
    /\ UNCHANGED <<setup, repository, secrets, record, effect, provFaults, late>>

\* The call fails before the transaction of start(), or the transaction does: no
\* operation is free in the workspace, or the claim is gone.
ReleaseRetry(h) ==
    /\ helper[h].pc = "start"
    /\ IF StillOurs(h)
       THEN ProvFault /\ attempt' = [attempt EXCEPT ![helper[h].of].status = "failed", ![helper[h].of].owner = 0]
       ELSE UNCHANGED <<attempt, provFaults>>
    /\ helper' = [helper EXCEPT ![h] = NoHelp]
    /\ UNCHANGED <<setup, repository, secrets, record, effect, setter, late>>

-----------------------------------------------------------------------------
(* cleanupProvisioning() works on the effects it read before its claim *)

ReadForCleanup(h, a) ==
    /\ helper[h].pc = "idle"
    /\ Ended(a)
    /\ \E k \in Effects : effect[a][k] \notin Safe
    /\ helper' = [helper EXCEPT ![h] = [pc |-> "clean", of |-> a, seen |-> effect[a], bound |-> attempt[a].bound]]
    /\ UNCHANGED <<setup, repository, secrets, record, attempt, effect, setter, provFaults, late>>

Seen(h, k) == helper[h].seen[k] \notin Safe
Bound(h) == helper[h].bound # 0 /\ record = helper[h].bound

ClaimCleanup(h) ==
    /\ helper[h].pc = "clean"
    /\ LET a == helper[h].of IN
        IF Ended(a)
        THEN attempt' = [attempt EXCEPT ![a].status = "cleaning", ![a].owner = h] /\ Helps(h, "outside")
        ELSE helper' = [helper EXCEPT ![h] = NoHelp] /\ UNCHANGED attempt
    /\ UNCHANGED <<setup, repository, secrets, record, effect, setter, provFaults, late>>

\* What is outside goes first: the repository of a create, by owner and name
\* of its row or of the planned effect; the secrets of an import, unless its
\* row is missing.
CleanOutside(h) ==
    LET a == helper[h].of
        k == IF Creates THEN "repository" ELSE "secrets"
    IN
    /\ helper[h].pc = "outside"
    /\ \/ ~Seen(h, k) /\ Helps(h, "row") /\ UNCHANGED <<repository, secrets, effect, provFaults>>
       \/ /\ Seen(h, k) /\ ~Creates /\ ~Bound(h)
          /\ Helps(h, "release")
          /\ UNCHANGED <<repository, secrets, effect, provFaults>>
       \/ /\ Seen(h, k) /\ (Creates \/ Bound(h))
          /\ \/ /\ repository' = IF Creates THEN 0 ELSE repository
                /\ secrets' = 0
                /\ effect' = Compensated(a, k)
                /\ Helps(h, IF effect[a][k] \in Compensable THEN "row" ELSE "release")
                /\ UNCHANGED provFaults
             \/ /\ ProvFault
                /\ effect' = NotCompensated(a, k)
                /\ Helps(h, "release")
                /\ UNCHANGED <<repository, secrets>>
    /\ UNCHANGED <<setup, record, attempt, setter, late>>

\* Then the project row, if the operation knows it.
CleanRow(h) ==
    LET a == helper[h].of IN
    /\ helper[h].pc = "row"
    /\ \/ /\ Bound(h)
          /\ record' = 0
          /\ attempt' = [attempt EXCEPT ![a].bound = 0]
          /\ effect' = Compensated(a, "project")
          /\ Helps(h, "finish")
          /\ UNCHANGED provFaults
       \/ /\ Bound(h)
          /\ ProvFault
          /\ effect' = NotCompensated(a, "project")
          /\ Helps(h, "release")
          /\ UNCHANGED <<record, attempt>>
       \/ /\ ~Bound(h)
          /\ effect' = IF Seen(h, "project") THEN Compensated(a, "project") ELSE effect
          /\ attempt' = IF Seen(h, "project") THEN [attempt EXCEPT ![a].bound = 0] ELSE attempt
          /\ Helps(h, "finish")
          /\ UNCHANGED <<record, provFaults>>
    /\ UNCHANGED <<setup, repository, secrets, setter, late>>

\* cleanupFinished() is not guarded, releaseCleanup() is.
EndCleanup(h) ==
    LET a == helper[h].of IN
    /\ helper[h].pc \in {"finish", "release"}
    /\ attempt' = IF helper[h].pc = "finish" \/ (attempt[a].status = "cleaning" /\ attempt[a].owner = h)
                  THEN [attempt EXCEPT ![a].status = "failed", ![a].owner = 0] ELSE attempt
    /\ helper' = [helper EXCEPT ![h] = NoHelp]
    /\ UNCHANGED <<setup, repository, secrets, record, effect, setter, provFaults, late>>

HelperCrash(h) ==
    /\ helper[h].pc \notin {"idle", "retry", "clean"}
    /\ ProvFault
    /\ helper' = [helper EXCEPT ![h] = NoHelp]
    /\ UNCHANGED <<setup, repository, secrets, record, attempt, effect, setter, late>>

\* Somebody else takes the name while it is free.
TakeName ==
    /\ repository = 0
    /\ repository' = Somebody
    /\ ProvFault
    /\ UNCHANGED <<setup, secrets, record, attempt, effect, setter, helper, late>>

ProvNext ==
    \/ \E a \in Attempts :
        \/ PlanFirst(a) \/ BeginRepository(a) \/ Provision(a) \/ CompleteRepository(a)
        \/ BeginProject(a) \/ InsertProject(a) \/ BindProject(a) \/ CompleteProject(a)
        \/ UndoProject(a) \/ UndoRepository(a)
        \/ BeginSecrets(a) \/ WriteSecrets(a) \/ CompleteSecrets(a) \/ UndoSecrets(a) \/ UndoImport(a)
        \/ EndAttempt(a) \/ AttemptCrash(a) \/ Interrupt(a) \/ Reconcile(a)
    \/ \E h \in ProvCalls :
        \/ \E a \in Attempts : ReadForRetry(h, a) \/ ReadForCleanup(h, a)
        \/ ClaimRetry(h) \/ StartRetry(h) \/ ReleaseRetry(h)
        \/ ClaimCleanup(h) \/ CleanOutside(h) \/ CleanRow(h) \/ EndCleanup(h) \/ HelperCrash(h)
    \/ TakeName

ProvSpec == ProvInit /\ [][ProvNext]_provVars

-----------------------------------------------------------------------------
(* Properties *)

\* A retry starts from nothing: what earlier attempts made outside and their
\* project row are gone (isRetryable(), the compensations of create() and of
\* importExisting(), and cleanupProvisioningEffects()), as long as no call has
\* outlasted its lease.  A row that its operation was never bound to, because
\* the call died in between, is found by no cleanup and may remain.
RetryStartsClean ==
    [][\A b \in Attempts :
        (attempt[b].status = "absent" /\ attempt'[b].status # "absent" /\ late = {}) =>
            /\ repository \notin Attempts /\ secrets \notin Attempts
            /\ record \in Attempts => attempt[record].bound = 0]_provVars

\* Setting up a project deletes no repository that it did not create
\* (deleteRepo() in create() and in cleanupProvisioningEffects()).
DeletesOwnRepository == [][repository = Somebody => repository' = Somebody]_provVars
=============================================================================
