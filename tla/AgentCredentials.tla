--------------------------- MODULE AgentCredentials ---------------------------
(***************************************************************************)
(* The identity of an Agent: enrollment, heartbeats and the rotation of    *)
(* the credential in agents.service.ts, its revocation by disconnecting    *)
(* the target (targets.service.ts), and the Agent's side of the rotation   *)
(* (credential-rotation.ts and heartbeatOnce() of runtime.ts over the file *)
(* of config.ts).  Credentials are numbers in the order they are made;     *)
(* their generations follow from them.  Requests may arrive after their    *)
(* sender has given them up.                                               *)
(***************************************************************************)
EXTENDS Naturals, FiniteSets

CONSTANTS
    MaxCredentials,     \* bound: credentials made
    MaxTokens,          \* bound: enrollment tokens issued
    MaxHeartbeats,      \* bound: heartbeats the control plane handles at a time
    MaxUpsets           \* bound: lost answers, crashes and revocations

ASSUME CredentialsAssumption ==
    MaxCredentials \in Nat \ {0} /\ MaxTokens \in Nat /\ MaxHeartbeats \in Nat /\ MaxUpsets \in Nat

VARIABLES
    identity,   \* the Agent row: active and pending credential, token, disabled
    made,       \* credentials made so far
    beat,       \* heartbeats in the control plane
    onDisk,     \* the credentials in the Agent's file
    inMemory,   \* those of the running process
    agentPc,    \* where its heartbeat loop is
    awaited,    \* the heartbeat whose answer it waits for
    enroller,   \* the enroll command: its token, then its credential
    lastSeen,   \* history: the credential of the last accepted heartbeat
    revoked,    \* history: credentials taken away by an administrator
    upsets

credentialVars == <<identity, made, beat, onDisk, inMemory, agentPc, awaited, enroller, lastSeen, revoked, upsets>>

Beats == 1..MaxHeartbeats
NoBeat == [pc |-> "free", cred |-> 0, slot |-> "none", gift |-> 0]
Only(c) == [cred |-> c, prev |-> 0]
NotEnrolling == [pc |-> "none", token |-> 0, cred |-> 0]

CredentialsInit ==
    /\ identity = [active |-> 1, pending |-> 0, stale |-> FALSE, token |-> 0, disabled |-> FALSE]
    /\ made = [credentials |-> 1, tokens |-> 0]
    /\ beat = [b \in Beats |-> NoBeat]
    /\ onDisk = Only(1)
    /\ inMemory = Only(0)
    /\ agentPc = "down"
    /\ awaited = 0
    /\ enroller = NotEnrolling
    /\ lastSeen = 0
    /\ revoked = {}
    /\ upsets = 0

Upset == upsets < MaxUpsets /\ upsets' = upsets + 1
NewCredential == made.credentials < MaxCredentials /\ made' = [made EXCEPT !.credentials = @ + 1]
Taken(row) == {row.active, row.pending} \ {0}

-----------------------------------------------------------------------------
(* The control plane: heartbeat() *)

BeatAt(b, pc) == beat' = [beat EXCEPT ![b].pc = pc]

\* authenticateCredential() finds the credential in one of the two slots.
AuthenticateBeat(b) ==
    /\ beat[b].pc = "sent"
    /\ LET c == beat[b].cred IN
        IF identity.disabled \/ c \notin Taken(identity)
        THEN BeatAt(b, "refused")
        ELSE beat' = [beat EXCEPT ![b].pc = "accept",
                                  ![b].slot = IF c = identity.pending THEN "pending" ELSE "active"]
    /\ UNCHANGED <<identity, made, onDisk, inMemory, agentPc, awaited, enroller, lastSeen, revoked, upsets>>

\* Mutant: the row is written by its id, as it was when it was looked up.
AcceptableById(b) == TRUE

\* The write is a compare-and-set on the slot the credential was found in.
Acceptable(b) ==
    /\ ~identity.disabled
    /\ beat[b].cred = IF beat[b].slot = "pending" THEN identity.pending ELSE identity.active

AcceptBeat(b) ==
    /\ beat[b].pc = "accept"
    /\ IF Acceptable(b)
       THEN /\ lastSeen' = beat[b].cred
            /\ IF beat[b].slot = "pending"
               THEN /\ identity' = [identity EXCEPT !.active = beat[b].cred, !.pending = 0, !.stale = FALSE]
                    /\ BeatAt(b, "answered")
               ELSE UNCHANGED identity /\ BeatAt(b, "issue")
       ELSE BeatAt(b, "refused") /\ UNCHANGED <<identity, lastSeen>>
    /\ UNCHANGED <<made, onDisk, inMemory, agentPc, awaited, enroller, revoked, upsets>>

\* A pending credential is replaced once it is a day old.
Offerable(b) ==
    /\ identity.active = beat[b].cred /\ ~identity.disabled
    /\ identity.pending = 0 \/ identity.stale

\* An active credential may be due for rotation.
OfferCredential(b) ==
    /\ beat[b].pc = "issue"
    /\ \/ /\ Offerable(b)
          /\ NewCredential
          /\ identity' = [identity EXCEPT !.pending = made.credentials + 1, !.stale = FALSE]
          /\ beat' = [beat EXCEPT ![b].pc = "answered", ![b].gift = made.credentials + 1]
       \/ BeatAt(b, "answered") /\ UNCHANGED <<identity, made>>
    /\ UNCHANGED <<onDisk, inMemory, agentPc, awaited, enroller, lastSeen, revoked, upsets>>

\* Nobody waits for the answer any more.
DropBeat(b) ==
    /\ beat[b].pc \in {"answered", "refused"}
    /\ awaited # b
    /\ beat' = [beat EXCEPT ![b] = NoBeat]
    /\ UNCHANGED <<identity, made, onDisk, inMemory, agentPc, awaited, enroller, lastSeen, revoked, upsets>>

PendingAges ==
    /\ identity.pending # 0 /\ ~identity.stale
    /\ identity' = [identity EXCEPT !.stale = TRUE]
    /\ UNCHANGED <<made, beat, onDisk, inMemory, agentPc, awaited, enroller, lastSeen, revoked, upsets>>

\* makeUnavailable(): a target is disconnected or retired.
MakeUnavailable ==
    /\ ~identity.disabled
    /\ Upset
    /\ identity' = [active |-> 0, pending |-> 0, stale |-> FALSE, token |-> 0, disabled |-> TRUE]
    /\ revoked' = revoked \cup Taken(identity)
    /\ UNCHANGED <<made, beat, onDisk, inMemory, agentPc, awaited, enroller, lastSeen>>

-----------------------------------------------------------------------------
(* Enrollment, by a command that runs while the Agent is stopped *)

IssueEnrollment ==
    /\ made.tokens < MaxTokens
    /\ made' = [made EXCEPT !.tokens = @ + 1]
    /\ identity' = [identity EXCEPT !.token = made.tokens + 1, !.disabled = FALSE]
    /\ UNCHANGED <<beat, onDisk, inMemory, agentPc, awaited, enroller, lastSeen, revoked, upsets>>

ReadToken ==
    /\ agentPc = "down" /\ enroller.pc \in {"none", "lost"}
    /\ identity.token # 0 /\ ~identity.disabled
    /\ enroller' = [enroller EXCEPT !.pc = "read", !.token = identity.token]
    /\ UNCHANGED <<identity, made, beat, onDisk, inMemory, agentPc, awaited, lastSeen, revoked, upsets>>

\* One use of a token: a compare-and-set on its hash.
RedeemToken ==
    /\ enroller.pc = "read"
    /\ IF identity.token = enroller.token /\ ~identity.disabled
       THEN /\ NewCredential
            /\ identity' = [active |-> made.credentials + 1, pending |-> 0, stale |-> FALSE,
                            token |-> 0, disabled |-> FALSE]
            /\ revoked' = revoked \cup Taken(identity)
            /\ enroller' = [enroller EXCEPT !.pc = "redeemed", !.cred = made.credentials + 1]
       ELSE /\ enroller' = [enroller EXCEPT !.pc = IF enroller.cred = 0 THEN "none" ELSE "lost"]
            /\ UNCHANGED <<identity, made, revoked>>
    /\ UNCHANGED <<beat, onDisk, inMemory, agentPc, awaited, lastSeen, upsets>>

\* The command writes its answer to the file, or never gets it.
SaveEnrollment ==
    /\ enroller.pc = "redeemed"
    /\ \/ onDisk' = Only(enroller.cred) /\ enroller' = NotEnrolling /\ UNCHANGED upsets
       \/ Upset /\ enroller' = [enroller EXCEPT !.pc = "lost"] /\ UNCHANGED onDisk
    /\ UNCHANGED <<identity, made, beat, inMemory, agentPc, awaited, lastSeen, revoked>>

-----------------------------------------------------------------------------
(* The Agent: heartbeatOnce() and reconcileCredentialRotation() *)

StartAgent ==
    /\ agentPc = "down" /\ enroller.pc \in {"none", "lost"}
    /\ inMemory' = onDisk
    /\ agentPc' = "idle"
    /\ UNCHANGED <<identity, made, beat, onDisk, awaited, enroller, lastSeen, revoked, upsets>>

\* Sends a heartbeat with credential c and waits at pc.
Send(c, pc) ==
    /\ \E b \in Beats :
        /\ beat[b].pc = "free"
        /\ beat' = [beat EXCEPT ![b] = [NoBeat EXCEPT !.pc = "sent", !.cred = c]]
        /\ awaited' = b
    /\ agentPc' = pc

SendHeartbeat ==
    /\ agentPc = "idle"
    /\ Send(inMemory.cred, "waits")
    /\ UNCHANGED <<identity, made, onDisk, inMemory, enroller, lastSeen, revoked, upsets>>

Answered(pc) == agentPc = pc /\ awaited # 0 /\ beat[awaited].pc = "answered"
Rejected(pc) == agentPc = pc /\ awaited # 0 /\ beat[awaited].pc = "refused"

\* An answer with a new credential goes to PersistRotation, one without it
\* makes a credential that was not confirmed before the only one.
HeartbeatAnswered ==
    /\ Answered("waits")
    /\ IF beat[awaited].gift # 0
       THEN agentPc' = "rotates" /\ UNCHANGED <<onDisk, inMemory, awaited>>
       ELSE /\ agentPc' = "idle" /\ awaited' = 0
            /\ onDisk' = IF inMemory.prev # 0 THEN Only(inMemory.cred) ELSE onDisk
            /\ inMemory' = Only(inMemory.cred)
    /\ UNCHANGED <<identity, made, beat, enroller, lastSeen, revoked, upsets>>

\* Refused: the previous credential is tried, if there is one.
HeartbeatRefused ==
    /\ Rejected("waits")
    /\ IF inMemory.prev # 0
       THEN Send(inMemory.prev, "fallback")
       ELSE agentPc' = "down" /\ awaited' = 0 /\ UNCHANGED beat
    /\ UNCHANGED <<identity, made, onDisk, inMemory, enroller, lastSeen, revoked, upsets>>

FallbackAnswered ==
    /\ Answered("fallback")
    /\ onDisk' = Only(inMemory.prev)
    /\ inMemory' = Only(inMemory.prev)
    /\ IF beat[awaited].gift # 0 THEN agentPc' = "rotates" /\ UNCHANGED awaited
                                 ELSE agentPc' = "idle" /\ awaited' = 0
    /\ UNCHANGED <<identity, made, beat, enroller, lastSeen, revoked, upsets>>

\* Mutant: the new credential replaces the old one before it is confirmed.
PersistOnlyNew ==
    /\ agentPc = "rotates"
    /\ LET rotated == Only(beat[awaited].gift) IN
        onDisk' = rotated /\ inMemory' = rotated /\ Send(rotated.cred, "confirms")
    /\ UNCHANGED <<identity, made, enroller, lastSeen, revoked, upsets>>

\* The new credential is persisted beside the old one before it is used.
PersistRotation ==
    /\ agentPc = "rotates"
    /\ LET rotated == [cred |-> beat[awaited].gift, prev |-> inMemory.cred] IN
        onDisk' = rotated /\ inMemory' = rotated /\ Send(rotated.cred, "confirms")
    /\ UNCHANGED <<identity, made, enroller, lastSeen, revoked, upsets>>

RotationConfirmed ==
    /\ Answered("confirms")
    /\ onDisk' = Only(inMemory.cred)
    /\ inMemory' = Only(inMemory.cred)
    /\ agentPc' = "idle" /\ awaited' = 0
    /\ UNCHANGED <<identity, made, beat, enroller, lastSeen, revoked, upsets>>

\* A refusal that has no fallback ends the process.
AgentGivesUp ==
    /\ Rejected("confirms") \/ Rejected("fallback")
    /\ agentPc' = "down" /\ awaited' = 0
    /\ UNCHANGED <<identity, made, beat, onDisk, inMemory, enroller, lastSeen, revoked, upsets>>

\* The answer does not come, or the process stops.
AnswerLost ==
    /\ agentPc # "down" /\ awaited # 0
    /\ Upset
    /\ agentPc' \in {"idle", "down"} /\ awaited' = 0
    /\ UNCHANGED <<identity, made, beat, onDisk, inMemory, enroller, lastSeen, revoked>>

CredentialsNext ==
    \/ \E b \in Beats : AuthenticateBeat(b) \/ AcceptBeat(b) \/ OfferCredential(b) \/ DropBeat(b)
    \/ PendingAges \/ MakeUnavailable
    \/ IssueEnrollment \/ ReadToken \/ RedeemToken \/ SaveEnrollment
    \/ StartAgent \/ SendHeartbeat \/ HeartbeatAnswered \/ HeartbeatRefused \/ FallbackAnswered
    \/ PersistRotation \/ RotationConfirmed \/ AgentGivesUp \/ AnswerLost

CredentialsSpec == CredentialsInit /\ [][CredentialsNext]_credentialVars

-----------------------------------------------------------------------------
(* Properties *)

\* Either side can lose an answer, at any point, and the Agent's file still has
\* a credential that the control plane accepts (reconcileCredentialRotation(),
\* heartbeatOnce(), heartbeat()), unless it was revoked or an enrollment has not
\* reached the file.
UsableIdentity ==
    (identity.active # 0 /\ enroller.cred = 0) =>
        {onDisk.cred, onDisk.prev} \cap Taken(identity) # {}

\* A heartbeat that is already under way when its credential is revoked does not
\* bring the Agent back (the compare-and-set of heartbeat()).
RevokedStaysOffline == [][lastSeen' # lastSeen => lastSeen' \notin revoked]_credentialVars
=============================================================================
