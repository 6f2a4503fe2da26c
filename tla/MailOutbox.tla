------------------------------ MODULE MailOutbox ------------------------------
(***************************************************************************)
(* One message of the EmailOutbox table and the API processes whose sweeps *)
(* deliver it (MailDeliveryService).  A process runs one sweep at a time.  *)
(* Encryption, rendering and the back-off's length are left out: the       *)
(* message becomes due again some time after a failure, and its lock       *)
(* becomes stale some time after it was taken.                             *)
(***************************************************************************)
EXTENDS Integers

CONSTANTS Mailers,          \* API processes
          MailAttempts,     \* MAX_ATTEMPTS
          MaxMailUpsets     \* bound on crashes, slow sends and failed writes

ASSUME MailersAssumption == Mailers \subseteq Nat \ {0}
ASSUME MailAttemptsAssumption == MailAttempts \in Nat \ {0}
ASSUME MailUpsetsAssumption == MaxMailUpsets \in Nat

VARIABLES
    mail,        \* the row; owner 0 is NULL or a process that no longer runs
    mailer,      \* what each process is doing, and the attempt it loaded
    delivered,   \* copies the relay has accepted
    mailUpsets   \* history: events after which a second copy is tolerated

mailVars == <<mail, mailer, delivered, mailUpsets>>

MailerRests == [at |-> "idle", attempt |-> 0]

MailTypeOK ==
    /\ mail \in [status: {"pending", "sending", "sent", "failed"}, owner: Mailers \cup {0},
                 attempts: Nat, due: BOOLEAN, stale: BOOLEAN]
    /\ mailer \in [Mailers -> [at: {"idle", "claim", "send", "sent", "failed"}, attempt: Nat]]
    /\ delivered \in Nat
    /\ mailUpsets \in 0 .. MaxMailUpsets

MailInit ==
    /\ mail = [status |-> "pending", owner |-> 0, attempts |-> 0, due |-> TRUE, stale |-> FALSE]
    /\ mailer = [w \in Mailers |-> MailerRests]
    /\ delivered = 0
    /\ mailUpsets = 0

MailUpset ==
    /\ mailUpsets < MaxMailUpsets
    /\ mailUpsets' = mailUpsets + 1

ClaimableMail == \/ mail.status = "pending" /\ mail.due
                 \/ mail.status = "sending" /\ mail.stale

\* A mutant: the update of claimNext names the row by its id alone.
ClaimedByIdAlone == TRUE

\* The condition of the update that claims the message findFirst returned.
ClaimStands == ClaimableMail

FindMail(w) ==
    /\ mailer[w].at = "idle"
    /\ ClaimableMail
    /\ mailer' = [mailer EXCEPT ![w].at = "claim"]
    /\ UNCHANGED <<mail, delivered, mailUpsets>>

ClaimMail(w) ==
    /\ mailer[w].at = "claim"
    /\ \/ /\ ClaimStands
          /\ mail' = [mail EXCEPT !.status = "sending", !.owner = w,
                                  !.attempts = @ + 1, !.stale = FALSE]
          /\ mailer' = [mailer EXCEPT ![w] = [at |-> "send", attempt |-> mail.attempts + 1]]
       \/ /\ ~ClaimStands
          /\ mailer' = [mailer EXCEPT ![w] = MailerRests]
          /\ UNCHANGED mail
    /\ UNCHANGED <<delivered, mailUpsets>>

\* sendMail: the relay accepts the message, refuses it, or accepts it and the answer is lost.
SendMail(w) ==
    /\ mailer[w].at = "send"
    /\ \/ /\ delivered' = delivered + 1
          /\ mailer' = [mailer EXCEPT ![w].at = "sent"]
          /\ UNCHANGED mailUpsets
       \/ /\ mailer' = [mailer EXCEPT ![w].at = "failed"]
          /\ UNCHANGED <<delivered, mailUpsets>>
       \/ /\ MailUpset
          /\ delivered' = delivered + 1
          /\ mailer' = [mailer EXCEPT ![w].at = "failed"]
    /\ UNCHANGED mail

OwnsMail(w) == mail.status = "sending" /\ mail.owner = w

\* The guarded update to 'sent'; when it throws, the catch branch treats the message as unsent.
MarkSent(w) ==
    /\ mailer[w].at = "sent"
    /\ \/ /\ mailer' = [mailer EXCEPT ![w] = MailerRests]
          /\ mail' = IF OwnsMail(w) THEN [mail EXCEPT !.status = "sent", !.owner = 0] ELSE mail
          /\ UNCHANGED mailUpsets
       \/ /\ MailUpset
          /\ mailer' = [mailer EXCEPT ![w].at = "failed"]
          /\ UNCHANGED mail
    /\ UNCHANGED delivered

\* The catch branch: another attempt later, or none; a throw here leaves the row locked.
MarkUnsent(w) ==
    /\ mailer[w].at = "failed"
    /\ mailer' = [mailer EXCEPT ![w] = MailerRests]
    /\ \/ /\ mail' = IF ~OwnsMail(w) THEN mail
                     ELSE [mail EXCEPT !.status = IF mailer[w].attempt >= MailAttempts
                                                  THEN "failed" ELSE "pending",
                                       !.due = FALSE, !.owner = 0]
          /\ UNCHANGED mailUpsets
       \/ MailUpset /\ UNCHANGED mail
    /\ UNCHANGED delivered

MailBecomesDue ==
    /\ mail.status = "pending"
    /\ ~mail.due
    /\ mail' = [mail EXCEPT !.due = TRUE]
    /\ UNCHANGED <<mailer, delivered, mailUpsets>>

\* Five minutes pass; while a live process still holds the message, that is an upset.
MailLockStale ==
    /\ mail.status = "sending"
    /\ ~mail.stale
    /\ mail' = [mail EXCEPT !.stale = TRUE]
    /\ IF \E w \in Mailers : OwnsMail(w) /\ mailer[w].at \in {"send", "sent", "failed"}
       THEN MailUpset ELSE UNCHANGED mailUpsets
    /\ UNCHANGED <<mailer, delivered>>

\* The process stops; the one that replaces it has another workerId.
MailerStops(w) ==
    /\ mailer[w].at # "idle"
    /\ MailUpset
    /\ mailer' = [mailer EXCEPT ![w] = MailerRests]
    /\ mail' = IF mail.owner = w THEN [mail EXCEPT !.owner = 0] ELSE mail
    /\ UNCHANGED delivered

MailNext ==
    \/ \E w \in Mailers : \/ FindMail(w) \/ ClaimMail(w) \/ SendMail(w)
                          \/ MarkSent(w) \/ MarkUnsent(w) \/ MailerStops(w)
    \/ MailBecomesDue
    \/ MailLockStale

MailSpec == MailInit /\ [][MailNext]_mailVars

-----------------------------------------------------------------------------
\* A single-use link is mailed once: a further copy needs a crash, a lock that lapsed on a
\* live process, a lost answer of the relay or a failed write to the row, one for each copy
\* (claimNext's guarded update, the lock owner in both of deliver's updates).
OneCopyPerUpset == delivered <= 1 + mailUpsets
=============================================================================
