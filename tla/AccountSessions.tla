-------------------------- MODULE AccountSessions --------------------------
(***************************************************************************)
(* One local account: its password and its session generation              *)
(* (User.tokenVersion), the sessions issued to it (UserSession) and the    *)
(* single-use links that set a password.  Every request of AuthService     *)
(* reads the account, spends time on a password hash or on the Git service *)
(* and then writes; the requests of several browsers and of an             *)
(* administrator interleave.  A password is a number: each change sets a   *)
(* new one.                                                                *)
(***************************************************************************)
EXTENDS Integers

CONSTANTS Browsers,       \* concurrent requests
          Sessions,       \* ids of the sessions that can be issued
          Links,          \* ids of the links that can be issued, in order
          MaxVersions     \* bound on tokenVersion

ASSUME SessionsAssumption ==
    Sessions \subseteq Nat /\ Links \subseteq Nat /\ MaxVersions \in Nat

VARIABLES
    account,     \* active, password, version (tokenVersion)
    session,     \* by id: its row, and the password it was issued on (history)
    link,        \* by id: its AuthToken row
    browserCall  \* by browser: the request it waits for

accountVars == <<account, session, link, browserCall>>

LinkKinds == {"password_reset", "activation"}
Versions == 0 .. MaxVersions

NoSession == [status |-> "none", version |-> 0, password |-> 0]
NoLink == [status |-> "none", kind |-> "activation"]
NoRequest == [at |-> "none", version |-> 0, password |-> 0, link |-> 0]

AccountTypeOK ==
    /\ account \in [active: BOOLEAN, password: Versions, version: Versions]
    /\ session \in [Sessions -> [status: {"none", "live", "ended"}, version: Versions,
                                 password: Versions]]
    /\ link \in [Links -> [status: {"none", "unused", "used"}, kind: LinkKinds]]
    /\ browserCall \in [Browsers -> [at: {"none", "issue", "change", "claim", "apply"},
                                 version: Versions, password: Versions,
                                 link: Links \cup {0}]]

AccountInit ==
    /\ account = [active |-> TRUE, password |-> 0, version |-> 0]
    /\ session = [s \in Sessions |-> NoSession]
    /\ link = [l \in Links |-> NoLink]
    /\ browserCall = [b \in Browsers |-> NoRequest]

Asks(b, r) == browserCall' = [browserCall EXCEPT ![b] = r]

\* the update of the account every password change ends in: a new password and
\* a new generation in one statement
NewPassword ==
    /\ account.version < MaxVersions
    /\ account' = [account EXCEPT !.password = @ + 1, !.version = @ + 1]

(***************************************************************************)
(* SessionsService.                                                        *)
(***************************************************************************)
\* authenticate(): the row decides, and the generation must be the account's
Authenticates(s) ==
    /\ session[s].status = "live"
    /\ account.active
    /\ session[s].version = account.version

GenerationAtIssue(b) == account.version              \* mutant

\* the generation of the account the request read or wrote, not today's
IssuedGeneration(b) == browserCall[b].version

IssueSession(b, s) ==
    /\ browserCall[b].at = "issue"
    /\ session[s].status = "none"
    /\ session' = [session EXCEPT
           ![s] = [status |-> "live", version |-> IssuedGeneration(b),
                   password |-> browserCall[b].password]]
    /\ Asks(b, NoRequest)
    /\ UNCHANGED <<account, link>>

\* signed out, ended from the overview, or expired
EndSession(s) ==
    /\ session[s].status = "live"
    /\ session' = [session EXCEPT ![s].status = "ended"]
    /\ UNCHANGED <<account, link, browserCall>>

\* every other session of this generation
EndOthers(s) ==
    /\ Authenticates(s)
    /\ session' = [t \in Sessions |->
           IF t # s /\ session[t].status = "live" /\ session[t].version = account.version
           THEN [session[t] EXCEPT !.status = "ended"] ELSE session[t]]
    /\ UNCHANGED <<account, link, browserCall>>

(***************************************************************************)
(* Requests that prove a password.                                         *)
(***************************************************************************)
\* login: the row is read and the typed password verified against it
SignIn(b) ==
    /\ browserCall[b].at = "none"
    /\ account.active
    /\ Asks(b, [NoRequest EXCEPT !.at = "issue", !.version = account.version,
                                 !.password = account.password])
    /\ UNCHANGED <<account, session, link>>

\* changePassword: the current password is verified, then the new one hashed
ChangeBegins(b) ==
    /\ browserCall[b].at = "none"
    /\ \E s \in Sessions : Authenticates(s)
    /\ Asks(b, [NoRequest EXCEPT !.at = "change"])
    /\ UNCHANGED <<account, session, link>>

\* the update names the account alone; the session follows its new generation
ChangeWrites(b) ==
    /\ browserCall[b].at = "change"
    /\ NewPassword
    /\ Asks(b, [NoRequest EXCEPT !.at = "issue", !.version = account'.version,
                                 !.password = account'.password])
    /\ UNCHANGED <<session, link>>

(***************************************************************************)
(* Links.                                                                  *)
(***************************************************************************)
\* issueAuthLink, under a lock of the account: earlier links of the kind are used
IssueLink(l, kind) ==
    /\ link[l].status = "none"
    /\ \A k \in Links : k < l => link[k].status # "none"
    /\ link' = [k \in Links |->
           IF k = l THEN [status |-> "unused", kind |-> kind]
           ELSE IF link[k].status = "unused" /\ link[k].kind = kind
           THEN [link[k] EXCEPT !.status = "used"] ELSE link[k]]
    /\ UNCHANGED <<account, session, browserCall>>

FollowLink(b, l) ==
    /\ browserCall[b].at = "none"
    /\ link[l].status = "unused"
    /\ Asks(b, [NoRequest EXCEPT !.at = "claim", !.link = l])
    /\ UNCHANGED <<account, session, link>>

LinkClaimable(l) == link[l].status = "unused"

\* a reset has asked the Git service to revoke its tokens before this
ClaimLink(b) ==
    /\ browserCall[b].at = "claim"
    /\ LET l == browserCall[b].link IN
       IF LinkClaimable(l)
       THEN /\ link' = [link EXCEPT ![l].status = "used"]
            /\ browserCall' = [browserCall EXCEPT ![b].at = "apply"]
       ELSE /\ Asks(b, NoRequest)
            /\ UNCHANGED link
    /\ UNCHANGED <<account, session>>

\* an activation signs in; a reset does not
ApplyLink(b) ==
    /\ browserCall[b].at = "apply"
    /\ NewPassword
    /\ Asks(b, IF link[browserCall[b].link].kind = "activation"
               THEN [NoRequest EXCEPT !.at = "issue", !.version = account'.version,
                                      !.password = account'.password]
               ELSE NoRequest)
    /\ UNCHANGED <<session, link>>

\* the process stops, the Git service refuses, the link runs out
RequestFails(b) ==
    /\ browserCall[b].at # "none"
    /\ Asks(b, NoRequest)
    /\ UNCHANGED <<account, session, link>>

(***************************************************************************)
(* The administrator.                                                      *)
(***************************************************************************)
AdminResetsPassword ==
    /\ NewPassword
    /\ UNCHANGED <<session, link, browserCall>>

SetActive(active) ==
    /\ account.active # active
    /\ active \/ account.version < MaxVersions
    /\ account' = IF active THEN [account EXCEPT !.active = TRUE]
                  ELSE [account EXCEPT !.active = FALSE, !.version = @ + 1]
    /\ UNCHANGED <<session, link, browserCall>>

AccountNext ==
    \/ \E b \in Browsers :
           \/ SignIn(b) \/ ChangeBegins(b) \/ ChangeWrites(b)
           \/ ClaimLink(b) \/ ApplyLink(b) \/ RequestFails(b)
           \/ \E s \in Sessions : IssueSession(b, s)
           \/ \E l \in Links : FollowLink(b, l)
    \/ \E s \in Sessions : EndSession(s) \/ EndOthers(s)
    \/ \E l \in Links, kind \in LinkKinds : IssueLink(l, kind)
    \/ AdminResetsPassword
    \/ \E active \in BOOLEAN : SetActive(active)

AccountSpec == AccountInit /\ [][AccountNext]_accountVars

-----------------------------------------------------------------------------
(***************************************************************************)
(* A session that authenticates was issued on the account's current        *)
(* password, whatever change, reset or deactivation overtook the request   *)
(* that issued it.                                                         *)
(***************************************************************************)
SessionKnowsPassword ==
    \A s \in Sessions :
        Authenticates(s) => session[s].password = account.password

=============================================================================
