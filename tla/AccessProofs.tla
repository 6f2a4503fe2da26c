------------------------------ MODULE AccessProofs ------------------------------
(***************************************************************************)
(* Proofs about who may come in.  AccountSessions, for every number of     *)
(* requests, sessions, links and generations: a session is accepted by its *)
(* generation alone; SessionKnowsPassword follows because a request in     *)
(* flight and a session, however old, carry the password that was current  *)
(* in their generation.                                                    *)
(* WorkspaceMembership, for every number of people, of repositories and of *)
(* requests about members: AccessFollowsMembership holds because a request *)
(* knows, repository by repository, what it has granted and what it still  *)
(* has before it.                                                          *)
(* AgentCredentials, for every number of credentials, tokens, heartbeats   *)
(* and upsets: UsableIdentity alone is not inductive, for whether the      *)
(* Agent's file keeps a usable credential depends on what its heartbeats,  *)
(* the late ones too, can still do to the row.  CredInv says so, one named *)
(* part for each of the row, the file, the answer that is awaited, the     *)
(* pending credential and the enroll command.                              *)
(* MailOutbox, for every number of processes, attempts and upsets:         *)
(* OneCopyPerUpset is not inductive, for it says nothing of the copies     *)
(* that are still to come.  CopiesAccounted counts those too: one for each *)
(* process that has claimed the message and not yet had it accepted, and   *)
(* one if the message can be claimed again.                                *)
(***************************************************************************)
EXTENDS AccountSessions, WorkspaceMembership, AgentCredentials, MailOutbox, FiniteSets,
        FiniteSetTheorems, TLAPS

\* A generation is not ahead of the account, and the present one has its password.
Knows(version, password) ==
    /\ version =< account.version
    /\ version = account.version => password = account.password

SessionsKnow ==
    \A s \in Sessions : session[s].status # "none" =>
        Knows(session[s].version, session[s].password)

RequestsKnow ==
    \A b \in Browsers : browserCall[b].at = "issue" =>
        Knows(browserCall[b].version, browserCall[b].password)

AccountInv ==
    /\ AccountTypeOK
    /\ account.password =< account.version
    /\ SessionsKnow
    /\ RequestsKnow

SessionRow == [status: {"none", "live", "ended"}, version: Versions, password: Versions]
LinkRow == [status: {"none", "unused", "used"}, kind: LinkKinds]
BrowserRequest == [at: {"none", "issue", "change", "claim", "apply"}, version: Versions,
                   password: Versions, link: Links \cup {0}]

-----------------------------------------------------------------------------
(* What the invariant says of the values a step reads. *)
LEMMA AccountFacts ==
  ASSUME AccountInv
  PROVE  /\ account \in [active: BOOLEAN, password: Versions, version: Versions]
         /\ account.version \in Nat /\ account.password \in Nat
         /\ account.version \in Versions /\ account.password \in Versions
         /\ account.password =< account.version
         /\ browserCall \in [Browsers -> BrowserRequest]
         /\ session \in [Sessions -> SessionRow]
         /\ link \in [Links -> LinkRow]
         /\ \A s \in Sessions : session[s].version \in Nat
         /\ \A b \in Browsers : browserCall[b].version \in Nat
  BY SessionsAssumption
  DEF AccountInv, AccountTypeOK, SessionRow, LinkRow, BrowserRequest, Versions

(* One request moves on: it issues nothing, or what it read of the account. *)
LEMMA AsksKeeps ==
  ASSUME AccountInv, NEW b \in Browsers, NEW r \in BrowserRequest, Asks(b, r),
         UNCHANGED <<account, session>>, link' \in [Links -> LinkRow],
         r.at = "issue" => Knows(r.version, r.password)
  PROVE  AccountInv'
<1>1. /\ browserCall' \in [Browsers -> BrowserRequest] /\ browserCall'[b] = r
      /\ \A c \in Browsers : c # b => browserCall'[c] = browserCall[c]
  BY AccountFacts DEF Asks
<1>2. AccountTypeOK'
  BY <1>1, AccountFacts DEF AccountTypeOK, BrowserRequest, LinkRow, SessionRow
<1>3. RequestsKnow'
  BY <1>1 DEF AccountInv, RequestsKnow, Knows
<1> QED
  BY <1>2, <1>3 DEF AccountInv, SessionsKnow, Knows

(* A change of the password counts the generation up with it. *)
LEMMA PasswordStep ==
  ASSUME AccountInv, NewPassword
  PROVE  /\ account'.version = account.version + 1
         /\ account'.password = account.password + 1
         /\ account' \in [active: BOOLEAN, password: Versions, version: Versions]
<1>1. account.version < MaxVersions
  BY DEF NewPassword
<1>2. account.version + 1 \in Versions /\ account.password + 1 \in Versions
  BY <1>1, AccountFacts, SessionsAssumption DEF Versions
<1> QED
  BY <1>2, AccountFacts DEF NewPassword

(* A new generation is above every other: the sessions and the requests of an *)
(* earlier one no longer speak for the account.                               *)
LEMMA Outdated ==
  ASSUME AccountInv, account'.version = account.version + 1, UNCHANGED session
  PROVE  /\ SessionsKnow'
         /\ \A b \in Browsers : browserCall'[b] = browserCall[b] /\ browserCall[b].at = "issue"
                => browserCall'[b].version < account'.version
<1>1. ASSUME NEW s \in Sessions, session[s].status # "none"
      PROVE  Knows(session[s].version, session[s].password)'
  <2>1. session[s].version \in Nat /\ session[s].version =< account.version
    BY <1>1, AccountFacts DEF AccountInv, SessionsKnow, Knows
  <2>2. session'[s].version < account'.version
    BY <2>1, AccountFacts
  <2> QED
    BY <2>1, <2>2, AccountFacts DEF Knows
<1>2. ASSUME NEW b \in Browsers, browserCall'[b] = browserCall[b], browserCall[b].at = "issue"
      PROVE  browserCall'[b].version < account'.version
  <2>1. browserCall[b].version \in Nat /\ browserCall[b].version =< account.version
    BY <1>2, AccountFacts DEF AccountInv, RequestsKnow, Knows
  <2> QED
    BY <1>2, <2>1, AccountFacts
<1> QED
  BY <1>1, <1>2 DEF SessionsKnow

(* A step that begins a generation: a password is set, or the account is       *)
(* deactivated.  At most one request goes on, with the new generation.         *)
LEMMA GenerationKeeps ==
  ASSUME AccountInv, UNCHANGED <<session, link>>,
         account' \in [active: BOOLEAN, password: Versions, version: Versions],
         account'.version = account.version + 1,
         account'.password = account.password \/ account'.password = account.password + 1,
         browserCall' \in [Browsers -> BrowserRequest],
         \A b \in Browsers : \/ browserCall'[b] = browserCall[b]
                             \/ browserCall'[b].at # "issue"
                             \/ /\ browserCall'[b].version = account'.version
                                /\ browserCall'[b].password = account'.password
  PROVE  AccountInv'
<1>1. AccountTypeOK'
  BY AccountFacts DEF AccountTypeOK, BrowserRequest, SessionRow, LinkRow
<1>2. account'.password =< account'.version
  BY AccountFacts
<1>3. ASSUME NEW b \in Browsers, browserCall'[b].at = "issue"
      PROVE  Knows(browserCall[b].version, browserCall[b].password)'
  <2>1. account'.version \in Nat
    BY AccountFacts
  <2>2. CASE browserCall'[b] = browserCall[b]
    <3>1. browserCall'[b].version < account'.version /\ browserCall'[b].version \in Nat
      BY <1>3, <2>2, Outdated, AccountFacts
    <3> QED
      BY <2>1, <3>1 DEF Knows
  <2>3. CASE /\ browserCall'[b].version = account'.version
             /\ browserCall'[b].password = account'.password
    BY <2>1, <2>3 DEF Knows
  <2> QED
    BY <1>3, <2>2, <2>3
<1> QED
  BY <1>1, <1>2, <1>3, Outdated DEF AccountInv, RequestsKnow

-----------------------------------------------------------------------------
(* The steps of one request *)
LEMMA RequestStep ==
  ASSUME AccountInv, NEW b \in Browsers,
         \/ SignIn(b) \/ ChangeBegins(b) \/ ChangeWrites(b)
         \/ ClaimLink(b) \/ ApplyLink(b) \/ RequestFails(b)
         \/ \E s \in Sessions : IssueSession(b, s)
         \/ \E l \in Links : FollowLink(b, l)
  PROVE  AccountInv'
<1>0. NoRequest \in BrowserRequest /\ NoRequest.at = "none"
  BY SessionsAssumption DEF NoRequest, BrowserRequest, Versions
<1>1. CASE SignIn(b)
  <2> DEFINE r == [NoRequest EXCEPT !.at = "issue", !.version = account.version,
                                    !.password = account.password]
  <2>1. r \in BrowserRequest /\ r.version = account.version /\ r.password = account.password
    BY <1>0, AccountFacts DEF BrowserRequest, NoRequest
  <2>2. Asks(b, r) /\ UNCHANGED <<account, session, link>>
    BY <1>1 DEF SignIn
  <2> HIDE DEF r
  <2>3. Knows(r.version, r.password)
    BY <2>1, AccountFacts DEF Knows
  <2> QED
    BY <2>1, <2>2, <2>3, AccountFacts, AsksKeeps
<1>2. CASE ChangeBegins(b)
  <2> DEFINE r == [NoRequest EXCEPT !.at = "change"]
  <2>1. r \in BrowserRequest /\ r.at # "issue"
    BY <1>0 DEF BrowserRequest, NoRequest
  <2>2. Asks(b, r) /\ UNCHANGED <<account, session, link>>
    BY <1>2 DEF ChangeBegins
  <2> HIDE DEF r
  <2> QED
    BY <2>1, <2>2, AccountFacts, AsksKeeps
<1>3. CASE RequestFails(b)
  BY <1>0, <1>3, AccountFacts, AsksKeeps DEF RequestFails
<1>4. ASSUME NEW l \in Links, FollowLink(b, l) PROVE AccountInv'
  <2> DEFINE r == [NoRequest EXCEPT !.at = "claim", !.link = l]
  <2>1. r \in BrowserRequest /\ r.at # "issue"
    BY <1>0, <1>4 DEF BrowserRequest, NoRequest
  <2>2. Asks(b, r) /\ UNCHANGED <<account, session, link>>
    BY <1>4 DEF FollowLink
  <2> HIDE DEF r
  <2> QED
    BY <2>1, <2>2, AccountFacts, AsksKeeps
<1>5. CASE ClaimLink(b)
  <2>1. UNCHANGED <<account, session>>
    BY <1>5 DEF ClaimLink
  <2>2. CASE LinkClaimable(browserCall[b].link)
    <3> DEFINE l == browserCall[b].link
               r == [browserCall[b] EXCEPT !.at = "apply"]
    <3>1. link' = [link EXCEPT ![l].status = "used"] /\ Asks(b, r)
      BY <1>5, <2>2 DEF ClaimLink, Asks
    <3>2. r \in BrowserRequest /\ r.at # "issue"
      BY AccountFacts DEF BrowserRequest
    <3>3. link' \in [Links -> LinkRow]
      BY <3>1, AccountFacts DEF LinkRow
    <3> HIDE DEF r
    <3> QED
      BY <2>1, <3>1, <3>2, <3>3, AsksKeeps
  <2>3. CASE ~LinkClaimable(browserCall[b].link)
    BY <1>0, <1>5, <2>1, <2>3, AccountFacts, AsksKeeps DEF ClaimLink
  <2> QED
    BY <2>2, <2>3
<1>6. CASE ChangeWrites(b) \/ ApplyLink(b)
  <2>1. NewPassword /\ UNCHANGED <<session, link>>
    BY <1>6 DEF ChangeWrites, ApplyLink
  <2> DEFINE r == [NoRequest EXCEPT !.at = "issue", !.version = account'.version,
                                    !.password = account'.password]
  <2>2. Asks(b, r) \/ Asks(b, NoRequest)
    BY <1>6 DEF ChangeWrites, ApplyLink
  <2>3. r \in BrowserRequest /\ r.version = account'.version /\ r.password = account'.password
    BY <1>0, <2>1, PasswordStep DEF BrowserRequest, NoRequest
  <2> HIDE DEF r
  <2>4. PICK x \in {r, NoRequest} : browserCall' = [browserCall EXCEPT ![b] = x]
    BY <2>2 DEF Asks
  <2>5. browserCall' \in [Browsers -> BrowserRequest]
    BY <1>0, <2>3, <2>4, AccountFacts
  <2>6. \A c \in Browsers : \/ browserCall'[c] = browserCall[c]
                            \/ browserCall'[c].at # "issue"
                            \/ /\ browserCall'[c].version = account'.version
                               /\ browserCall'[c].password = account'.password
    BY <1>0, <2>3, <2>4, AccountFacts
  <2> QED
    BY <2>1, <2>5, <2>6, PasswordStep, GenerationKeeps
<1>7. ASSUME NEW s \in Sessions, IssueSession(b, s) PROVE AccountInv'
  <2>1. /\ UNCHANGED <<account, link>> /\ Asks(b, NoRequest)
        /\ browserCall[b].at = "issue"
        /\ session' = [session EXCEPT ![s] = [status |-> "live", version |-> browserCall[b].version,
                                              password |-> browserCall[b].password]]
    BY <1>7 DEF IssueSession, IssuedGeneration
  <2>2. /\ session' \in [Sessions -> SessionRow]
        /\ session'[s].version = browserCall[b].version
        /\ session'[s].password = browserCall[b].password
        /\ \A t \in Sessions : t # s => session'[t] = session[t]
    BY <2>1, AccountFacts DEF SessionRow, BrowserRequest
  <2>3. /\ browserCall' \in [Browsers -> BrowserRequest]
        /\ \A c \in Browsers : browserCall'[c] = browserCall[c] \/ browserCall'[c].at # "issue"
    BY <1>0, <2>1, AccountFacts DEF Asks
  <2>4. AccountTypeOK'
    BY <2>1, <2>2, <2>3, AccountFacts DEF AccountTypeOK, BrowserRequest, SessionRow, LinkRow
  <2>5. SessionsKnow' /\ RequestsKnow'
    BY <2>1, <2>2, <2>3 DEF AccountInv, SessionsKnow, RequestsKnow, Knows
  <2> QED
    BY <2>1, <2>4, <2>5 DEF AccountInv
<1> QED
  BY <1>1, <1>2, <1>3, <1>4, <1>5, <1>6, <1>7

(* The steps that are nobody's request: sessions end, links are issued, the    *)
(* administrator acts.                                                         *)
LEMMA OtherStep ==
  ASSUME AccountInv,
         \/ \E s \in Sessions : EndSession(s) \/ EndOthers(s)
         \/ \E l \in Links, kind \in LinkKinds : IssueLink(l, kind)
         \/ AdminResetsPassword
         \/ \E active \in BOOLEAN : SetActive(active)
  PROVE  AccountInv'
<1>1. ASSUME NEW s \in Sessions, EndSession(s) \/ EndOthers(s) PROVE AccountInv'
  <2>1. /\ UNCHANGED <<account, link, browserCall>>
        /\ session' \in [Sessions -> SessionRow]
        /\ \A t \in Sessions : /\ session'[t].version = session[t].version
                               /\ session'[t].password = session[t].password
                               /\ session'[t].status # "none" => session[t].status # "none"
    <3>1. CASE EndSession(s)
      BY <3>1, AccountFacts DEF EndSession, SessionRow
    <3>2. CASE EndOthers(s)
      BY <3>2, AccountFacts DEF EndOthers, SessionRow
    <3> QED
      BY <1>1, <3>1, <3>2
  <2>2. AccountTypeOK'
    BY <2>1, AccountFacts DEF AccountTypeOK, BrowserRequest, SessionRow, LinkRow
  <2>3. SessionsKnow' /\ RequestsKnow'
    BY <2>1 DEF AccountInv, SessionsKnow, RequestsKnow, Knows
  <2> QED
    BY <2>1, <2>2, <2>3 DEF AccountInv
<1>2. ASSUME NEW l \in Links, NEW kind \in LinkKinds, IssueLink(l, kind) PROVE AccountInv'
  <2>1. UNCHANGED <<account, session, browserCall>> /\ link' \in [Links -> LinkRow]
    BY <1>2, AccountFacts DEF IssueLink, LinkRow
  <2>2. AccountTypeOK'
    BY <2>1, AccountFacts DEF AccountTypeOK, BrowserRequest, SessionRow, LinkRow
  <2> QED
    BY <2>1, <2>2 DEF AccountInv, SessionsKnow, RequestsKnow, Knows
<1>3. CASE AdminResetsPassword
  BY <1>3, AccountFacts, PasswordStep, GenerationKeeps DEF AdminResetsPassword
<1>4. ASSUME NEW active \in BOOLEAN, SetActive(active) PROVE AccountInv'
  <2>1. UNCHANGED <<session, link, browserCall>>
    BY <1>4 DEF SetActive
  <2>2. CASE active
    <3>1. account' = [account EXCEPT !.active = TRUE]
      BY <1>4, <2>2 DEF SetActive
    <3>2. /\ account' \in [active: BOOLEAN, password: Versions, version: Versions]
          /\ account'.version = account.version /\ account'.password = account.password
      BY <3>1, AccountFacts
    <3>3. AccountTypeOK'
      BY <2>1, <3>2, AccountFacts DEF AccountTypeOK, BrowserRequest, SessionRow, LinkRow
    <3> QED
      BY <2>1, <3>2, <3>3 DEF AccountInv, SessionsKnow, RequestsKnow, Knows
  <2>3. CASE ~active
    <3>1. /\ account' = [account EXCEPT !.active = FALSE, !.version = @ + 1]
          /\ account.version < MaxVersions
      BY <1>4, <2>3 DEF SetActive
    <3>2. account.version + 1 \in Versions
      BY <3>1, AccountFacts, SessionsAssumption DEF Versions
    <3>3. /\ account' \in [active: BOOLEAN, password: Versions, version: Versions]
          /\ account'.version = account.version + 1 /\ account'.password = account.password
      BY <3>1, <3>2, AccountFacts
    <3> QED
      BY <2>1, <3>3, AccountFacts, GenerationKeeps
  <2> QED
    BY <2>2, <2>3
<1> QED
  BY <1>1, <1>2, <1>3, <1>4

-----------------------------------------------------------------------------
(* Nothing is issued yet. *)
LEMMA AccountInitSound == AccountInit => AccountInv
  BY SessionsAssumption
  DEF AccountInit, AccountInv, AccountTypeOK, SessionsKnow, RequestsKnow, Knows, Versions,
      NoSession, NoLink, NoRequest, LinkKinds

(* The invariant of the account, its sessions and the requests in flight. *)
THEOREM AccountInvariant == AccountSpec => []AccountInv
<1>1. ASSUME AccountInv, [AccountNext]_accountVars PROVE AccountInv'
  <2>1. CASE UNCHANGED accountVars
    BY <1>1, <2>1
    DEF accountVars, AccountInv, AccountTypeOK, SessionsKnow, RequestsKnow, Knows
  <2> QED
    BY <1>1, <2>1, RequestStep, OtherStep DEF AccountNext
<1> QED
  BY <1>1, AccountInitSound, PTL DEF AccountSpec

(* The rows and requests have the values that are declared for them. *)
THEOREM AccountTypes == AccountSpec => []AccountTypeOK
<1>1. AccountInv => AccountTypeOK
  BY DEF AccountInv
<1> QED
  BY <1>1, AccountInvariant, PTL

(* SessionKnowsPassword: whatever change, reset or deactivation overtook the   *)
(* request that issued a session, authenticate() accepts it only while the     *)
(* password it was issued on is the account's.                                 *)
THEOREM OnlyPresentPasswords == AccountSpec => []SessionKnowsPassword
<1>1. AccountInv => SessionKnowsPassword
  BY DEF AccountInv, SessionsKnow, Knows, SessionKnowsPassword, Authenticates
<1> QED
  BY <1>1, AccountInvariant, PTL

-----------------------------------------------------------------------------
(* WorkspaceMembership *)

\* What a repository grants p is what a role is worth, and no more is known of it, unless
\* a request has ended without replacing every credential.
Fits(p, r, role) ==
    /\ repoAccess[r][p] = AccessOf(role)
    /\ p \in copies[r] => CanPush(repoAccess[r][p]) \/ p \in unrotated

\* A request about p is alone, and p is not new to a project that is on its way.
Alone(p) ==
    /\ \A c, d \in MemberCalls : About(c, p) /\ About(d, p) => c = d
    /\ ProjectUnderWay => \A c \in MemberCalls : ~About(c, p)

(* How far a request about p has come, repository by repository. *)
RoleBefore(call) == IF call.does = "add" THEN call.role ELSE call.was

Asked(call, p) ==
    \A r \in projectRepos : r \notin call.touched /\ Fits(p, r, call.was)

Granting(call, p) ==
    \A r \in projectRepos :
        /\ r \in call.todo => r \notin call.touched /\ repoAccess[r][p] = AccessOf(call.was)
        /\ r \notin call.todo => r \in call.touched /\ repoAccess[r][p] = AccessOf(call.role)
        /\ p \in copies[r] =>
             CanPush(AccessOf(call.was)) \/ CanPush(AccessOf(call.role)) \/ p \in unrotated

Undoing(call, p) ==
    \A r \in projectRepos : r \in call.touched \/ repoAccess[r][p] = AccessOf(call.was)

Saved(call, p) ==
    \A r \in projectRepos :
        /\ repoAccess[r][p] = AccessOf(call.role)
        /\ p \in copies[r] =>
             CanPush(AccessOf(call.was)) \/ CanPush(AccessOf(call.role)) \/ p \in unrotated

Rotating(call, p) ==
    /\ LosesWrite(call)
    /\ \A r \in projectRepos :
         /\ repoAccess[r][p] = AccessOf(call.role)
         /\ call.at = "rotate" /\ r \notin call.todo => p \notin copies[r] \/ p \in unrotated

Committed == {"audit", "rotateList", "rotate"}

CallOnCourse(call, p) ==
    /\ call.does # "none"
    /\ call.does = "add" => call.was = "none"
    /\ memberRole[p] = IF call.at \in Committed THEN call.role ELSE RoleBefore(call)
    /\ call.at = "list" => Asked(call, p)
    /\ call.at = "grant" => Granting(call, p)
    /\ call.at \in {"undoList", "undo", "undone"} => Undoing(call, p)
    /\ call.at = "audit" => Saved(call, p)
    /\ call.at \in {"rotateList", "rotate"} => Rotating(call, p)

CallsOnCourse(p) == \A c \in MemberCalls : About(c, p) => CallOnCourse(memberCall[c], p)

\* Between requests, the repositories of all projects but the one on its way fit.
FitsAtRest(p) ==
    (\A c \in MemberCalls : ~About(c, p)) =>
        \A r \in projectRepos :
            (ProjectUnderWay /\ r = projectCall.repo) \/ Fits(p, r, memberRole[p])

\* The repository of the project on its way: who has been granted what so far.
NewRepoFits(p) ==
    /\ projectCall.at \in {"row", "read"} => Fits(p, projectCall.repo, "none")
    /\ projectCall.at = "grant" =>
         /\ projectCall.seen[p] = memberRole[p]
         /\ Fits(p, projectCall.repo, IF p \in projectCall.todo THEN "none" ELSE memberRole[p])

PersonOK(p) == Alone(p) /\ CallsOnCourse(p) /\ FitsAtRest(p) /\ NewRepoFits(p)

\* A created repository belongs to no project yet, an imported one once its row is there.
ProjectForm ==
    /\ ProjectUnderWay => projectCall.does # "none"
    /\ projectCall.at = "row" => projectCall.does = "import"
    /\ projectCall.does = "create" \/ projectCall.at = "row"
         => projectCall.repo \notin projectRepos

MembersInv ==
    /\ MembershipTypeOK
    /\ ProjectForm
    /\ \A p \in People \ disputed : PersonOK(p)

CallRow == [does: {"none", "add", "change", "remove"}, who: People,
            role: MemberRoles \cup {"none"}, was: MemberRoles \cup {"none"},
            at: {"idle", "list", "grant", "undoList", "undo", "undone", "audit", "rotateList",
                 "rotate"},
            todo: SUBSET GitRepos, touched: SUBSET GitRepos]
ProjectRow == [does: {"none", "create", "import"}, at: {"idle", "row", "read", "grant", "undo"},
               repo: GitRepos, todo: SUBSET People, seen: [People -> MemberRoles \cup {"none"}]]

(* Every part of the type invariant, in the names of these proofs. *)
LEMMA MembershipFacts ==
  ASSUME MembershipTypeOK
  PROVE  /\ memberRole \in [People -> MemberRoles \cup {"none"}]
         /\ repoAccess \in [GitRepos -> [People -> Accesses]]
         /\ projectRepos \subseteq GitRepos /\ copies \in [GitRepos -> SUBSET People]
         /\ memberCall \in [MemberCalls -> CallRow] /\ projectCall \in ProjectRow
         /\ memberEvents \in 0 .. MaxMemberEvents
         /\ disputed \subseteq People /\ unrotated \subseteq People
  BY DEF MembershipTypeOK, CallRow, ProjectRow

(* A role is worth an access, and only a role with write access can push. *)
LEMMA AccessFacts ==
  /\ \A role \in MemberRoles \cup {"none"} : AccessOf(role) \in Accesses
  /\ AccessOf("none") = "none" /\ ~CanPush("none") /\ ~CanPush(AccessOf("none"))
  /\ ~CanPush(AccessOf("viewer"))
  /\ \A role \in MemberRoles \cup {"none"} :
       role \notin {"viewer", "none"} => CanPush(AccessOf(role))
  BY DEF AccessOf, CanPush, MemberRoles, Accesses

(* The orders of a worker that has nothing to do. *)
LEMMA NobodyFacts ==
  /\ NoMemberCall \in CallRow /\ NoMemberCall.at = "idle"
  /\ NoProjectCall \in ProjectRow /\ NoProjectCall.at = "idle"
<1>1. (CHOOSE p \in People : TRUE) \in People /\ (CHOOSE r \in GitRepos : TRUE) \in GitRepos
  BY MembershipAssumption
<1> QED
  BY <1>1 DEF NoMemberCall, CallRow, NoProjectCall, ProjectRow

(* A call is counted within its bound. *)
LEMMA MemberCounted ==
  ASSUME MembershipTypeOK, Counted \/ Uncounted
  PROVE  memberEvents' \in 0 .. MaxMemberEvents
  BY MembershipFacts, MembershipAssumption DEF Counted, Uncounted

(* One call to the Git service touches one person in one repository. *)
LEMMA GrantsFacts ==
  ASSUME MembershipTypeOK, NEW r \in GitRepos, NEW q \in People, NEW access \in Accesses,
         Grants(r, q, access)
  PROVE  /\ repoAccess' \in [GitRepos -> [People -> Accesses]]
         /\ copies' \in [GitRepos -> SUBSET People]
         /\ repoAccess'[r][q] = access
         /\ q \in copies'[r] => q \in copies[r] \/ CanPush(access)
         /\ \A s \in GitRepos, p \in People : s # r \/ p # q =>
              /\ repoAccess'[s][p] = repoAccess[s][p]
              /\ p \in copies'[s] <=> p \in copies[s]
<1> DEFINE row == [repoAccess[r] EXCEPT ![q] = access]
           known == IF CanPush(access) THEN copies[r] \cup {q} ELSE copies[r]
<1>1. /\ repoAccess' = [repoAccess EXCEPT ![r] = row]
      /\ copies' = [copies EXCEPT ![r] = known]
  BY DEF Grants
<1>2. /\ row \in [People -> Accesses] /\ row[q] = access
      /\ \A p \in People : p # q => row[p] = repoAccess[r][p]
  BY MembershipFacts
<1>3. /\ known \in SUBSET People
      /\ q \in known => q \in copies[r] \/ CanPush(access)
      /\ \A p \in People : p # q => (p \in known <=> p \in copies[r])
  BY MembershipFacts
<1> HIDE DEF row, known
<1> QED
  BY <1>1, <1>2, <1>3, MembershipFacts

(* Who loses write access could push and cannot any more, and nobody else can have lost it. *)
LEMMA LosesWriteFacts ==
  ASSUME NEW call \in CallRow
  PROVE  /\ LosesWrite(call) => ~CanPush(AccessOf(call.role))
         /\ call.does = "add" /\ call.was = "none"
              => ~LosesWrite(call) /\ ~CanPush(AccessOf(call.was))
         /\ ~LosesWrite(call) /\ (call.does = "add" => call.was = "none")
              => (CanPush(AccessOf(call.was)) => CanPush(AccessOf(call.role)))
  BY AccessFacts DEF LosesWrite, CallRow

\* What a step leaves of p: role, access and requests are as they were.
LeavesAlone(p) ==
    /\ p \in unrotated => p \in unrotated'
    /\ projectRepos' = projectRepos /\ projectCall' = projectCall
    /\ memberRole'[p] = memberRole[p]
    /\ \A r \in GitRepos :
         /\ repoAccess'[r][p] = repoAccess[r][p]
         /\ p \in copies'[r] => p \in copies[r] \/ CanPush(repoAccess[r][p])
    /\ \A c \in MemberCalls : About(c, p)' <=> About(c, p)
    /\ \A c \in MemberCalls : About(c, p) => memberCall'[c] = memberCall[c]

(* Then p is served as before. *)
LEMMA LeftAlone ==
  ASSUME MembersInv, NEW p \in People, PersonOK(p), LeavesAlone(p)
  PROVE  PersonOK(p)'
<1>1. projectRepos \subseteq GitRepos /\ projectCall.repo \in GitRepos
  BY MembershipFacts DEF MembersInv, ProjectRow
<1>2. Alone(p)'
  BY DEF PersonOK, Alone, LeavesAlone, ProjectUnderWay
<1>3. \A r \in GitRepos : \A role : Fits(p, r, role) => Fits(p, r, role)'
  BY DEF Fits, LeavesAlone
<1>4. CallsOnCourse(p)'
  <2> SUFFICES ASSUME NEW c \in MemberCalls, About(c, p)'
               PROVE  CallOnCourse(memberCall[c], p)'
    BY DEF CallsOnCourse
  <2>1. /\ About(c, p) /\ memberCall'[c] = memberCall[c] /\ CallOnCourse(memberCall[c], p)
        /\ projectRepos' = projectRepos /\ memberRole'[p] = memberRole[p]
    BY DEF LeavesAlone, PersonOK, CallsOnCourse
  <2> DEFINE call == memberCall[c]
  <2>2. Asked(call, p) => Asked(call, p)'
    BY <1>1, <1>3, <2>1 DEF Asked
  <2>3. Granting(call, p) => Granting(call, p)'
    BY <1>1, <2>1 DEF Granting, LeavesAlone
  <2>4. Undoing(call, p) => Undoing(call, p)'
    BY <1>1, <2>1 DEF Undoing, LeavesAlone
  <2>5. Rotating(call, p) => Rotating(call, p)'
    <3> SUFFICES ASSUME Rotating(call, p)
                 PROVE  Rotating(call, p)'
      OBVIOUS
    <3>1. LosesWrite(call)' /\ ~CanPush(AccessOf(call.role))
      <4>1. call \in CallRow
        BY MembershipFacts DEF MembersInv
      <4>2. LosesWrite(call)
        BY DEF Rotating
      <4>3. ~CanPush(AccessOf(call.role))
        BY <4>1, <4>2, LosesWriteFacts
      <4> QED
        BY <2>1, <4>2, <4>3 DEF LosesWrite
    <3> HIDE DEF call
    <3>2. ASSUME NEW r \in projectRepos
          PROVE  /\ repoAccess'[r][p] = AccessOf(call.role)
                 /\ call.at = "rotate" /\ r \notin call.todo
                      => p \notin copies'[r] \/ p \in unrotated'
      <4>1. /\ repoAccess[r][p] = AccessOf(call.role) /\ ~CanPush(repoAccess[r][p])
            /\ call.at = "rotate" /\ r \notin call.todo => p \notin copies[r] \/ p \in unrotated
        BY <3>1, <3>2 DEF Rotating
      <4> QED
        BY <1>1, <3>2, <4>1 DEF LeavesAlone
    <3> QED
      BY <2>1, <3>1, <3>2 DEF Rotating, call
  <2>6. Saved(call, p) => Saved(call, p)'
    BY <1>1, <2>1 DEF Saved, LeavesAlone
  <2> QED
    BY <2>1, <2>2, <2>3, <2>4, <2>5, <2>6 DEF CallOnCourse, RoleBefore, Committed
<1>5. FitsAtRest(p)'
  BY <1>1, <1>3 DEF PersonOK, FitsAtRest, LeavesAlone, ProjectUnderWay
<1>6. NewRepoFits(p)'
  BY <1>1, <1>3 DEF PersonOK, NewRepoFits, LeavesAlone
<1> QED
  BY <1>2, <1>4, <1>5, <1>6 DEF PersonOK

(* A request about q begins or goes on: nobody else is concerned. *)
LEMMA CallSteps ==
  ASSUME MembersInv, NEW c \in MemberCalls, NEW q \in People,
         memberCall[c].at # "idle" => memberCall[c].who = q,
         NEW new \in CallRow, memberCall' = [memberCall EXCEPT ![c] = new],
         new.at # "idle" => new.who = q,
         UNCHANGED <<projectRepos, projectCall>>, Counted \/ Uncounted,
         disputed \subseteq disputed', disputed' \subseteq disputed \cup {q},
         unrotated \subseteq unrotated', unrotated' \subseteq People,
         memberRole' \in [People -> MemberRoles \cup {"none"}],
         repoAccess' \in [GitRepos -> [People -> Accesses]],
         copies' \in [GitRepos -> SUBSET People],
         \A p \in People : p # q =>
             /\ memberRole'[p] = memberRole[p]
             /\ \A r \in GitRepos :
                  /\ repoAccess'[r][p] = repoAccess[r][p]
                  /\ p \in copies'[r] => p \in copies[r] \/ CanPush(repoAccess[r][p]),
         q \notin disputed' =>
             /\ ~ProjectUnderWay /\ \A d \in MemberCalls : d # c => ~About(d, q)
             /\ new.at # "idle" => CallOnCourse(new, q)'
             /\ new.at = "idle" => \A r \in projectRepos : Fits(q, r, memberRole[q])'
  PROVE  MembersInv'
<1>1. /\ memberCall \in [MemberCalls -> CallRow] /\ memberCall' \in [MemberCalls -> CallRow]
      /\ memberCall'[c] = new
      /\ \A d \in MemberCalls : d # c => memberCall'[d] = memberCall[d]
  BY MembershipFacts DEF MembersInv
<1>2. MembershipTypeOK'
  BY <1>1, MembershipFacts, MemberCounted DEF MembersInv, MembershipTypeOK, CallRow, ProjectRow
<1>3. ProjectForm'
  BY DEF MembersInv, ProjectForm, ProjectUnderWay
<1>4. \A d \in MemberCalls, p \in People : p # q => (About(d, p)' <=> About(d, p))
  BY <1>1 DEF About
<1>5. \A p \in People : p # q => ~About(c, p)
  BY DEF About
<1>6. ASSUME NEW p \in People \ disputed', p # q
      PROVE  PersonOK(p)'
  <2>1. LeavesAlone(p)
    BY <1>1, <1>4, <1>5, <1>6 DEF LeavesAlone
  <2> QED
    BY <1>6, <2>1, LeftAlone DEF MembersInv
<1>7. ASSUME q \notin disputed'
      PROVE  PersonOK(q)'
  <2>1. \A d \in MemberCalls : About(d, q)' => d = c /\ new.at # "idle"
    BY <1>1, <1>7 DEF About
  <2>2. ~ProjectUnderWay'
    BY <1>7 DEF ProjectUnderWay
  <2>3. Alone(q)'
    BY <2>1, <2>2 DEF Alone
  <2>4. CallsOnCourse(q)'
    BY <1>1, <1>7, <2>1 DEF CallsOnCourse
  <2>5. new.at # "idle" => About(c, q)'
    BY <1>1 DEF About
  <2>6. FitsAtRest(q)'
    BY <1>7, <2>5 DEF FitsAtRest
  <2>7. NewRepoFits(q)'
    BY <2>2 DEF NewRepoFits, ProjectUnderWay
  <2> QED
    BY <2>3, <2>4, <2>6, <2>7 DEF PersonOK
<1> QED
  BY <1>2, <1>3, <1>6, <1>7 DEF MembersInv

(* A request at work: who it is about, and what it has come to. *)
LEMMA AtCall ==
  ASSUME MembersInv, NEW c \in MemberCalls, memberCall[c].at # "idle"
  PROVE  \E call \in CallRow, q \in People :
           /\ memberCall[c] = call /\ q = call.who
           /\ call.todo \subseteq GitRepos /\ call.touched \subseteq GitRepos
           /\ call.role \in MemberRoles \cup {"none"} /\ call.was \in MemberRoles \cup {"none"}
           /\ q \notin disputed => CallOnCourse(call, q)
<1>1. PICK call \in CallRow : call = memberCall[c]
  BY MembershipFacts DEF MembersInv
<1>2. PICK q \in People : q = call.who
  BY DEF CallRow
<1>3. ASSUME q \notin disputed
      PROVE  CallOnCourse(memberCall[c], q)
  BY <1>1, <1>2, <1>3 DEF MembersInv, PersonOK, CallsOnCourse, About
<1>4. /\ call.todo \subseteq GitRepos /\ call.touched \subseteq GitRepos
      /\ call.role \in MemberRoles \cup {"none"} /\ call.was \in MemberRoles \cup {"none"}
  BY DEF CallRow
<1> QED
  BY <1>1, <1>2, <1>3, <1>4

\* A step of the request c about q to the record new.
CallStep(c, q, new) ==
    /\ memberCall[c].at # "idle" /\ memberCall[c].who = q
    /\ memberCall' = [memberCall EXCEPT ![c] = new]
    /\ new.at # "idle" => new.who = q
    /\ UNCHANGED <<projectRepos, projectCall>> /\ (Counted \/ Uncounted)
    /\ disputed \subseteq disputed' /\ disputed' \subseteq disputed \cup {q}
    /\ unrotated \subseteq unrotated' /\ unrotated' \subseteq People
    /\ memberRole' \in [People -> MemberRoles \cup {"none"}]
    /\ repoAccess' \in [GitRepos -> [People -> Accesses]]
    /\ copies' \in [GitRepos -> SUBSET People]
    /\ \A p \in People : p # q =>
         /\ memberRole'[p] = memberRole[p]
         /\ \A r \in GitRepos :
              /\ repoAccess'[r][p] = repoAccess[r][p]
              /\ p \in copies'[r] => p \in copies[r] \/ CanPush(repoAccess[r][p])

(* It keeps the invariant when it serves q while it lasts and once it has ended. *)
LEMMA CallKeeps ==
  ASSUME MembersInv, NEW c \in MemberCalls, NEW q \in People, NEW new \in CallRow,
         CallStep(c, q, new),
         q \notin disputed' =>
             /\ new.at # "idle" => CallOnCourse(new, q)'
             /\ new.at = "idle" => \A r \in projectRepos : Fits(q, r, memberRole[q])'
  PROVE  MembersInv'
<1>1. About(c, q)
  BY DEF About, CallStep
<1>2. q \notin disputed' => ~ProjectUnderWay /\ \A d \in MemberCalls : d # c => ~About(d, q)
  BY <1>1 DEF MembersInv, PersonOK, Alone, CallStep
<1> QED
  BY <1>2, CallSteps DEF CallStep

\* What a request about q changes of its own record as it walks.
Walked(call, at, todo, touched) ==
    [call EXCEPT !.at = at, !.todo = todo, !.touched = touched]

(* The rest of the record stays. *)
LEMMA WalkedFacts ==
  ASSUME NEW call \in CallRow, NEW todo \in SUBSET GitRepos, NEW touched \in SUBSET GitRepos,
         NEW at \in {"list", "grant", "undoList", "undo", "undone", "audit", "rotateList",
                   "rotate"}
  PROVE  \E new \in CallRow :
           /\ new = Walked(call, at, todo, touched)
           /\ new.at = at /\ new.todo = todo /\ new.touched = touched /\ new.at # "idle"
           /\ new.who = call.who /\ new.does = call.does
           /\ new.role = call.role /\ new.was = call.was
<1>1. PICK new : new = Walked(call, at, todo, touched)
  OBVIOUS
<1>2. new \in CallRow
  BY <1>1 DEF Walked, CallRow
<1>3. /\ new.at = at /\ new.todo = todo /\ new.touched = touched /\ new.at # "idle"
      /\ new.who = call.who /\ new.does = call.does
      /\ new.role = call.role /\ new.was = call.was
  BY <1>1 DEF Walked, CallRow
<1> QED
  BY <1>1, <1>2, <1>3

(* A request takes up the list of projects, and its walk has all of them before it. *)
LEMMA ListKeeps ==
  ASSUME MembersInv, NEW c \in MemberCalls, ListProjects(c)
  PROVE  MembersInv'
<1>1. PICK call \in CallRow, q \in People :
        /\ memberCall[c] = call /\ q = call.who /\ call.at # "idle"
        /\ q \notin disputed => CallOnCourse(call, q)
  BY AtCall DEF ListProjects
<1>2. PICK from \in {<<"list", "grant">>, <<"undoList", "undo">>, <<"rotateList", "rotate">>} :
        /\ call.at = from[1]
        /\ memberCall' = [memberCall EXCEPT ![c].at = from[2], ![c].todo = projectRepos]
  BY <1>1 DEF ListProjects
<1>3. PICK at : at = from[2]
  OBVIOUS
<1>4. /\ \/ call.at = "list" /\ at = "grant"
         \/ call.at = "undoList" /\ at = "undo"
         \/ call.at = "rotateList" /\ at = "rotate"
      /\ memberCall' = [memberCall EXCEPT ![c].at = at, ![c].todo = projectRepos]
  BY <1>2, <1>3
<1>5. /\ memberCall \in [MemberCalls -> CallRow]
      /\ projectRepos \subseteq GitRepos /\ call.touched \subseteq GitRepos
  BY MembershipFacts DEF MembersInv, CallRow
<1>6. PICK new \in CallRow :
        /\ new = Walked(call, at, projectRepos, call.touched)
        /\ new.at = at /\ new.todo = projectRepos /\ new.touched = call.touched
        /\ new.at # "idle" /\ new.who = call.who /\ new.does = call.does
        /\ new.role = call.role /\ new.was = call.was
  BY <1>4, <1>5, WalkedFacts
<1>7. memberCall' = [memberCall EXCEPT ![c] = new]
  <2>1. new = [call EXCEPT !.at = at, !.todo = projectRepos]
    BY <1>6 DEF Walked, CallRow
  <2> QED
    BY <1>1, <1>4, <1>5, <2>1
<1>8. UNCHANGED <<memberRole, repoAccess, projectRepos, copies, projectCall, disputed, unrotated>> /\ Uncounted
  BY DEF ListProjects
<1>9. ASSUME q \notin disputed
      PROVE  CallOnCourse(new, q)'
  <2>1. CallOnCourse(call, q)
    BY <1>1, <1>9
  <2>2. CallOnCourse(new, q)
    BY <1>4, <1>5, <1>6, <2>1
       DEF CallOnCourse, RoleBefore, Committed, Asked, Granting, Fits, Undoing, Saved, Rotating,
           LosesWrite
  <2> QED
    BY <1>8, <2>2 DEF CallOnCourse, RoleBefore, Committed, Asked, Granting, Fits, Undoing, Saved, Rotating,
           LosesWrite
<1>10. CallStep(c, q, new)
  BY <1>1, <1>6, <1>7, <1>8, MembershipFacts DEF MembersInv, CallStep
<1> QED
  BY <1>6, <1>8, <1>9, <1>10, CallKeeps

(* One repository is granted what the request asks. *)
LEMMA GrantKeeps ==
  ASSUME MembersInv, NEW c \in MemberCalls, GrantNext(c)
  PROVE  MembersInv'
<1>1. PICK call \in CallRow, q \in People :
        /\ memberCall[c] = call /\ q = call.who
        /\ call.todo \subseteq GitRepos /\ call.touched \subseteq GitRepos
        /\ call.role \in MemberRoles \cup {"none"} /\ call.was \in MemberRoles \cup {"none"}
        /\ q \notin disputed => CallOnCourse(call, q)
  BY AtCall DEF GrantNext
<1>2. PICK r \in call.todo :
        /\ Grants(r, q, AccessOf(call.role))
        /\ memberCall' = [memberCall EXCEPT ![c].todo = @ \ {r}, ![c].touched = @ \cup {r}]
  BY <1>1 DEF GrantNext
<1>3. /\ memberCall \in [MemberCalls -> CallRow] /\ r \in GitRepos
      /\ projectRepos \subseteq GitRepos /\ AccessOf(call.role) \in Accesses
      /\ call.at = "grant" /\ MembershipTypeOK
  BY <1>1, MembershipFacts, AccessFacts DEF MembersInv, GrantNext
<1>4. PICK new \in CallRow :
        /\ new = Walked(call, "grant", call.todo \ {r}, call.touched \cup {r})
        /\ new.at = "grant" /\ new.todo = call.todo \ {r} /\ new.touched = call.touched \cup {r}
        /\ new.at # "idle" /\ new.who = call.who /\ new.does = call.does
        /\ new.role = call.role /\ new.was = call.was
  <2>1. call.todo \ {r} \in SUBSET GitRepos /\ call.touched \cup {r} \in SUBSET GitRepos
    BY <1>1, <1>3
  <2> QED
    BY <2>1, WalkedFacts
<1>5. memberCall' = [memberCall EXCEPT ![c] = new]
  <2>1. new = [call EXCEPT !.todo = @ \ {r}, !.touched = @ \cup {r}]
    BY <1>3, <1>4 DEF Walked, CallRow
  <2> QED
    BY <1>1, <1>2, <1>3, <2>1
<1>6. UNCHANGED <<memberRole, projectRepos, projectCall, disputed, unrotated>> /\ Uncounted
  BY DEF GrantNext
<1>7. /\ repoAccess' \in [GitRepos -> [People -> Accesses]]
      /\ copies' \in [GitRepos -> SUBSET People]
      /\ repoAccess'[r][q] = AccessOf(call.role)
      /\ q \in copies'[r] => q \in copies[r] \/ CanPush(AccessOf(call.role))
      /\ \A s \in GitRepos, p \in People : s # r \/ p # q =>
           /\ repoAccess'[s][p] = repoAccess[s][p]
           /\ p \in copies'[s] <=> p \in copies[s]
  BY <1>2, <1>3, GrantsFacts
<1>8. ASSUME q \notin disputed
      PROVE  CallOnCourse(new, q)'
  <2>1. CallOnCourse(call, q) /\ Granting(call, q)
    BY <1>1, <1>3, <1>8 DEF CallOnCourse
  <2>2. Granting(new, q)'
    <3> SUFFICES ASSUME NEW s \in projectRepos
                 PROVE  /\ s \in new.todo =>
                             s \notin new.touched /\ repoAccess'[s][q] = AccessOf(new.was)
                        /\ s \notin new.todo =>
                             s \in new.touched /\ repoAccess'[s][q] = AccessOf(new.role)
                        /\ q \in copies'[s] => \/ CanPush(AccessOf(new.was))
                                              \/ CanPush(AccessOf(new.role))
                                              \/ q \in unrotated
      BY <1>6 DEF Granting
    <3>1. CASE s = r
      BY <1>4, <1>7, <2>1, <3>1 DEF Granting
    <3>2. CASE s # r
      <4>1. s \in GitRepos
        BY <1>3
      <4>2. /\ repoAccess'[s][q] = repoAccess[s][q]
            /\ q \in copies'[s] => q \in copies[s]
        BY <1>7, <3>2, <4>1
      <4>3. /\ s \in call.todo =>
                 s \notin call.touched /\ repoAccess[s][q] = AccessOf(call.was)
            /\ s \notin call.todo =>
                 s \in call.touched /\ repoAccess[s][q] = AccessOf(call.role)
            /\ q \in copies[s] =>
                 CanPush(AccessOf(call.was)) \/ CanPush(AccessOf(call.role)) \/ q \in unrotated
        BY <2>1 DEF Granting
      <4> QED
        BY <1>4, <3>2, <4>2, <4>3
    <3> QED
      BY <3>1, <3>2
  <2> QED
    BY <1>3, <1>4, <1>6, <2>1, <2>2 DEF CallOnCourse, RoleBefore, Committed
<1>9. CallStep(c, q, new)
  BY <1>1, <1>3, <1>4, <1>5, <1>6, <1>7, MembershipFacts DEF MembersInv, CallStep
<1> QED
  BY <1>4, <1>6, <1>8, <1>9, CallKeeps

(* The call fails: its repository counts as touched when it took effect. *)
LEMMA GrantFailsKeeps ==
  ASSUME MembersInv, NEW c \in MemberCalls, GrantFails(c)
  PROVE  MembersInv'
<1>1. PICK call \in CallRow, q \in People :
        /\ memberCall[c] = call /\ q = call.who
        /\ call.todo \subseteq GitRepos /\ call.touched \subseteq GitRepos
        /\ call.role \in MemberRoles \cup {"none"} /\ call.was \in MemberRoles \cup {"none"}
        /\ q \notin disputed => CallOnCourse(call, q)
  BY AtCall DEF GrantFails
<1>2. PICK r \in call.todo, took \in BOOLEAN :
        /\ IF took THEN Grants(r, q, AccessOf(call.role)) ELSE UNCHANGED <<repoAccess, copies>>
        /\ memberCall' = [memberCall EXCEPT
               ![c].at = "undoList", ![c].todo = {},
               ![c].touched = IF took THEN @ \cup {r} ELSE @]
  BY <1>1 DEF GrantFails
<1>3. /\ memberCall \in [MemberCalls -> CallRow] /\ r \in GitRepos
      /\ projectRepos \subseteq GitRepos /\ AccessOf(call.role) \in Accesses
      /\ call.at = "grant" /\ MembershipTypeOK
  BY <1>1, MembershipFacts, AccessFacts DEF MembersInv, GrantFails
<1>4. PICK touched \in SUBSET GitRepos : touched = IF took THEN call.touched \cup {r} ELSE call.touched
  BY <1>1, <1>3
<1>5. PICK new \in CallRow :
        /\ new = Walked(call, "undoList", {}, touched)
        /\ new.at = "undoList" /\ new.todo = {} /\ new.touched = touched
        /\ new.at # "idle" /\ new.who = call.who /\ new.does = call.does
        /\ new.role = call.role /\ new.was = call.was
  BY WalkedFacts
<1>6. memberCall' = [memberCall EXCEPT ![c] = new]
  BY <1>1, <1>2, <1>3, <1>4, <1>5 DEF Walked, CallRow
<1>7. UNCHANGED <<memberRole, projectRepos, projectCall, disputed, unrotated>> /\ Counted
  BY DEF GrantFails
<1>8. /\ repoAccess' \in [GitRepos -> [People -> Accesses]]
      /\ copies' \in [GitRepos -> SUBSET People]
      /\ \A s \in GitRepos, p \in People : s # r \/ p # q =>
           /\ repoAccess'[s][p] = repoAccess[s][p]
           /\ p \in copies'[s] <=> p \in copies[s]
      /\ took \/ repoAccess'[r][q] = repoAccess[r][q]
  <2>1. CASE took
    BY <1>2, <1>3, <2>1, GrantsFacts
  <2>2. CASE ~took
    BY <1>2, <1>3, <2>2, MembershipFacts
  <2> QED
    BY <2>1, <2>2
<1>9. ASSUME q \notin disputed
      PROVE  CallOnCourse(new, q)'
  <2>1. CallOnCourse(call, q) /\ Granting(call, q)
    BY <1>1, <1>3, <1>9 DEF CallOnCourse
  <2>2. Undoing(new, q)'
    BY <1>3, <1>4, <1>5, <1>7, <1>8, <2>1 DEF Granting, Undoing
  <2> QED
    BY <1>3, <1>5, <1>7, <2>1, <2>2 DEF CallOnCourse, RoleBefore, Committed
<1>10. CallStep(c, q, new)
  BY <1>1, <1>3, <1>5, <1>6, <1>7, <1>8, MembershipFacts DEF MembersInv, CallStep
<1> QED
  BY <1>5, <1>7, <1>9, <1>10, CallKeeps

(* An ended request leaves the record of nobody. *)
LEMMA EndFacts ==
  ASSUME MembersInv, NEW c \in MemberCalls, EndCall(c)
  PROVE  \E new \in CallRow :
           new.at = "idle" /\ memberCall' = [memberCall EXCEPT ![c] = new]
  BY NobodyFacts DEF EndCall

(* A request has granted everything and has its row: only the audit event is left, and
   the credentials. *)
LEMMA SavedKeeps ==
  ASSUME MembersInv, NEW c \in MemberCalls, Added(c) \/ SaveMember(c)
  PROVE  MembersInv'
<1>1. PICK call \in CallRow, q \in People :
        /\ memberCall[c] = call /\ q = call.who
        /\ call.todo \subseteq GitRepos /\ call.touched \subseteq GitRepos
        /\ call.role \in MemberRoles \cup {"none"} /\ call.was \in MemberRoles \cup {"none"}
        /\ q \notin disputed => CallOnCourse(call, q)
  BY AtCall DEF Added, SaveMember, Granted
<1>2. /\ UNCHANGED <<repoAccess, projectRepos, copies, projectCall, disputed, unrotated>>
      /\ Uncounted /\ MoveCall(c, "audit")
      /\ call.at = "grant" /\ call.todo = {}
      /\ IF call.does = "add" THEN memberRole' = memberRole
         ELSE memberRole' = [memberRole EXCEPT ![q] = call.role]
  BY <1>1 DEF Added, SaveMember, Granted
<1>3. /\ memberRole' \in [People -> MemberRoles \cup {"none"}]
      /\ call.does # "add" => memberRole'[q] = call.role
      /\ \A p \in People : p # q => memberRole'[p] = memberRole[p]
      /\ memberCall \in [MemberCalls -> CallRow]
  <2>1. CASE call.does = "add"
    BY <1>2, <2>1, MembershipFacts DEF MembersInv
  <2>2. CASE call.does # "add"
    BY <1>1, <1>2, <2>2, MembershipFacts DEF MembersInv
  <2> QED
    BY <2>1, <2>2
<1>4. PICK new \in CallRow :
        /\ new = Walked(call, "audit", call.todo, call.touched)
        /\ new.at = "audit" /\ new.todo = call.todo /\ new.touched = call.touched
        /\ new.at # "idle" /\ new.who = call.who /\ new.does = call.does
        /\ new.role = call.role /\ new.was = call.was
  BY <1>1, WalkedFacts
<1>5. memberCall' = [memberCall EXCEPT ![c] = new]
  <2>1. new = [call EXCEPT !.at = "audit"]
    BY <1>4 DEF Walked, CallRow
  <2> QED
    BY <1>1, <1>2, <1>3, <2>1 DEF MoveCall
<1>6. ASSUME q \notin disputed
      PROVE  CallOnCourse(new, q)'
  <2>1. CallOnCourse(call, q) /\ Granting(call, q)
    BY <1>1, <1>2, <1>6 DEF CallOnCourse
  <2>2. Saved(new, q)'
    BY <1>2, <1>4, <2>1 DEF Granting, Saved
  <2>3. memberRole'[q] = call.role
    BY <1>2, <1>3, <2>1 DEF CallOnCourse, RoleBefore, Committed
  <2> QED
    BY <1>4, <2>1, <2>2, <2>3 DEF CallOnCourse, Committed
<1>7. CallStep(c, q, new)
  BY <1>1, <1>2, <1>3, <1>4, <1>5, MembershipFacts DEF MembersInv, CallStep
<1> QED
  BY <1>2, <1>4, <1>6, <1>7, CallKeeps

(* The audit event is written.  Without a walk over the credentials the person could push
   neither before nor after, or can push now. *)
LEMMA AuditKeeps ==
  ASSUME MembersInv, NEW c \in MemberCalls, RecordAudit(c)
  PROVE  MembersInv'
<1>1. PICK call \in CallRow, q \in People :
        /\ memberCall[c] = call /\ q = call.who
        /\ call.todo \subseteq GitRepos /\ call.touched \subseteq GitRepos
        /\ call.role \in MemberRoles \cup {"none"} /\ call.was \in MemberRoles \cup {"none"}
        /\ q \notin disputed => CallOnCourse(call, q)
  BY AtCall DEF RecordAudit
<1>2. /\ UNCHANGED <<memberRole, repoAccess, projectRepos, copies, projectCall, disputed,
                      unrotated>>
      /\ Uncounted /\ call.at = "audit"
      /\ IF LosesWrite(call) THEN MoveCall(c, "rotateList") ELSE EndCall(c)
      /\ memberCall \in [MemberCalls -> CallRow]
  BY <1>1, MembershipFacts DEF RecordAudit, MembersInv
<1>3. ASSUME q \notin disputed
      PROVE  CallOnCourse(call, q) /\ Saved(call, q) /\ memberRole[q] = call.role
  BY <1>1, <1>2, <1>3 DEF CallOnCourse, Committed
<1>4. CASE LosesWrite(call)
  <2>1. PICK new \in CallRow :
          /\ new = Walked(call, "rotateList", call.todo, call.touched)
          /\ new.at = "rotateList" /\ new.todo = call.todo /\ new.touched = call.touched
          /\ new.at # "idle" /\ new.who = call.who /\ new.does = call.does
          /\ new.role = call.role /\ new.was = call.was
    BY <1>1, WalkedFacts
  <2>2. memberCall' = [memberCall EXCEPT ![c] = new]
    <3>1. new = [call EXCEPT !.at = "rotateList"]
      BY <2>1 DEF Walked, CallRow
    <3> QED
      BY <1>1, <1>2, <1>4, <3>1 DEF MoveCall
  <2>3. ASSUME q \notin disputed
        PROVE  CallOnCourse(new, q)'
    <3>1. Rotating(new, q)'
      BY <1>2, <1>3, <1>4, <2>1, <2>3 DEF Rotating, Saved, LosesWrite
    <3> QED
      BY <1>2, <1>3, <2>1, <2>3, <3>1 DEF CallOnCourse, Committed
  <2>4. CallStep(c, q, new)
    BY <1>1, <1>2, <2>1, <2>2, MembershipFacts DEF MembersInv, CallStep
  <2> QED
    BY <1>2, <2>1, <2>3, <2>4, CallKeeps
<1>5. CASE ~LosesWrite(call)
  <2>1. PICK new \in CallRow : new.at = "idle" /\ memberCall' = [memberCall EXCEPT ![c] = new]
    BY <1>2, <1>5, EndFacts
  <2>2. ASSUME q \notin disputed
        PROVE  \A r \in projectRepos : Fits(q, r, memberRole[q])'
    <3>1. CanPush(AccessOf(call.was)) => CanPush(AccessOf(call.role))
      BY <1>3, <1>5, <2>2, LosesWriteFacts DEF CallOnCourse
    <3> QED
      BY <1>2, <1>3, <2>2, <3>1 DEF Fits, Saved
  <2>3. CallStep(c, q, new)
    BY <1>1, <1>2, <2>1, MembershipFacts DEF MembersInv, CallStep
  <2> QED
    BY <1>2, <2>1, <2>2, <2>3, CallKeeps
<1> QED
  BY <1>4, <1>5

(* The request ends after its row, with the audit event or without: what it grants fits,
   and who could copy a credential that stays is on record. *)
LEMMA GivesUpKeeps ==
  ASSUME MembersInv, NEW c \in MemberCalls, memberCall[c].at \in Committed,
         GivesUpRotation(c), Counted,
         UNCHANGED <<memberRole, repoAccess, projectRepos, copies, projectCall, disputed>>
  PROVE  MembersInv'
<1>1. PICK call \in CallRow, q \in People :
        /\ memberCall[c] = call /\ q = call.who
        /\ q \notin disputed => CallOnCourse(call, q)
  BY AtCall DEF Committed
<1>2. PICK new \in CallRow : new.at = "idle" /\ memberCall' = [memberCall EXCEPT ![c] = new]
  BY EndFacts DEF GivesUpRotation
<1>3. /\ call.at \in Committed /\ call.at # "idle"
      /\ unrotated' = IF LosesWrite(call) THEN unrotated \cup {q} ELSE unrotated
      /\ unrotated \subseteq People
  BY <1>1, MembershipFacts DEF GivesUpRotation, Committed, MembersInv
<1>4. ASSUME q \notin disputed
      PROVE  \A r \in projectRepos : Fits(q, r, memberRole[q])'
  <2>1. CallOnCourse(call, q) /\ memberRole[q] = call.role
    BY <1>1, <1>3, <1>4 DEF CallOnCourse
  <2>2. CASE LosesWrite(call)
    BY <1>3, <2>1, <2>2 DEF CallOnCourse, Committed, Saved, Rotating, Fits
  <2>3. CASE ~LosesWrite(call)
    <3>1. call.at = "audit" /\ Saved(call, q)
      BY <1>3, <2>1, <2>3 DEF CallOnCourse, Committed, Rotating
    <3>2. CanPush(AccessOf(call.was)) => CanPush(AccessOf(call.role))
      BY <2>1, <2>3, LosesWriteFacts DEF CallOnCourse
    <3> QED
      BY <1>3, <2>1, <2>3, <3>1, <3>2 DEF Saved, Fits
  <2> QED
    BY <2>2, <2>3
<1>5. CallStep(c, q, new)
  BY <1>1, <1>2, <1>3, MembershipFacts DEF MembersInv, CallStep
<1> QED
  BY <1>2, <1>4, <1>5, CallKeeps

(* The row could not be saved: everything is touched, and the undo begins. *)
LEMMA SaveFailsKeeps ==
  ASSUME MembersInv, NEW c \in MemberCalls, SaveFails(c)
  PROVE  MembersInv'
<1>1. PICK call \in CallRow, q \in People :
        /\ memberCall[c] = call /\ q = call.who
        /\ call.todo \subseteq GitRepos /\ call.touched \subseteq GitRepos
        /\ q \notin disputed => CallOnCourse(call, q)
  BY AtCall DEF SaveFails, Granted
<1>2. /\ UNCHANGED <<memberRole, repoAccess, projectRepos, copies, projectCall, disputed, unrotated>>
      /\ (Counted \/ Uncounted)
      /\ call.at = "grant" /\ call.todo = {} /\ MoveCall(c, "undoList")
      /\ memberCall \in [MemberCalls -> CallRow]
  BY <1>1, MembershipFacts DEF SaveFails, Granted, MembersInv
<1>3. PICK new \in CallRow :
        /\ new = Walked(call, "undoList", call.todo, call.touched)
        /\ new.at = "undoList" /\ new.todo = call.todo /\ new.touched = call.touched
        /\ new.at # "idle" /\ new.who = call.who /\ new.does = call.does
        /\ new.role = call.role /\ new.was = call.was
  BY <1>1, WalkedFacts
<1>4. memberCall' = [memberCall EXCEPT ![c] = new]
  <2>1. new = [call EXCEPT !.at = "undoList"]
    BY <1>3 DEF Walked, CallRow
  <2> QED
    BY <1>1, <1>2, <2>1 DEF MoveCall
<1>5. ASSUME q \notin disputed
      PROVE  CallOnCourse(new, q)'
  <2>1. CallOnCourse(call, q) /\ Granting(call, q)
    BY <1>1, <1>2, <1>5 DEF CallOnCourse
  <2>2. Undoing(new, q)'
    BY <1>2, <1>3, <2>1 DEF Granting, Undoing
  <2> QED
    BY <1>2, <1>3, <2>1, <2>2 DEF CallOnCourse, RoleBefore, Committed
<1>6. CallStep(c, q, new)
  BY <1>1, <1>2, <1>3, <1>4, MembershipFacts DEF MembersInv, CallStep
<1> QED
  BY <1>2, <1>3, <1>5, <1>6, CallKeeps

(* One repository is put back. *)
LEMMA UndoKeeps ==
  ASSUME MembersInv, NEW c \in MemberCalls, UndoNext(c)
  PROVE  MembersInv'
<1>1. PICK call \in CallRow, q \in People :
        /\ memberCall[c] = call /\ q = call.who
        /\ call.todo \subseteq GitRepos /\ call.touched \subseteq GitRepos
        /\ call.role \in MemberRoles \cup {"none"} /\ call.was \in MemberRoles \cup {"none"}
        /\ q \notin disputed => CallOnCourse(call, q)
  BY AtCall DEF UndoNext
<1>2. PICK r \in call.todo :
        /\ Grants(r, q, AccessOf(call.was))
        /\ memberCall' = [memberCall EXCEPT ![c].todo = @ \ {r}, ![c].touched = @ \ {r}]
  BY <1>1 DEF UndoNext, UndoTo
<1>3. /\ memberCall \in [MemberCalls -> CallRow] /\ r \in GitRepos
      /\ projectRepos \subseteq GitRepos /\ AccessOf(call.was) \in Accesses
      /\ call.at = "undo" /\ MembershipTypeOK
  BY <1>1, MembershipFacts, AccessFacts DEF MembersInv, UndoNext
<1>4. PICK new \in CallRow :
        /\ new = Walked(call, "undo", call.todo \ {r}, call.touched \ {r})
        /\ new.at = "undo" /\ new.todo = call.todo \ {r} /\ new.touched = call.touched \ {r}
        /\ new.at # "idle" /\ new.who = call.who /\ new.does = call.does
        /\ new.role = call.role /\ new.was = call.was
  <2>1. call.todo \ {r} \in SUBSET GitRepos /\ call.touched \ {r} \in SUBSET GitRepos
    BY <1>1, <1>3
  <2> QED
    BY <2>1, WalkedFacts
<1>5. memberCall' = [memberCall EXCEPT ![c] = new]
  <2>1. new = [call EXCEPT !.todo = @ \ {r}, !.touched = @ \ {r}]
    BY <1>3, <1>4 DEF Walked, CallRow
  <2> QED
    BY <1>1, <1>2, <1>3, <2>1
<1>6. UNCHANGED <<memberRole, projectRepos, projectCall, disputed, unrotated>> /\ Uncounted
  BY DEF UndoNext
<1>7. /\ repoAccess' \in [GitRepos -> [People -> Accesses]]
      /\ copies' \in [GitRepos -> SUBSET People]
      /\ repoAccess'[r][q] = AccessOf(call.was)
      /\ \A s \in GitRepos, p \in People : s # r \/ p # q =>
           /\ repoAccess'[s][p] = repoAccess[s][p]
           /\ p \in copies'[s] <=> p \in copies[s]
  BY <1>2, <1>3, GrantsFacts
<1>8. ASSUME q \notin disputed
      PROVE  CallOnCourse(new, q)'
  <2>1. CallOnCourse(call, q) /\ Undoing(call, q)
    BY <1>1, <1>3, <1>8 DEF CallOnCourse
  <2>2. Undoing(new, q)'
    <3> SUFFICES ASSUME NEW s \in projectRepos
                 PROVE  s \in new.touched \/ repoAccess'[s][q] = AccessOf(new.was)
      BY <1>6 DEF Undoing
    <3>1. CASE s = r
      BY <1>4, <1>7, <3>1
    <3>2. CASE s # r
      <4>1. s \in GitRepos
        BY <1>3
      <4>2. repoAccess'[s][q] = repoAccess[s][q]
        BY <1>7, <3>2, <4>1
      <4>3. s \in call.touched \/ repoAccess[s][q] = AccessOf(call.was)
        BY <2>1 DEF Undoing
      <4> QED
        BY <1>4, <3>2, <4>2, <4>3
    <3> QED
      BY <3>1, <3>2
  <2> QED
    BY <1>3, <1>4, <1>6, <2>1, <2>2 DEF CallOnCourse, RoleBefore, Committed
<1>9. CallStep(c, q, new)
  BY <1>1, <1>3, <1>4, <1>5, <1>6, <1>7, MembershipFacts DEF MembersInv, CallStep
<1> QED
  BY <1>4, <1>6, <1>8, <1>9, CallKeeps

(* The undo stops where it is. *)
LEMMA UndoFailsKeeps ==
  ASSUME MembersInv, NEW c \in MemberCalls, UndoFails(c)
  PROVE  MembersInv'
<1>1. PICK call \in CallRow, q \in People :
        /\ memberCall[c] = call /\ q = call.who
        /\ call.todo \subseteq GitRepos /\ call.touched \subseteq GitRepos
        /\ q \notin disputed => CallOnCourse(call, q)
  BY AtCall DEF UndoFails
<1>2. /\ UNCHANGED <<memberRole, repoAccess, projectRepos, copies, projectCall, disputed, unrotated>>
      /\ Counted /\ call.at = "undo"
      /\ memberCall' = [memberCall EXCEPT ![c].at = "undone", ![c].todo = {}]
      /\ memberCall \in [MemberCalls -> CallRow]
  BY <1>1, MembershipFacts DEF UndoFails, MembersInv
<1>3. PICK new \in CallRow :
        /\ new = Walked(call, "undone", {}, call.touched)
        /\ new.at = "undone" /\ new.todo = {} /\ new.touched = call.touched
        /\ new.at # "idle" /\ new.who = call.who /\ new.does = call.does
        /\ new.role = call.role /\ new.was = call.was
  BY <1>1, WalkedFacts
<1>4. memberCall' = [memberCall EXCEPT ![c] = new]
  <2>1. new = [call EXCEPT !.at = "undone", !.todo = {}]
    BY <1>3 DEF Walked, CallRow
  <2> QED
    BY <1>1, <1>2, <2>1
<1>5. ASSUME q \notin disputed
      PROVE  CallOnCourse(new, q)'
  <2>1. CallOnCourse(call, q) /\ Undoing(call, q)
    BY <1>1, <1>2, <1>5 DEF CallOnCourse
  <2>2. Undoing(new, q)'
    BY <1>2, <1>3, <2>1 DEF Undoing
  <2> QED
    BY <1>2, <1>3, <2>1, <2>2 DEF CallOnCourse, RoleBefore, Committed
<1>6. CallStep(c, q, new)
  BY <1>1, <1>2, <1>3, <1>4, MembershipFacts DEF MembersInv, CallStep
<1> QED
  BY <1>2, <1>3, <1>5, <1>6, CallKeeps

(* The undo has ended.  A person who is not disputed has no repository left that a grant
   touched, and no credential of one they cannot push to. *)
LEMMA UndoneKeeps ==
  ASSUME MembersInv, NEW c \in MemberCalls, Undone(c)
  PROVE  MembersInv'
<1>1. PICK call \in CallRow, q \in People :
        /\ memberCall[c] = call /\ q = call.who
        /\ call.was \in MemberRoles \cup {"none"}
        /\ q \notin disputed => CallOnCourse(call, q)
  BY AtCall DEF Undone
<1>2. PICK new \in CallRow : new.at = "idle" /\ memberCall' = [memberCall EXCEPT ![c] = new]
  BY EndFacts DEF Undone
<1>3. /\ UNCHANGED <<repoAccess, projectRepos, copies, projectCall>>
      /\ (Counted \/ Uncounted)
      /\ call.at \in {"undo", "undone"}
      /\ disputed \subseteq disputed' /\ disputed' \subseteq disputed \cup {q}
      /\ memberRole' \in {memberRole, [memberRole EXCEPT ![q] = "none"]}
      /\ q \notin disputed' =>
           /\ q \notin disputed /\ Reached(c)
           /\ call.does = "add" => memberRole' = [memberRole EXCEPT ![q] = "none"]
           /\ call.does # "add" => memberRole' = memberRole
      /\ unrotated' = IF MayKnow(q) THEN unrotated \cup {q} ELSE unrotated
      /\ unrotated \subseteq People
  <2>1. /\ UNCHANGED <<repoAccess, projectRepos, copies, projectCall>>
        /\ call.at \in {"undo", "undone"}
        /\ unrotated' = IF MayKnow(q) THEN unrotated \cup {q} ELSE unrotated
        /\ unrotated \subseteq People
    BY <1>1, MembershipFacts DEF Undone, MembersInv
  <2>2. \/ /\ memberRole' = IF call.does = "add" THEN [memberRole EXCEPT ![q] = "none"]
                            ELSE memberRole
           /\ Uncounted
           /\ disputed' = IF Reached(c) THEN disputed ELSE disputed \cup {q}
        \/ /\ call.does = "add" /\ Counted
           /\ disputed' = disputed \cup {q}
           /\ UNCHANGED memberRole
    BY <1>1 DEF Undone
  <2> QED
    BY <2>1, <2>2
<1>4. /\ memberRole' \in [People -> MemberRoles \cup {"none"}]
      /\ \A p \in People : p # q => memberRole'[p] = memberRole[p]
      /\ call.does = "add" /\ q \notin disputed' => memberRole'[q] = "none"
  BY <1>3, MembershipFacts DEF MembersInv
<1>5. ASSUME q \notin disputed'
      PROVE  \A r \in projectRepos : Fits(q, r, memberRole[q])'
  <2>1. CallOnCourse(call, q) /\ Undoing(call, q)
    BY <1>1, <1>3, <1>5 DEF CallOnCourse
  <2>2. /\ call.touched = {}
        /\ \A r \in projectRepos : q \in copies[r] => q \in Pushers(r) \/ q \in unrotated'
    BY <1>1, <1>3, <1>5 DEF Reached, MayKnow
  <2>3. memberRole'[q] = call.was
    BY <1>3, <1>4, <1>5, <2>1 DEF CallOnCourse, RoleBefore, Committed
  <2>4. \A r \in projectRepos :
          /\ repoAccess[r][q] = AccessOf(call.was)
          /\ q \in copies[r] => CanPush(repoAccess[r][q]) \/ q \in unrotated'
    BY <2>1, <2>2 DEF Undoing, Pushers
  <2> QED
    BY <1>3, <2>3, <2>4 DEF Fits
<1>6. CallStep(c, q, new)
  BY <1>1, <1>2, <1>3, <1>4, MembershipFacts DEF MembersInv, CallStep
<1> QED
  BY <1>2, <1>5, <1>6, CallKeeps

(* A credential is replaced: only those who may push know the new one. *)
LEMMA RotateKeeps ==
  ASSUME MembersInv, NEW c \in MemberCalls, RotateNext(c)
  PROVE  MembersInv'
<1>1. PICK call \in CallRow, q \in People :
        /\ memberCall[c] = call /\ q = call.who
        /\ call.todo \subseteq GitRepos /\ call.touched \subseteq GitRepos
        /\ q \notin disputed => CallOnCourse(call, q)
  BY AtCall DEF RotateNext
<1>2. PICK r \in call.todo :
        /\ copies' = [copies EXCEPT ![r] = Pushers(r)]
        /\ memberCall' = [memberCall EXCEPT ![c].todo = @ \ {r}]
  BY <1>1 DEF RotateNext
<1>3. /\ memberCall \in [MemberCalls -> CallRow] /\ r \in GitRepos
      /\ projectRepos \subseteq GitRepos /\ call.at = "rotate"
      /\ UNCHANGED <<memberRole, repoAccess, projectRepos, projectCall, disputed, unrotated>> /\ Uncounted
  BY <1>1, MembershipFacts DEF MembersInv, RotateNext
<1>4. PICK new \in CallRow :
        /\ new = Walked(call, "rotate", call.todo \ {r}, call.touched)
        /\ new.at = "rotate" /\ new.todo = call.todo \ {r} /\ new.touched = call.touched
        /\ new.at # "idle" /\ new.who = call.who /\ new.does = call.does
        /\ new.role = call.role /\ new.was = call.was
  <2>1. call.todo \ {r} \in SUBSET GitRepos /\ call.touched \in SUBSET GitRepos
    BY <1>1, <1>3
  <2> QED
    BY <2>1, WalkedFacts
<1>5. memberCall' = [memberCall EXCEPT ![c] = new]
  <2>1. new = [call EXCEPT !.todo = @ \ {r}]
    BY <1>3, <1>4 DEF Walked, CallRow
  <2> QED
    BY <1>1, <1>2, <1>3, <2>1
<1>6. /\ copies' \in [GitRepos -> SUBSET People]
      /\ \A p \in People : p \in copies'[r] => CanPush(repoAccess[r][p])
      /\ \A s \in GitRepos : s # r => copies'[s] = copies[s]
  <2>1. Pushers(r) \in SUBSET People /\ \A p \in Pushers(r) : CanPush(repoAccess[r][p])
    BY DEF Pushers
  <2> QED
    BY <1>2, <1>3, <2>1, MembershipFacts DEF MembersInv
<1>7. ASSUME q \notin disputed
      PROVE  CallOnCourse(new, q)'
  <2>1. CallOnCourse(call, q) /\ Rotating(call, q) /\ memberRole[q] = call.role
    BY <1>1, <1>3, <1>7 DEF CallOnCourse, Committed
  <2>2. Rotating(new, q)'
    <3>1. /\ ~CanPush(AccessOf(call.role)) /\ LosesWrite(call)
          /\ \A s \in projectRepos :
               /\ repoAccess[s][q] = AccessOf(call.role)
               /\ s \notin call.todo => q \notin copies[s] \/ q \in unrotated
      BY <1>3, <2>1, LosesWriteFacts DEF Rotating
    <3>2. q \notin copies'[r] \/ r \notin projectRepos
      BY <1>6, <3>1
    <3>3. \A s \in projectRepos : s \notin new.todo => q \notin copies'[s] \/ q \in unrotated
      BY <1>3, <1>4, <1>6, <3>1, <3>2
    <3> QED
      BY <1>3, <1>4, <3>1, <3>3 DEF Rotating, LosesWrite
  <2> QED
    BY <1>3, <1>4, <2>1, <2>2 DEF CallOnCourse, Committed
<1>8. CallStep(c, q, new)
  <2>1. \A s \in GitRepos, p \in People :
          p \in copies'[s] => p \in copies[s] \/ CanPush(repoAccess[s][p])
    BY <1>6
  <2> QED
    BY <1>1, <1>3, <1>4, <1>5, <1>6, <2>1, MembershipFacts DEF MembersInv, CallStep
<1> QED
  BY <1>3, <1>4, <1>7, <1>8, CallKeeps

(* A repository is skipped: its credential stays, and the person is on record. *)
LEMMA RotateFailsKeeps ==
  ASSUME MembersInv, NEW c \in MemberCalls, RotateFails(c)
  PROVE  MembersInv'
<1>1. PICK call \in CallRow, q \in People :
        /\ memberCall[c] = call /\ q = call.who
        /\ call.todo \subseteq GitRepos /\ call.touched \subseteq GitRepos
        /\ q \notin disputed => CallOnCourse(call, q)
  BY AtCall DEF RotateFails
<1>2. /\ call.at = "rotate" /\ unrotated' = unrotated \cup {q} /\ Counted
      /\ UNCHANGED <<memberRole, repoAccess, projectRepos, copies, projectCall, disputed>>
      /\ memberCall \in [MemberCalls -> CallRow] /\ unrotated \subseteq People
  BY <1>1, MembershipFacts DEF RotateFails, MembersInv
<1>3. PICK r \in call.todo : memberCall' = [memberCall EXCEPT ![c].todo = @ \ {r}]
  BY <1>1 DEF RotateFails
<1>4. PICK new \in CallRow :
        /\ new = Walked(call, "rotate", call.todo \ {r}, call.touched)
        /\ new.at = "rotate" /\ new.at # "idle" /\ new.who = call.who /\ new.does = call.does
        /\ new.role = call.role /\ new.was = call.was
  <2>1. call.todo \ {r} \in SUBSET GitRepos
    BY <1>1
  <2> QED
    BY <1>1, <2>1, WalkedFacts
<1>5. memberCall' = [memberCall EXCEPT ![c] = new]
  <2>1. new = [call EXCEPT !.todo = @ \ {r}]
    BY <1>2, <1>4 DEF Walked, CallRow
  <2> QED
    BY <1>1, <1>2, <1>3, <2>1
<1>6. ASSUME q \notin disputed
      PROVE  CallOnCourse(new, q)'
  <2>1. CallOnCourse(call, q) /\ Rotating(call, q)
    BY <1>1, <1>2, <1>6 DEF CallOnCourse
  <2>2. Rotating(new, q)'
    BY <1>2, <1>4, <2>1 DEF Rotating, LosesWrite
  <2> QED
    BY <1>2, <1>4, <2>1, <2>2 DEF CallOnCourse, Committed
<1>7. CallStep(c, q, new)
  BY <1>1, <1>2, <1>4, <1>5, MembershipFacts DEF MembersInv, CallStep
<1> QED
  BY <1>2, <1>4, <1>6, <1>7, CallKeeps

(* The process dies: after the row, the credentials stay; before it, the person is disputed. *)
LEMMA RequestDeathKeeps ==
  ASSUME MembersInv, NEW c \in MemberCalls, MemberRequestDies(c)
  PROVE  MembersInv'
<1>1. CASE memberCall[c].at \in Committed
  BY <1>1, GivesUpKeeps DEF MemberRequestDies, Committed
<1>2. CASE memberCall[c].at \notin Committed
  <2>1. PICK call \in CallRow, q \in People : memberCall[c] = call /\ q = call.who
    BY AtCall DEF MemberRequestDies
  <2>2. /\ memberCall[c].at # "idle" /\ EndCall(c) /\ disputed' = disputed \cup {q} /\ Counted
        /\ UNCHANGED <<memberRole, repoAccess, projectRepos, copies, projectCall, unrotated>>
    BY <1>2, <2>1 DEF MemberRequestDies, Committed
  <2>3. PICK new \in CallRow : new.at = "idle" /\ memberCall' = [memberCall EXCEPT ![c] = new]
    BY <2>2, EndFacts
  <2>4. CallStep(c, q, new)
    BY <2>1, <2>2, <2>3, MembershipFacts DEF MembersInv, CallStep
  <2> QED
    BY <2>2, <2>4, CallKeeps
<1> QED
  BY <1>1, <1>2

(* Every credential has been replaced. *)
LEMMA RotatedKeeps ==
  ASSUME MembersInv, NEW c \in MemberCalls, Rotated(c)
  PROVE  MembersInv'
<1>1. PICK call \in CallRow, q \in People :
        /\ memberCall[c] = call /\ q = call.who
        /\ q \notin disputed => CallOnCourse(call, q)
  BY AtCall DEF Rotated
<1>2. PICK new \in CallRow : new.at = "idle" /\ memberCall' = [memberCall EXCEPT ![c] = new]
  BY EndFacts DEF Rotated
<1>3. /\ UNCHANGED <<memberRole, repoAccess, projectRepos, copies, projectCall, disputed, unrotated>>
      /\ Uncounted /\ call.at = "rotate" /\ call.todo = {}
  BY <1>1 DEF Rotated
<1>4. ASSUME q \notin disputed
      PROVE  \A r \in projectRepos : Fits(q, r, memberRole[q])'
  <2>1. Rotating(call, q) /\ memberRole[q] = call.role
    BY <1>1, <1>3, <1>4 DEF CallOnCourse, Committed
  <2> QED
    BY <1>3, <2>1 DEF Rotating, Fits
<1>5. CallStep(c, q, new)
  BY <1>1, <1>2, <1>3, MembershipFacts DEF MembersInv, CallStep
<1> QED
  BY <1>2, <1>3, <1>4, <1>5, CallKeeps

(* A request about q begins.  Unless it is disputed, nobody else works on q or on a
   project, and so every repository fits. *)
LEMMA BeginKeeps ==
  ASSUME MembersInv, NEW c \in MemberCalls, NEW q \in People,
         NEW does \in {"add", "change", "remove"}, NEW role \in MemberRoles \cup {"none"},
         StartCall(c, does, q, role),
         \/ /\ does = "add" /\ memberRole[q] = "none"
            /\ memberRole' = [memberRole EXCEPT ![q] = role]
         \/ does # "add" /\ UNCHANGED memberRole
  PROVE  MembersInv'
<1>1. PICK new : new = [does |-> does, who |-> q, role |-> role, was |-> memberRole[q],
                        at |-> "list", todo |-> {}, touched |-> {}]
  OBVIOUS
<1>2. /\ new \in CallRow /\ new.at = "list" /\ new.who = q /\ new.does = does
      /\ new.role = role /\ new.was = memberRole[q] /\ new.touched = {}
  BY <1>1, MembershipFacts DEF CallRow, MembersInv
<1>3. /\ memberCall[c].at = "idle" /\ memberCall' = [memberCall EXCEPT ![c] = new] /\ Counted
      /\ UNCHANGED <<repoAccess, projectRepos, copies, projectCall, unrotated>>
      /\ unrotated \subseteq People
      /\ disputed' = IF ProjectUnderWay \/ \E d \in MemberCalls \ {c} : About(d, q)
                     THEN disputed \cup {q} ELSE disputed
  BY <1>1, MembershipFacts DEF StartCall, MembersInv
<1>4. /\ memberRole' \in [People -> MemberRoles \cup {"none"}]
      /\ \A p \in People : p # q => memberRole'[p] = memberRole[p]
      /\ does = "add" => memberRole'[q] = role /\ new.was = "none"
      /\ does # "add" => memberRole'[q] = new.was
  BY <1>2, MembershipFacts DEF MembersInv
<1>5. ASSUME q \notin disputed'
      PROVE  /\ ~ProjectUnderWay /\ \A d \in MemberCalls : d # c => ~About(d, q)
             /\ CallOnCourse(new, q)'
  <2>1. /\ q \notin disputed /\ ~ProjectUnderWay
        /\ \A d \in MemberCalls : ~About(d, q)
    BY <1>3, <1>5 DEF About
  <2>2. \A r \in projectRepos : Fits(q, r, new.was)
    BY <1>2, <2>1 DEF MembersInv, PersonOK, FitsAtRest
  <2>3. Asked(new, q)'
    BY <1>2, <1>3, <2>2 DEF Asked, Fits
  <2> QED
    BY <1>2, <1>4, <2>1, <2>3 DEF CallOnCourse, RoleBefore, Committed
<1>6. disputed \subseteq disputed' /\ disputed' \subseteq disputed \cup {q}
  BY <1>3
<1>7. /\ repoAccess' \in [GitRepos -> [People -> Accesses]]
      /\ copies' \in [GitRepos -> SUBSET People]
      /\ \A p \in People : p # q =>
           /\ memberRole'[p] = memberRole[p]
           /\ \A r \in GitRepos :
                /\ repoAccess'[r][p] = repoAccess[r][p]
                /\ p \in copies'[r] => p \in copies[r] \/ CanPush(repoAccess[r][p])
  BY <1>3, <1>4, MembershipFacts DEF MembersInv
<1>8. /\ memberCall[c].at # "idle" => memberCall[c].who = q
      /\ new \in CallRow /\ memberCall' = [memberCall EXCEPT ![c] = new]
      /\ new.at # "idle" => new.who = q
      /\ UNCHANGED <<projectRepos, projectCall>> /\ (Counted \/ Uncounted)
  BY <1>2, <1>3
<1>9. q \notin disputed' =>
        /\ ~ProjectUnderWay /\ \A d \in MemberCalls : d # c => ~About(d, q)
        /\ new.at # "idle" => CallOnCourse(new, q)'
        /\ new.at = "idle" => \A r \in projectRepos : Fits(q, r, memberRole[q])'
  <2>1. new.at # "idle"
    BY <1>2
  <2> QED
    BY <1>5, <2>1
<1>10. unrotated \subseteq unrotated' /\ unrotated' \subseteq People
  BY <1>3
<1> QED
  BY <1>4, <1>6, <1>7, <1>8, <1>9, <1>10, CallSteps

(* Every step of a request about a member. *)
LEMMA RequestsKeep ==
  ASSUME MembersInv, NEW c \in MemberCalls,
         \/ AddMember(c) \/ ChangeRole(c) \/ RemoveMember(c) \/ ListProjects(c)
         \/ GrantNext(c) \/ GrantFails(c) \/ Added(c) \/ SaveMember(c) \/ SaveFails(c)
         \/ UndoNext(c) \/ UndoFails(c) \/ Undone(c) \/ RecordAudit(c) \/ AuditNotWritten(c)
         \/ RotateNext(c) \/ RotateFails(c) \/ Rotated(c) \/ MemberRequestDies(c)
  PROVE  MembersInv'
<1>1. OfferedRoles \subseteq MemberRoles
  BY MembershipAssumption DEF MemberRoles
<1>2. CASE AddMember(c)
  BY <1>1, <1>2, BeginKeeps DEF AddMember
<1>3. CASE ChangeRole(c)
  BY <1>1, <1>3, BeginKeeps DEF ChangeRole
<1>4. CASE RemoveMember(c)
  BY <1>4, BeginKeeps DEF RemoveMember
<1>5. CASE AuditNotWritten(c)
  BY <1>5, GivesUpKeeps DEF AuditNotWritten, Committed
<1> QED
  BY <1>2, <1>3, <1>4, <1>5, ListKeeps, GrantKeeps, GrantFailsKeeps, SavedKeeps, SaveFailsKeeps,
     UndoKeeps, UndoFailsKeeps, UndoneKeeps, AuditKeeps, RotateKeeps, RotateFailsKeeps,
     RotatedKeeps, RequestDeathKeeps

(* While a project is on its way, an undisputed person has no request. *)
LEMMA UnderWayFacts ==
  ASSUME MembersInv, ProjectUnderWay
  PROVE  \A p \in People \ disputed :
           /\ \A c \in MemberCalls : ~About(c, p)
           /\ NewRepoFits(p)
           /\ \A r \in projectRepos : r = projectCall.repo \/ Fits(p, r, memberRole[p])
  BY DEF MembersInv, PersonOK, Alone, FitsAtRest

(* A step of a project serves the people who are undisputed after it. *)
LEMMA ProjectKeeps ==
  ASSUME MembersInv, UNCHANGED <<memberRole, memberCall>>, Counted \/ Uncounted,
         repoAccess' \in [GitRepos -> [People -> Accesses]],
         copies' \in [GitRepos -> SUBSET People],
         projectRepos' \subseteq GitRepos, projectCall' \in ProjectRow,
         disputed' \subseteq People, UNCHANGED unrotated, ProjectForm',
         \A p \in People \ disputed' :
             /\ \A c \in MemberCalls : ~About(c, p)
             /\ NewRepoFits(p)'
             /\ \A r \in projectRepos' :
                  (ProjectUnderWay' /\ r = projectCall'.repo) \/ Fits(p, r, memberRole[p])'
  PROVE  MembersInv'
<1>1. MembershipTypeOK'
  BY MembershipFacts, MemberCounted DEF MembersInv, MembershipTypeOK, CallRow, ProjectRow
<1>2. ASSUME NEW p \in People \ disputed'
      PROVE  PersonOK(p)'
  <2>1. \A c \in MemberCalls : ~About(c, p)'
    BY <1>2 DEF About
  <2>2. Alone(p)' /\ CallsOnCourse(p)'
    BY <2>1 DEF Alone, CallsOnCourse
  <2>3. FitsAtRest(p)'
    BY <1>2 DEF FitsAtRest
  <2> QED
    BY <1>2, <2>2, <2>3 DEF PersonOK
<1> QED
  BY <1>1, <1>2 DEF MembersInv

(* A project is begun in a repository that grants nobody anything. *)
LEMMA StartProjectKeeps ==
  ASSUME MembersInv, StartProject
  PROVE  MembersInv'
<1>1. PICK does \in {"create", "import"}, r \in GitRepos \ projectRepos :
        /\ \A p \in People : repoAccess[r][p] = "none"
        /\ projectCall' = [NoProjectCall EXCEPT
               !.does = does, !.repo = r, !.at = IF does = "create" THEN "read" ELSE "row"]
        /\ copies' = [copies EXCEPT ![r] = {}]
  BY DEF StartProject
<1>2. /\ UNCHANGED <<memberRole, repoAccess, projectRepos, memberCall, unrotated>> /\ Counted
      /\ disputed' = disputed \cup {p \in People : \E c \in MemberCalls : About(c, p)}
      /\ ~ProjectUnderWay
  BY DEF StartProject
<1>3. /\ projectCall' \in ProjectRow /\ projectCall'.does = does /\ projectCall'.repo = r
      /\ projectCall'.at = IF does = "create" THEN "read" ELSE "row"
  BY <1>1, NobodyFacts DEF ProjectRow
<1>4. /\ copies' \in [GitRepos -> SUBSET People] /\ copies'[r] = {}
      /\ \A s \in GitRepos : s # r => copies'[s] = copies[s]
      /\ projectRepos \subseteq GitRepos /\ disputed \subseteq People
  BY <1>1, MembershipFacts DEF MembersInv
<1>5. ProjectForm'
  BY <1>1, <1>2, <1>3 DEF ProjectForm, ProjectUnderWay
<1>6. ASSUME NEW p \in People \ disputed'
      PROVE  /\ \A c \in MemberCalls : ~About(c, p)
             /\ NewRepoFits(p)'
             /\ \A s \in projectRepos' : Fits(p, s, memberRole[p])'
  <2>1. p \in People \ disputed /\ \A c \in MemberCalls : ~About(c, p)
    BY <1>2, <1>6
  <2>2. \A s \in projectRepos : Fits(p, s, memberRole[p])
    BY <1>2, <2>1 DEF MembersInv, PersonOK, FitsAtRest
  <2>3. \A s \in projectRepos' : Fits(p, s, memberRole[p])'
    BY <1>1, <1>2, <1>4, <2>2 DEF Fits
  <2>4. repoAccess'[r][p] = AccessOf("none") /\ p \notin copies'[r]
    BY <1>1, <1>2, <1>4, <1>6, AccessFacts
  <2>5. NewRepoFits(p)'
    BY <1>3, <2>4 DEF NewRepoFits, Fits
  <2> QED
    BY <2>1, <2>3, <2>5
<1> QED
  BY <1>2, <1>3, <1>4, <1>5, <1>6, MembershipFacts, ProjectKeeps DEF MembersInv

(* The members are read: whoever has no role has nothing to be granted. *)
LEMMA ReadMembersKeeps ==
  ASSUME MembersInv, ReadMembers
  PROVE  MembersInv'
<1>1. /\ UNCHANGED <<memberRole, repoAccess, projectRepos, copies, memberCall, disputed, unrotated>>
      /\ Uncounted /\ projectCall.at = "read" /\ ProjectUnderWay
      /\ projectCall' = [projectCall EXCEPT
             !.at = "grant", !.seen = memberRole,
             !.todo = {p \in People : memberRole[p] # "none"}]
  BY DEF ReadMembers, ProjectUnderWay
<1>2. projectCall \in ProjectRow /\ memberRole \in [People -> MemberRoles \cup {"none"}]
  BY MembershipFacts DEF MembersInv
<1>3. /\ projectCall' \in ProjectRow /\ projectCall'.at = "grant"
      /\ projectCall'.seen = memberRole
      /\ projectCall'.todo = {p \in People : memberRole[p] # "none"}
      /\ projectCall'.repo = projectCall.repo /\ projectCall'.does = projectCall.does
  <2>1. {p \in People : memberRole[p] # "none"} \in SUBSET People
    OBVIOUS
  <2> QED
    BY <1>1, <1>2, <2>1 DEF ProjectRow
<1>4. ProjectForm'
  BY <1>1, <1>3 DEF MembersInv, ProjectForm, ProjectUnderWay
<1>5. ASSUME NEW p \in People \ disputed'
      PROVE  /\ \A c \in MemberCalls : ~About(c, p)
             /\ NewRepoFits(p)'
             /\ \A r \in projectRepos' : r = projectCall'.repo \/ Fits(p, r, memberRole[p])'
  <2>1. /\ p \in People \ disputed /\ \A c \in MemberCalls : ~About(c, p)
        /\ \A r \in projectRepos : r = projectCall.repo \/ Fits(p, r, memberRole[p])
        /\ Fits(p, projectCall.repo, "none")
    BY <1>1, <1>5, UnderWayFacts DEF NewRepoFits
  <2>2. NewRepoFits(p)'
    BY <1>1, <1>3, <2>1 DEF NewRepoFits, Fits
  <2> QED
    BY <1>1, <1>3, <2>1, <2>2 DEF Fits
<1>6. ProjectUnderWay'
  BY <1>3 DEF ProjectUnderWay
<1> QED
  BY <1>1, <1>3, <1>4, <1>5, <1>6, MembershipFacts, ProjectKeeps DEF MembersInv

(* A member of the new project is granted what the role is worth. *)
LEMMA GrantMemberKeeps ==
  ASSUME MembersInv, GrantMember
  PROVE  MembersInv'
<1>1. PICK q \in projectCall.todo :
        /\ Grants(projectCall.repo, q, AccessOf(projectCall.seen[q]))
        /\ projectCall' = [projectCall EXCEPT !.todo = @ \ {q}]
  BY DEF GrantMember
<1>2. /\ UNCHANGED <<memberRole, projectRepos, memberCall, disputed, unrotated>>
      /\ Uncounted /\ projectCall.at = "grant" /\ ProjectUnderWay
      /\ MembershipTypeOK /\ projectCall \in ProjectRow
  BY MembershipFacts DEF GrantMember, ProjectUnderWay, MembersInv
<1>3. /\ projectCall.repo \in GitRepos /\ q \in People
      /\ projectCall.seen[q] \in MemberRoles \cup {"none"}
      /\ AccessOf(projectCall.seen[q]) \in Accesses
  <2>1. projectCall.repo \in GitRepos /\ q \in People
        /\ projectCall.seen \in [People -> MemberRoles \cup {"none"}]
    BY <1>1, <1>2 DEF ProjectRow
  <2> QED
    BY <2>1, AccessFacts
<1>4. /\ projectCall' \in ProjectRow /\ projectCall'.at = "grant"
      /\ projectCall'.seen = projectCall.seen /\ projectCall'.todo = projectCall.todo \ {q}
      /\ projectCall'.repo = projectCall.repo /\ projectCall'.does = projectCall.does
  BY <1>1, <1>2 DEF ProjectRow
<1>5. PICK r \in GitRepos : r = projectCall.repo
  BY <1>3
<1>6. /\ repoAccess' \in [GitRepos -> [People -> Accesses]]
      /\ copies' \in [GitRepos -> SUBSET People]
      /\ repoAccess'[r][q] = AccessOf(projectCall.seen[q])
      /\ q \in copies'[r] => q \in copies[r] \/ CanPush(AccessOf(projectCall.seen[q]))
      /\ \A s \in GitRepos, p \in People : s # r \/ p # q =>
           /\ repoAccess'[s][p] = repoAccess[s][p]
           /\ p \in copies'[s] <=> p \in copies[s]
  BY <1>1, <1>2, <1>3, <1>5, GrantsFacts
<1>7. ProjectForm'
  BY <1>2, <1>4 DEF MembersInv, ProjectForm, ProjectUnderWay
<1>8. ASSUME NEW p \in People \ disputed'
      PROVE  /\ \A c \in MemberCalls : ~About(c, p)
             /\ NewRepoFits(p)'
             /\ \A s \in projectRepos' : s = projectCall'.repo \/ Fits(p, s, memberRole[p])'
  <2>1. /\ p \in People \ disputed /\ \A c \in MemberCalls : ~About(c, p)
        /\ \A s \in projectRepos : s = r \/ Fits(p, s, memberRole[p])
        /\ projectCall.seen[p] = memberRole[p]
        /\ p \in projectCall.todo => Fits(p, r, "none")
        /\ p \notin projectCall.todo => Fits(p, r, memberRole[p])
    BY <1>2, <1>5, <1>8, UnderWayFacts DEF NewRepoFits
  <2>2. projectRepos \subseteq GitRepos
    BY <1>2, MembershipFacts
  <2>3. \A s \in projectRepos' : s = projectCall'.repo \/ Fits(p, s, memberRole[p])'
    BY <1>2, <1>4, <1>5, <1>6, <2>1, <2>2 DEF Fits
  <2>4. IF p \in projectCall'.todo THEN Fits(p, r, "none")' ELSE Fits(p, r, memberRole[p])'
    <3>1. CASE p = q
      <4>1. /\ p \notin projectCall'.todo
            /\ p \in copies[r] => p \in unrotated
        <5>1. Fits(p, r, "none") /\ p \notin projectCall'.todo
          BY <1>1, <1>4, <2>1, <3>1
        <5>2. ~CanPush(repoAccess[r][p])
          BY <5>1, AccessFacts DEF Fits
        <5> QED
          BY <5>1, <5>2 DEF Fits
      <4>2. /\ repoAccess'[r][p] = AccessOf(memberRole'[p])
            /\ p \in copies'[r] => CanPush(AccessOf(memberRole'[p])) \/ p \in unrotated
        BY <1>2, <1>6, <2>1, <3>1, <4>1
      <4> QED
        BY <1>2, <4>1, <4>2 DEF Fits
    <3>2. CASE p # q
      <4>1. /\ p \in projectCall'.todo <=> p \in projectCall.todo
            /\ repoAccess'[r][p] = repoAccess[r][p]
            /\ p \in copies'[r] => p \in copies[r]
        BY <1>4, <1>6, <3>2
      <4> QED
        BY <1>2, <2>1, <4>1 DEF Fits
    <3> QED
      BY <3>1, <3>2
  <2>5. NewRepoFits(p)'
    BY <1>2, <1>4, <1>5, <2>1, <2>4 DEF NewRepoFits
  <2> QED
    BY <2>1, <2>3, <2>5
<1>9. ProjectUnderWay'
  BY <1>4 DEF ProjectUnderWay
<1> QED
  BY <1>2, <1>4, <1>6, <1>7, <1>8, <1>9, MembershipFacts, ProjectKeeps DEF MembersInv

(* The project ends or takes up its undo, before or after its row: its repository fits or
   does not count yet. *)
LEMMA ProjectEndsKeeps ==
  ASSUME MembersInv, ProjectFails \/ WriteProject \/ FinishImport
  PROVE  MembersInv'
<1>1. /\ UNCHANGED <<memberRole, repoAccess, copies, memberCall, disputed, unrotated>>
      /\ (Counted \/ Uncounted) /\ ProjectUnderWay
      /\ projectCall \in ProjectRow /\ projectRepos \subseteq GitRepos
      /\ projectCall.repo \in GitRepos
  BY MembershipFacts
     DEF ProjectFails, WriteProject, FinishImport, ProjectUnderWay, MembersInv, ProjectRow
<1>2. ASSUME NEW p \in People \ disputed
      PROVE  /\ \A c \in MemberCalls : ~About(c, p)
             /\ NewRepoFits(p)
             /\ \A r \in projectRepos : r = projectCall.repo \/ Fits(p, r, memberRole[p])
  BY <1>1, <1>2, UnderWayFacts
<1>3. \A p, r, role : Fits(p, r, role) => Fits(p, r, role)'
  BY <1>1 DEF Fits
<1>4. PICK r \in GitRepos : r = projectCall.repo
  BY <1>1
<1>5. CASE \/ projectCall' = NoProjectCall
              /\ r \notin projectRepos /\ projectRepos' = projectRepos
           \/ projectCall' = NoProjectCall
              /\ projectCall.at = "grant" /\ projectCall.todo = {}
              /\ projectRepos' \in {projectRepos, projectRepos \cup {r}}
  <2>1. projectCall' \in ProjectRow /\ ~ProjectUnderWay' /\ projectRepos' \subseteq GitRepos
    BY <1>1, <1>5, NobodyFacts DEF ProjectUnderWay
  <2>2. ProjectForm'
    BY <1>5, NobodyFacts DEF ProjectForm, ProjectUnderWay, NoProjectCall
  <2>3. ASSUME NEW p \in People \ disputed
        PROVE  NewRepoFits(p)' /\ \A s \in projectRepos' : Fits(p, s, memberRole[p])'
    <3>1. NewRepoFits(p)'
      BY <1>5, NobodyFacts DEF NewRepoFits
    <3>2. projectCall.at = "grant" /\ projectCall.todo = {} => Fits(p, r, memberRole[p])
      BY <1>2, <1>4, <2>3 DEF NewRepoFits
    <3>3. \A s \in projectRepos' : Fits(p, s, memberRole[p])
      BY <1>2, <1>4, <1>5, <2>3, <3>2
    <3>4. \A s \in projectRepos' : Fits(p, s, memberRole[p])'
      BY <1>1, <3>3 DEF Fits
    <3> QED
      BY <3>1, <3>4
  <2> QED
    BY <1>1, <1>2, <2>1, <2>2, <2>3, MembershipFacts, ProjectKeeps DEF MembersInv
<1>6. CASE \/ /\ projectCall.at = "grant" /\ projectRepos' = projectRepos
              /\ projectCall' = [projectCall EXCEPT !.at = "undo"]
           \/ /\ projectCall.at = "row" /\ projectRepos' = projectRepos \cup {r}
              /\ projectCall' = [projectCall EXCEPT !.at = "read"]
              /\ projectCall.does = "import"
  <2>1. /\ projectCall' \in ProjectRow /\ ProjectUnderWay' /\ projectRepos' \subseteq GitRepos
        /\ projectCall'.repo = r /\ projectCall'.does = projectCall.does
        /\ \/ projectCall'.at = "undo" /\ projectRepos' = projectRepos
           \/ projectCall'.at = "read" /\ projectCall.at = "row" /\ projectCall.does = "import"
    BY <1>1, <1>4, <1>6 DEF ProjectRow, ProjectUnderWay
  <2>2. ProjectForm'
    BY <1>1, <1>4, <2>1 DEF MembersInv, ProjectForm, ProjectUnderWay
  <2>3. ASSUME NEW p \in People \ disputed
        PROVE  /\ NewRepoFits(p)'
               /\ \A s \in projectRepos' : s = projectCall'.repo \/ Fits(p, s, memberRole[p])'
    <3>1. projectCall.at = "row" => Fits(p, r, "none")
      BY <1>2, <1>4, <2>3 DEF NewRepoFits
    <3>2. NewRepoFits(p)'
      BY <1>1, <2>1, <3>1 DEF NewRepoFits, Fits
    <3>3. \A s \in projectRepos' : s = r \/ Fits(p, s, memberRole[p])
      BY <1>2, <1>4, <1>6, <2>3
    <3> QED
      BY <1>1, <2>1, <3>2, <3>3 DEF Fits
  <2> QED
    BY <1>1, <1>2, <2>1, <2>2, <2>3, MembershipFacts, ProjectKeeps DEF MembersInv
<1>7. CASE ProjectFails
  BY <1>1, <1>4, <1>5, <1>6, <1>7 DEF ProjectFails, MembersInv, ProjectForm
<1>8. CASE WriteProject
  <2>1. projectCall.does = "create" => projectCall.at = "grant" /\ projectCall.todo = {}
    BY <1>8 DEF WriteProject
  <2> QED
    BY <1>4, <1>5, <1>6, <1>8, <2>1 DEF WriteProject
<1>9. CASE FinishImport
  BY <1>5, <1>9 DEF FinishImport
<1> QED
  BY <1>7, <1>8, <1>9

(* The undo of a project takes its repository out, or leaves a repository that belongs to
   no project, or disputes everybody. *)
LEMMA UndoProjectKeeps ==
  ASSUME MembersInv, UndoNewProject
  PROVE  MembersInv'
<1>1. PICK r \in GitRepos : r = projectCall.repo
  BY MembershipFacts DEF MembersInv, ProjectRow
<1>2. /\ UNCHANGED <<memberRole, copies, memberCall, unrotated>> /\ (Counted \/ Uncounted)
      /\ projectCall.at = "undo" /\ ProjectUnderWay /\ projectCall' = NoProjectCall
      /\ \/ /\ repoAccess' = [repoAccess EXCEPT ![r] = [p \in People |-> "none"]]
            /\ projectRepos' = projectRepos \ {r} /\ UNCHANGED disputed
         \/ /\ UNCHANGED <<repoAccess, projectRepos>>
            /\ disputed' = IF projectCall.does = "import" THEN People ELSE disputed
  BY <1>1 DEF UndoNewProject, ProjectUnderWay
<1>3. /\ repoAccess' \in [GitRepos -> [People -> Accesses]]
      /\ \A s \in GitRepos : s # r => repoAccess'[s] = repoAccess[s]
      /\ projectRepos' \subseteq projectRepos /\ projectRepos \subseteq GitRepos
      /\ disputed \subseteq disputed' /\ disputed' \subseteq People
  <2>1. [p \in People |-> "none"] \in [People -> Accesses]
    BY DEF Accesses
  <2> QED
    BY <1>2, <2>1, MembershipFacts DEF MembersInv
<1>4. projectCall' \in ProjectRow /\ ~ProjectUnderWay' /\ ProjectForm'
  BY <1>2, NobodyFacts DEF ProjectUnderWay, ProjectForm, NoProjectCall
<1>5. r \notin projectRepos' \/ disputed' = People
  <2>1. projectCall.does \in {"create", "import"}
    BY <1>2, MembershipFacts DEF MembersInv, ProjectForm, ProjectRow
  <2>2. projectCall.does = "create" => r \notin projectRepos
    BY <1>1 DEF MembersInv, ProjectForm
  <2> QED
    BY <1>2, <2>1, <2>2
<1>6. ASSUME NEW p \in People \ disputed'
      PROVE  /\ \A c \in MemberCalls : ~About(c, p)
             /\ NewRepoFits(p)'
             /\ \A s \in projectRepos' : Fits(p, s, memberRole[p])'
  <2>1. /\ \A c \in MemberCalls : ~About(c, p)
        /\ \A s \in projectRepos : s = r \/ Fits(p, s, memberRole[p])
    BY <1>1, <1>2, <1>3, <1>6, UnderWayFacts
  <2>2. NewRepoFits(p)'
    BY <1>2, NobodyFacts DEF NewRepoFits
  <2>3. \A s \in projectRepos' : Fits(p, s, memberRole[p])'
    BY <1>2, <1>3, <1>5, <1>6, <2>1 DEF Fits
  <2> QED
    BY <2>1, <2>2, <2>3
<1> QED
  BY <1>2, <1>3, <1>4, <1>6, MembershipFacts, ProjectKeeps DEF MembersInv

(* At first nobody has a request, and every repository fits. *)
LEMMA MembersInit ==
  ASSUME MembershipInit
  PROVE  MembersInv
<1>1. PICK role \in {"none", "member"} :
        /\ memberRole = [p \in People |-> role]
        /\ repoAccess = [r \in GitRepos |-> [p \in People |->
                            IF r \in FirstProjects THEN AccessOf(role) ELSE "none"]]
  BY DEF MembershipInit
<1>2. /\ projectRepos = FirstProjects /\ projectRepos \subseteq GitRepos
      /\ copies = [r \in GitRepos |-> Pushers(r)]
      /\ memberCall = [c \in MemberCalls |-> NoMemberCall] /\ projectCall = NoProjectCall
      /\ memberEvents = 0 /\ disputed = {} /\ unrotated = {}
  BY MembershipAssumption DEF MembershipInit
<1>3. /\ memberRole \in [People -> MemberRoles \cup {"none"}]
      /\ repoAccess \in [GitRepos -> [People -> Accesses]]
      /\ copies \in [GitRepos -> SUBSET People]
  <2>1. role \in MemberRoles \cup {"none"} /\ AccessOf(role) \in Accesses /\ "none" \in Accesses
    BY AccessFacts DEF MemberRoles, Accesses
  <2>2. \A r \in GitRepos : Pushers(r) \in SUBSET People
    BY DEF Pushers
  <2> QED
    BY <1>1, <1>2, <2>1, <2>2
<1>4. memberCall \in [MemberCalls -> CallRow] /\ \A c \in MemberCalls : memberCall[c].at = "idle"
  BY <1>2, NobodyFacts
<1>5. projectCall \in ProjectRow /\ projectCall.at = "idle" /\ ~ProjectUnderWay
  BY <1>2, NobodyFacts DEF ProjectUnderWay
<1>6. MembershipTypeOK
  BY <1>2, <1>3, <1>4, <1>5, MembershipAssumption DEF MembershipTypeOK, CallRow, ProjectRow
<1>7. ProjectForm
  BY <1>2, <1>5 DEF ProjectForm, NoProjectCall
<1>8. ASSUME NEW p \in People
      PROVE  PersonOK(p)
  <2>1. \A c \in MemberCalls : ~About(c, p)
    BY <1>4 DEF About
  <2>2. \A r \in projectRepos : Fits(p, r, memberRole[p])
    BY <1>1, <1>2, <1>8 DEF Fits, Pushers
  <2> QED
    BY <1>5, <2>1, <2>2 DEF PersonOK, Alone, CallsOnCourse, FitsAtRest, NewRepoFits
<1> QED
  BY <1>6, <1>7, <1>8 DEF MembersInv

(* Steps that change nothing. *)
LEMMA MembersStutter ==
  ASSUME MembersInv, UNCHANGED membershipVars
  PROVE  MembersInv'
<1>1. MembershipTypeOK' /\ ProjectForm' /\ disputed' = disputed
  BY DEF MembersInv, MembershipTypeOK, ProjectForm, ProjectUnderWay, membershipVars
<1>2. ASSUME NEW p \in People \ disputed
      PROVE  PersonOK(p)'
  <2>1. LeavesAlone(p)
    BY DEF LeavesAlone, About, membershipVars
  <2> QED
    BY <1>2, <2>1, LeftAlone DEF MembersInv
<1> QED
  BY <1>1, <1>2 DEF MembersInv

(* The invariant of the requests about members: while a request about an undisputed person
   lasts, every repository is on one side of its walk, and otherwise all of them fit. *)
THEOREM MembersInvariant == MembershipSpec => []MembersInv
<1>1. MembershipInit => MembersInv
  BY MembersInit
<1>2. MembersInv /\ [MembershipNext]_membershipVars => MembersInv'
  BY MembersStutter, RequestsKeep, StartProjectKeeps, ReadMembersKeeps, GrantMemberKeeps,
     ProjectEndsKeeps, UndoProjectKeeps DEF MembershipNext
<1> QED
  BY <1>1, <1>2, PTL DEF MembershipSpec

(* attachMember(), updateMember() and removeMember() keep what they promise: outside the
   accidents the property names, the repositories grant a person what the role is worth,
   and nobody who may not push knows a registry credential in use. *)
THEOREM AccessFollows == MembershipSpec => []AccessFollowsMembership
<1>1. MembersInv => AccessFollowsMembership
  BY DEF MembersInv, PersonOK, FitsAtRest, Fits, AccessFollowsMembership, Settled
<1> QED
  BY <1>1, MembersInvariant, PTL

-----------------------------------------------------------------------------
(* AgentCredentials *)

AgentPcs == {"down", "idle", "waits", "fallback", "rotates", "confirms"}
File == [cred: Nat, prev: Nat]
AgentRow == [active: Nat, pending: Nat, stale: BOOLEAN, token: Nat, disabled: BOOLEAN]
Heartbeat == [pc: {"free", "sent", "accept", "issue", "answered", "refused"}, cred: Nat,
              slot: {"none", "pending", "active"}, gift: Nat]

CredTypeOK ==
    /\ identity \in AgentRow
    /\ made \in [credentials: Nat, tokens: Nat]
    /\ beat \in [Beats -> Heartbeat]
    /\ onDisk \in File /\ inMemory \in File
    /\ agentPc \in AgentPcs
    /\ awaited \in Beats \cup {0}
    /\ enroller \in [pc: {"none", "read", "redeemed", "lost"}, token: Nat, cred: Nat]
    /\ lastSeen \in Nat
    /\ revoked \subseteq Nat
    /\ upsets \in Nat

\* Nobody knows a credential before it is made: the next one is new to everyone.
NextIsNew ==
    /\ identity.active =< made.credentials /\ identity.pending =< made.credentials
    /\ \A b \in Beats : beat[b].cred =< made.credentials /\ beat[b].gift =< made.credentials
    /\ onDisk.cred =< made.credentials /\ onDisk.prev =< made.credentials
    /\ inMemory.cred =< made.credentials /\ inMemory.prev =< made.credentials
    /\ \A c \in revoked : c =< made.credentials

\* What was revoked is in neither slot.
RowSound ==
    /\ identity.disabled => identity.active = 0
    /\ identity.active = 0 => identity.pending = 0
    /\ identity.pending # 0 => identity.pending # identity.active
    /\ revoked \cap Taken(identity) = {}

\* A heartbeat carries a credential, and is accepted in the slot that was found.
BeatsSound ==
    \A b \in Beats :
        /\ beat[b].pc # "free" => beat[b].cred # 0
        /\ beat[b].pc = "accept" => beat[b].slot # "none"

\* A running Agent has in memory what is in its file, and no enroll command beside it.
FileSound ==
    /\ onDisk.cred # 0
    /\ agentPc # "down" => inMemory = onDisk /\ enroller.pc \in {"none", "lost"}

\* The heartbeat the Agent waits for is the one it sent, with the credential it sent.
AwaitedSound ==
    /\ awaited = 0 <=> agentPc \in {"down", "idle"}
    /\ awaited # 0 =>
         /\ beat[awaited].pc # "free"
         /\ beat[awaited].cred = IF agentPc = "fallback" THEN inMemory.prev ELSE inMemory.cred
         /\ agentPc = "fallback" => inMemory.prev # 0
         /\ agentPc = "rotates" => beat[awaited].pc = "answered" /\ beat[awaited].gift # 0

\* A refused heartbeat, and one that was found in the active slot, cannot
\* become that of the pending credential; the Agent falls back for that reason.
RefusedSound ==
    /\ agentPc = "fallback" => inMemory.cred # identity.pending
    /\ \A b \in Beats :
         beat[b].pc = "refused" \/ (beat[b].pc = "accept" /\ beat[b].slot = "active")
             => beat[b].cred # identity.pending

Enrolled == enroller.cred = 0

\* Only the credential that is first in the file can still confirm a rotation.
PendingSound ==
    (identity.pending # 0 /\ Enrolled) =>
        /\ onDisk.prev # identity.pending
        /\ \A b \in Beats : (beat[b].pc \in {"sent", "accept"} /\ beat[b].cred = identity.pending)
                                => onDisk.cred = identity.pending

\* An answer speaks of the active credential.
AnswerSound ==
    (identity.active # 0 /\ Enrolled /\ awaited # 0 /\ beat[awaited].pc \in {"issue", "answered"})
        => beat[awaited].cred = identity.active

ActiveInFile ==
    (identity.active # 0 /\ Enrolled) => identity.active \in {onDisk.cred, onDisk.prev}

\* Only the enroll command knows the credential it has just received.
EnrollerSound ==
    enroller.pc = "redeemed" =>
        /\ enroller.cred # 0
        /\ enroller.cred =< made.credentials
        /\ identity.active \in {0, enroller.cred}
        /\ identity.pending = 0
        /\ \A b \in Beats : beat[b].cred # enroller.cred

CredInv ==
    /\ CredTypeOK /\ NextIsNew /\ RowSound /\ BeatsSound /\ FileSound /\ AwaitedSound
    /\ RefusedSound /\ PendingSound /\ AnswerSound /\ ActiveInFile /\ EnrollerSound

-----------------------------------------------------------------------------
(* The heartbeats after a step *)

\* Only heartbeat b changes, and it becomes new.
OneBeat(b, new) ==
    /\ beat' \in [Beats -> Heartbeat]
    /\ beat'[b] = new
    /\ \A x \in Beats : x # b => beat'[x] = beat[x]

(* What writing one heartbeat does to the others: nothing. *)
LEMMA WriteBeat ==
  ASSUME CredTypeOK, NEW b \in Beats, NEW new \in Heartbeat, beat' = [beat EXCEPT ![b] = new]
  PROVE  OneBeat(b, new)
  BY DEF CredTypeOK, OneBeat

(* BeatAt() moves a heartbeat and keeps its credential, its slot and its gift. *)
LEMMA MovedBeat ==
  ASSUME CredTypeOK, NEW b \in Beats,
         NEW pc \in {"free", "sent", "accept", "issue", "answered", "refused"}, BeatAt(b, pc)
  PROVE  \E new \in Heartbeat :
           /\ OneBeat(b, new)
           /\ new.pc = pc /\ new.cred = beat[b].cred
           /\ new.slot = beat[b].slot /\ new.gift = beat[b].gift
<1> DEFINE new == [beat[b] EXCEPT !.pc = pc]
<1>1. beat[b] \in Heartbeat
  BY DEF CredTypeOK
<1>2. /\ new \in Heartbeat
      /\ new.pc = pc /\ new.cred = beat[b].cred
      /\ new.slot = beat[b].slot /\ new.gift = beat[b].gift
  BY <1>1 DEF Heartbeat
<1>3. beat' = [beat EXCEPT ![b] = new]
  BY DEF BeatAt
<1> HIDE DEF new
<1> QED
  BY <1>2, <1>3, WriteBeat

(* Send() puts a credential in a heartbeat that was free, and awaits it. *)
LEMMA SentBeat ==
  ASSUME CredTypeOK, NEW c \in Nat, NEW pc, Send(c, pc)
  PROVE  \E b \in Beats, new \in Heartbeat :
           /\ beat[b].pc = "free" /\ awaited' = b /\ agentPc' = pc
           /\ OneBeat(b, new)
           /\ new.pc = "sent" /\ new.cred = c /\ new.gift = 0
<1> DEFINE new == [NoBeat EXCEPT !.pc = "sent", !.cred = c]
<1>1. new \in Heartbeat /\ new.pc = "sent" /\ new.cred = c /\ new.gift = 0
  BY DEF Heartbeat, NoBeat
<1>2. PICK b \in Beats : /\ beat[b].pc = "free"
                         /\ beat' = [beat EXCEPT ![b] = new]
                         /\ awaited' = b
  BY DEF Send
<1>3. agentPc' = pc
  BY DEF Send
<1> HIDE DEF new
<1>4. OneBeat(b, new)
  BY <1>1, <1>2, WriteBeat
<1> QED
  BY <1>1, <1>2, <1>3, <1>4

-----------------------------------------------------------------------------
(* The steps of the control plane *)

(* authenticateCredential(): a refused credential is not the pending one, and *)
(* one that was found is of the slot it was found in.                         *)
LEMMA AuthenticateKeeps ==
  ASSUME CredInv, NEW b \in Beats, AuthenticateBeat(b)
  PROVE  CredInv'
<1>0. CredTypeOK /\ beat[b] \in Heartbeat
  BY DEF CredInv, CredTypeOK
<1>1. PICK new \in Heartbeat :
        /\ OneBeat(b, new)
        /\ new.cred = beat[b].cred /\ new.gift = beat[b].gift
        /\ \/ /\ new.pc = "refused"
              /\ identity.disabled \/ new.cred \notin Taken(identity)
           \/ /\ new.pc = "accept" /\ new.cred \in Taken(identity)
              /\ new.slot = IF new.cred = identity.pending THEN "pending" ELSE "active"
  <2>1. CASE identity.disabled \/ beat[b].cred \notin Taken(identity)
    <3>1. BeatAt(b, "refused")
      BY <2>1, Zenon DEF AuthenticateBeat
    <3> QED
      BY <1>0, <2>1, <3>1, MovedBeat
  <2>2. CASE ~identity.disabled /\ beat[b].cred \in Taken(identity)
    <3> DEFINE slot == IF beat[b].cred = identity.pending THEN "pending" ELSE "active"
               new == [beat[b] EXCEPT !.pc = "accept", !.slot = slot]
    <3>1. beat' = [beat EXCEPT ![b] = new]
      BY <2>2 DEF AuthenticateBeat
    <3>2. /\ new \in Heartbeat /\ new.cred = beat[b].cred /\ new.gift = beat[b].gift
          /\ new.pc = "accept" /\ new.slot = slot
      BY <1>0 DEF Heartbeat
    <3> HIDE DEF new
    <3>3. OneBeat(b, new)
      BY <1>0, <3>1, <3>2, WriteBeat
    <3> QED
      BY <2>2, <3>2, <3>3
  <2> QED
    BY <2>1, <2>2, Zenon
<1>2. /\ UNCHANGED <<identity, made, onDisk, inMemory, agentPc, awaited, enroller,
                      lastSeen, revoked, upsets>>
      /\ beat[b].pc = "sent"
  BY DEF AuthenticateBeat
<1>3. CredTypeOK'
  BY <1>0, <1>1, <1>2 DEF CredTypeOK, OneBeat
<1>4. NextIsNew' /\ RowSound' /\ FileSound' /\ ActiveInFile'
  BY <1>1, <1>2 DEF CredInv, NextIsNew, RowSound, FileSound, ActiveInFile, Enrolled, OneBeat
<1>5. BeatsSound'
  BY <1>1, <1>2 DEF CredInv, BeatsSound, OneBeat
<1>6. AwaitedSound'
  BY <1>0, <1>1, <1>2 DEF CredInv, CredTypeOK, AwaitedSound, OneBeat
<1>7. RefusedSound'
  <2>1. new.pc = "refused" => new.cred # identity.pending
    BY <1>0, <1>1, <1>2 DEF CredInv, BeatsSound, RowSound, Taken
  <2> QED
    BY <1>1, <1>2, <2>1 DEF CredInv, RefusedSound, OneBeat
<1>8. PendingSound'
  BY <1>1, <1>2 DEF CredInv, PendingSound, Enrolled, OneBeat
<1>9. AnswerSound'
  BY <1>0, <1>1, <1>2 DEF CredInv, CredTypeOK, AnswerSound, Enrolled, OneBeat
<1>10. EnrollerSound'
  BY <1>1, <1>2 DEF CredInv, EnrollerSound, OneBeat
<1> QED
  BY <1>3, <1>4, <1>5, <1>6, <1>7, <1>8, <1>9, <1>10 DEF CredInv

(* The write of heartbeat(): the credential it accepts is in the row, and if   *)
(* it was the pending one, it is the first of the Agent's file.                *)
LEMMA AcceptKeeps ==
  ASSUME CredInv, NEW b \in Beats, AcceptBeat(b)
  PROVE  CredInv'
<1>0. CredTypeOK /\ beat[b] \in Heartbeat
  BY DEF CredInv, CredTypeOK
<1>1. /\ UNCHANGED <<made, onDisk, inMemory, agentPc, awaited, enroller, revoked, upsets>>
      /\ beat[b].pc = "accept" /\ beat[b].cred # 0
  BY DEF AcceptBeat, CredInv, BeatsSound
<1>2. CASE ~Acceptable(b)
  <2>1. BeatAt(b, "refused") /\ UNCHANGED <<identity, lastSeen>>
    BY <1>2, Zenon DEF AcceptBeat
  <2>2. PICK new \in Heartbeat : /\ OneBeat(b, new) /\ new.pc = "refused"
                                 /\ new.cred = beat[b].cred /\ new.gift = beat[b].gift
    BY <1>0, <2>1, MovedBeat
  <2>3. CredTypeOK'
    BY <1>0, <1>1, <2>1, <2>2 DEF CredTypeOK, OneBeat
  <2>4. NextIsNew' /\ RowSound' /\ FileSound' /\ ActiveInFile'
    BY <1>1, <2>1, <2>2 DEF CredInv, NextIsNew, RowSound, FileSound, ActiveInFile, Enrolled, OneBeat
  <2>5. BeatsSound' /\ PendingSound'
    BY <1>1, <2>1, <2>2 DEF CredInv, BeatsSound, PendingSound, Enrolled, OneBeat
  <2>6. AwaitedSound' /\ AnswerSound'
    BY <1>0, <1>1, <2>1, <2>2
    DEF CredInv, CredTypeOK, AwaitedSound, AnswerSound, Enrolled, OneBeat
  <2>7. beat[b].cred # identity.pending
    <3>1. CASE beat[b].slot = "pending"
      BY <1>0, <1>1, <1>2, <3>1 DEF CredInv, RowSound, Acceptable
    <3>2. CASE beat[b].slot = "active"
      BY <1>1, <3>2 DEF CredInv, RefusedSound
    <3>3. CASE beat[b].slot = "none"
      BY <1>1, <3>3 DEF CredInv, BeatsSound
    <3> QED
      BY <1>0, <3>1, <3>2, <3>3 DEF Heartbeat
  <2>8. RefusedSound'
    BY <1>1, <2>1, <2>2, <2>7 DEF CredInv, RefusedSound, OneBeat
  <2>9. EnrollerSound'
    BY <1>1, <2>1, <2>2 DEF CredInv, EnrollerSound, OneBeat
  <2> QED
    BY <2>3, <2>4, <2>5, <2>6, <2>8, <2>9 DEF CredInv
<1>3. CASE Acceptable(b) /\ beat[b].slot = "pending"
  <2>1. /\ identity' = [identity EXCEPT !.active = beat[b].cred, !.pending = 0, !.stale = FALSE]
        /\ lastSeen' = beat[b].cred /\ BeatAt(b, "answered")
        /\ identity.pending = beat[b].cred /\ ~identity.disabled
    BY <1>3 DEF AcceptBeat, Acceptable
  <2>2. PICK new \in Heartbeat : /\ OneBeat(b, new) /\ new.pc = "answered"
                                 /\ new.cred = beat[b].cred /\ new.gift = beat[b].gift
    BY <1>0, <2>1, MovedBeat
  <2>3. /\ identity' \in AgentRow /\ identity'.active = beat[b].cred /\ identity'.pending = 0
        /\ ~identity'.disabled
    BY <1>0, <2>1 DEF CredTypeOK, AgentRow, Heartbeat
  <2>4. CredTypeOK'
    BY <1>0, <1>1, <2>1, <2>2, <2>3 DEF CredTypeOK, OneBeat, Heartbeat
  <2>5. NextIsNew'
    BY <1>0, <1>1, <2>2, <2>3 DEF CredInv, CredTypeOK, NextIsNew, OneBeat
  <2>6. RowSound'
    BY <1>1, <2>1, <2>3 DEF CredInv, RowSound, Taken
  <2>7. Enrolled => onDisk.cred = beat[b].cred
    BY <1>1, <2>1 DEF CredInv, PendingSound
  <2>8. BeatsSound' /\ PendingSound' /\ RefusedSound' /\ FileSound' /\ ActiveInFile'
    <3>1. FileSound' /\ PendingSound'
      BY <1>1, <2>3 DEF CredInv, FileSound, PendingSound
    <3>2. BeatsSound'
      BY <1>1, <2>2 DEF CredInv, BeatsSound, OneBeat
    <3>3. RefusedSound'
      BY <1>1, <2>2, <2>3, <3>1, <3>2 DEF CredInv, RefusedSound, AwaitedSound, BeatsSound, FileSound, OneBeat
    <3>4. ActiveInFile'
      BY <1>1, <2>3, <2>7 DEF ActiveInFile, Enrolled
    <3> QED
      BY <3>1, <3>2, <3>3, <3>4
  <2>9. AwaitedSound'
    BY <1>0, <1>1, <2>2 DEF CredInv, CredTypeOK, AwaitedSound, OneBeat
  <2>10. AnswerSound'
    <3> SUFFICES ASSUME Enrolled, awaited # 0, awaited # b, beat[awaited].pc \in {"issue", "answered"}
                 PROVE  FALSE
      BY <1>0, <1>1, <2>2, <2>3 DEF CredTypeOK, AnswerSound, Enrolled, OneBeat
    <3>1. identity.active # 0 /\ beat[awaited].cred = identity.active
      BY <1>1, <2>1 DEF CredInv, RowSound, AnswerSound
    <3>2. inMemory.cred = beat[b].cred
      BY <2>7 DEF CredInv, AwaitedSound, FileSound
    <3>3. agentPc # "fallback"
      BY <2>1, <3>2 DEF CredInv, RefusedSound
    <3>4. beat[awaited].cred = inMemory.cred
      BY <3>3 DEF CredInv, AwaitedSound
    <3> QED
      BY <1>1, <2>1, <3>1, <3>2, <3>4 DEF CredInv, RowSound
  <2>11. EnrollerSound'
    BY <1>1, <2>1 DEF CredInv, EnrollerSound
  <2> QED
    BY <2>4, <2>5, <2>6, <2>8, <2>9, <2>10, <2>11 DEF CredInv
<1>4. CASE Acceptable(b) /\ beat[b].slot # "pending"
  <2>1. /\ UNCHANGED identity
        /\ lastSeen' = beat[b].cred /\ BeatAt(b, "issue")
        /\ identity.active = beat[b].cred
    BY <1>4 DEF AcceptBeat, Acceptable
  <2>2. PICK new \in Heartbeat : /\ OneBeat(b, new) /\ new.pc = "issue"
                                 /\ new.cred = beat[b].cred /\ new.gift = beat[b].gift
    BY <1>0, <2>1, MovedBeat
  <2>3. CredTypeOK'
    BY <1>0, <1>1, <2>1, <2>2 DEF CredTypeOK, OneBeat, Heartbeat
  <2>4. NextIsNew' /\ RowSound' /\ FileSound' /\ ActiveInFile'
    BY <1>1, <2>1, <2>2 DEF CredInv, NextIsNew, RowSound, FileSound, ActiveInFile, Enrolled, OneBeat
  <2>5. BeatsSound' /\ PendingSound' /\ RefusedSound'
    BY <1>1, <2>1, <2>2 DEF CredInv, BeatsSound, PendingSound, RefusedSound, Enrolled, OneBeat
  <2>6. AwaitedSound' /\ AnswerSound'
    BY <1>0, <1>1, <2>1, <2>2
    DEF CredInv, CredTypeOK, AwaitedSound, AnswerSound, Enrolled, OneBeat
  <2>7. EnrollerSound'
    BY <1>1, <2>1, <2>2 DEF CredInv, EnrollerSound, OneBeat
  <2> QED
    BY <2>3, <2>4, <2>5, <2>6, <2>7 DEF CredInv
<1> QED
  BY <1>2, <1>3, <1>4, Zenon

(* The offer of heartbeat(): the new credential becomes pending, and nobody has *)
(* it; otherwise the answer goes out without one.                               *)
LEMMA OfferKeeps ==
  ASSUME CredInv, NEW b \in Beats, OfferCredential(b)
  PROVE  CredInv'
<1>0. CredTypeOK /\ beat[b] \in Heartbeat
  BY DEF CredInv, CredTypeOK
<1>1. /\ UNCHANGED <<onDisk, inMemory, agentPc, awaited, enroller, lastSeen, revoked, upsets>>
      /\ beat[b].pc = "issue" /\ beat[b].cred # 0
  BY DEF OfferCredential, CredInv, BeatsSound
<1>2. CASE BeatAt(b, "answered") /\ UNCHANGED <<identity, made>>
  <2>2. PICK new \in Heartbeat : /\ OneBeat(b, new) /\ new.pc = "answered"
                                 /\ new.cred = beat[b].cred /\ new.gift = beat[b].gift
    BY <1>0, <1>2, MovedBeat
  <2>3. CredTypeOK'
    BY <1>0, <1>1, <1>2, <2>2 DEF CredTypeOK, OneBeat
  <2>4. NextIsNew' /\ RowSound' /\ FileSound' /\ ActiveInFile'
    BY <1>1, <1>2, <2>2 DEF CredInv, NextIsNew, RowSound, FileSound, ActiveInFile, Enrolled, OneBeat
  <2>5. BeatsSound' /\ PendingSound' /\ RefusedSound'
    BY <1>1, <1>2, <2>2 DEF CredInv, BeatsSound, PendingSound, RefusedSound, Enrolled, OneBeat
  <2>6. AwaitedSound' /\ AnswerSound'
    BY <1>0, <1>1, <1>2, <2>2
    DEF CredInv, CredTypeOK, AwaitedSound, AnswerSound, Enrolled, OneBeat
  <2>7. EnrollerSound'
    BY <1>1, <1>2, <2>2 DEF CredInv, EnrollerSound, OneBeat
  <2> QED
    BY <2>3, <2>4, <2>5, <2>6, <2>7 DEF CredInv
<1>3. CASE /\ Offerable(b) /\ NewCredential
           /\ identity' = [identity EXCEPT !.pending = made.credentials + 1, !.stale = FALSE]
           /\ beat' = [beat EXCEPT ![b].pc = "answered", ![b].gift = made.credentials + 1]
  <2> DEFINE fresh == made.credentials + 1
             new == [beat[b] EXCEPT !.pc = "answered", !.gift = fresh]
  <2>1. /\ fresh \in Nat /\ fresh > made.credentials
        /\ made'.credentials = fresh /\ made' \in [credentials: Nat, tokens: Nat]
    BY <1>0, <1>3 DEF CredTypeOK, NewCredential
  <2>2. /\ identity' \in AgentRow /\ identity'.active = identity.active
        /\ identity'.pending = fresh /\ identity'.disabled = identity.disabled
        /\ identity.active = beat[b].cred
    BY <1>0, <1>3, <2>1 DEF CredTypeOK, AgentRow, Offerable
  <2>3. /\ new \in Heartbeat /\ new.pc = "answered"
        /\ new.cred = beat[b].cred /\ new.gift = fresh
    BY <1>0, <2>1 DEF Heartbeat
  <2>4. beat' = [beat EXCEPT ![b] = new]
    BY <1>3
  <2> HIDE DEF new, fresh
  <2>5. OneBeat(b, new)
    BY <1>0, <2>3, <2>4, WriteBeat
  <2>6. /\ \A x \in Beats : beat[x].cred \in Nat /\ beat[x].cred < fresh /\ beat[x].cred # fresh
        /\ identity.active # fresh /\ onDisk.prev # fresh /\ inMemory.cred # fresh
        /\ fresh \notin revoked
    BY <1>0, <2>1 DEF CredInv, NextIsNew, CredTypeOK, Heartbeat, AgentRow, File
  <2>7. CredTypeOK'
    BY <1>0, <1>1, <2>1, <2>2, <2>5 DEF CredTypeOK, OneBeat
  <2>8. NextIsNew'
    <3>1. /\ identity'.active =< fresh /\ identity'.pending =< fresh
          /\ \A x \in Beats : beat'[x].cred =< fresh /\ beat'[x].gift =< fresh
      BY <1>0, <1>1, <2>1, <2>2, <2>3, <2>5
      DEF CredInv, NextIsNew, CredTypeOK, AgentRow, Heartbeat, OneBeat
    <3>2. /\ onDisk.cred =< fresh /\ onDisk.prev =< fresh
          /\ inMemory.cred =< fresh /\ inMemory.prev =< fresh
          /\ \A c \in revoked : c =< fresh
      BY <1>0, <2>1 DEF CredInv, NextIsNew, CredTypeOK, File
    <3> QED
      BY <1>1, <2>1, <3>1, <3>2 DEF NextIsNew
  <2>9. RowSound'
    BY <1>1, <1>3, <2>2, <2>6 DEF CredInv, RowSound, Taken, Offerable
  <2>10. BeatsSound' /\ FileSound' /\ ActiveInFile'
    BY <1>1, <2>2, <2>3, <2>5 DEF CredInv, BeatsSound, FileSound, ActiveInFile, Enrolled, OneBeat
  <2>11. AwaitedSound' /\ AnswerSound'
    BY <1>0, <1>1, <2>2, <2>3, <2>5
    DEF CredInv, CredTypeOK, AwaitedSound, AnswerSound, Enrolled, OneBeat
  <2>12. RefusedSound' /\ PendingSound'
    BY <1>1, <2>2, <2>3, <2>5, <2>6 DEF CredInv, RefusedSound, PendingSound, OneBeat
  <2>13. EnrollerSound'
    BY <1>1, <2>2 DEF CredInv, EnrollerSound
  <2> QED
    BY <2>7, <2>8, <2>9, <2>10, <2>11, <2>12, <2>13 DEF CredInv
<1> QED
  BY <1>2, <1>3, Zenon DEF OfferCredential

(* A heartbeat nobody waits for is forgotten. *)
LEMMA DropKeeps ==
  ASSUME CredInv, NEW b \in Beats, DropBeat(b)
  PROVE  CredInv'
<1>0. CredTypeOK
  BY DEF CredInv
<1>1. UNCHANGED <<identity, made, onDisk, inMemory, agentPc, awaited, enroller, lastSeen, revoked, upsets>>
  BY DEF DropBeat
<1>2. /\ OneBeat(b, NoBeat)
      /\ NoBeat \in Heartbeat /\ NoBeat.pc = "free" /\ NoBeat.cred = 0 /\ NoBeat.gift = 0
  <2>1. NoBeat \in Heartbeat /\ NoBeat.pc = "free" /\ NoBeat.cred = 0 /\ NoBeat.gift = 0
    BY DEF NoBeat, Heartbeat
  <2>2. beat' = [beat EXCEPT ![b] = NoBeat]
    BY DEF DropBeat
  <2> QED
    BY <1>0, <2>1, <2>2, WriteBeat
<1>3. CredTypeOK'
  BY <1>0, <1>1, <1>2 DEF CredTypeOK, OneBeat
<1>4. NextIsNew'
  BY <1>0, <1>1, <1>2 DEF CredInv, CredTypeOK, NextIsNew, OneBeat
<1>5. RowSound' /\ BeatsSound' /\ FileSound' /\ ActiveInFile'
  BY <1>1, <1>2 DEF CredInv, RowSound, BeatsSound, FileSound, ActiveInFile, Enrolled, OneBeat
<1>6. AwaitedSound' /\ AnswerSound'
  BY <1>0, <1>1, <1>2 DEF DropBeat, CredInv, CredTypeOK, AwaitedSound, AnswerSound, Enrolled, OneBeat
<1>7. RefusedSound' /\ PendingSound'
  BY <1>1, <1>2 DEF CredInv, RefusedSound, PendingSound, Enrolled, OneBeat
<1>8. EnrollerSound'
  BY <1>1, <1>2 DEF CredInv, EnrollerSound, OneBeat
<1> QED
  BY <1>3, <1>4, <1>5, <1>6, <1>7, <1>8 DEF CredInv

(* makeUnavailable() empties both slots, so nothing that was revoked is in one. *)
LEMMA UnavailableKeeps ==
  ASSUME CredInv, MakeUnavailable
  PROVE  CredInv'
<1>0. CredTypeOK
  BY DEF CredInv
<1>1. UNCHANGED <<made, beat, onDisk, inMemory, agentPc, awaited, enroller, lastSeen>>
  BY DEF MakeUnavailable
<1>2. /\ identity' \in AgentRow /\ identity'.active = 0 /\ identity'.pending = 0
      /\ revoked' = revoked \cup Taken(identity) /\ upsets' = upsets + 1
  BY DEF MakeUnavailable, AgentRow, Upset
<1>3. \A c \in Taken(identity) : c \in Nat /\ c =< made.credentials
  BY <1>0 DEF CredInv, CredTypeOK, NextIsNew, AgentRow, Taken
<1>4. CredTypeOK'
  <2>1. revoked' \subseteq Nat
    BY <1>0, <1>2, <1>3 DEF CredTypeOK
  <2>2. upsets' \in Nat
    BY <1>0, <1>2 DEF CredTypeOK
  <2> QED
    BY <1>0, <1>1, <1>2, <2>1, <2>2 DEF CredTypeOK
<1>5. NextIsNew'
  BY <1>0, <1>1, <1>2, <1>3 DEF CredInv, CredTypeOK, NextIsNew
<1>6. RowSound' /\ BeatsSound' /\ FileSound' /\ ActiveInFile' /\ PendingSound' /\ AnswerSound'
  BY <1>1, <1>2
  DEF CredInv, RowSound, Taken, BeatsSound, FileSound, ActiveInFile, PendingSound, AnswerSound
<1>7. AwaitedSound'
  BY <1>1 DEF CredInv, AwaitedSound
<1>8. RefusedSound'
  BY <1>1, <1>2 DEF CredInv, RefusedSound, BeatsSound, FileSound, AwaitedSound
<1>9. EnrollerSound'
  BY <1>1, <1>2 DEF CredInv, EnrollerSound
<1> QED
  BY <1>4, <1>5, <1>6, <1>7, <1>8, <1>9 DEF CredInv

(* The steps that touch neither a slot of the row nor a heartbeat. *)
LEMMA RowTouchedKeeps ==
  ASSUME CredInv, PendingAges \/ IssueEnrollment \/ ReadToken
  PROVE  CredInv'
<1>0. CredTypeOK
  BY DEF CredInv
<1>1. /\ UNCHANGED <<beat, onDisk, inMemory, agentPc, awaited, lastSeen, revoked, upsets>>
      /\ identity' \in AgentRow
      /\ identity'.active = identity.active /\ identity'.pending = identity.pending
      /\ identity'.disabled => identity.disabled
      /\ made' \in [credentials: Nat, tokens: Nat] /\ made'.credentials = made.credentials
      /\ enroller' \in [pc: {"none", "read", "redeemed", "lost"}, token: Nat, cred: Nat]
      /\ enroller'.cred = enroller.cred
      /\ enroller' = enroller \/ (enroller'.pc = "read" /\ agentPc = "down")
  <2>1. CASE PendingAges
    BY <1>0, <2>1 DEF PendingAges, CredTypeOK, AgentRow
  <2>2. CASE IssueEnrollment
    <3>1. made' = [made EXCEPT !.tokens = @ + 1]
          /\ identity' = [identity EXCEPT !.token = made.tokens + 1, !.disabled = FALSE]
          /\ UNCHANGED <<beat, onDisk, inMemory, agentPc, awaited, enroller, lastSeen, revoked, upsets>>
      BY <2>2 DEF IssueEnrollment
    <3>2. made.tokens + 1 \in Nat
      BY <1>0 DEF CredTypeOK
    <3>3. made' \in [credentials: Nat, tokens: Nat] /\ made'.credentials = made.credentials
      BY <1>0, <3>1, <3>2 DEF CredTypeOK
    <3>4. /\ identity' \in AgentRow /\ ~identity'.disabled
          /\ identity'.active = identity.active /\ identity'.pending = identity.pending
      BY <1>0, <3>1, <3>2 DEF CredTypeOK, AgentRow
    <3> QED
      BY <1>0, <3>1, <3>3, <3>4 DEF CredTypeOK
  <2>3. CASE ReadToken
    BY <1>0, <2>3 DEF ReadToken, CredTypeOK, AgentRow
  <2> QED
    BY <2>1, <2>2, <2>3
<1>2. CredTypeOK'
  BY <1>0, <1>1 DEF CredTypeOK
<1>3. NextIsNew' /\ RowSound' /\ BeatsSound' /\ FileSound' /\ ActiveInFile'
  BY <1>1
  DEF CredInv, NextIsNew, RowSound, Taken, BeatsSound, FileSound, ActiveInFile, Enrolled
<1>4. AwaitedSound' /\ RefusedSound' /\ PendingSound' /\ AnswerSound'
  BY <1>1 DEF CredInv, AwaitedSound, RefusedSound, PendingSound, AnswerSound, Enrolled
<1>5. EnrollerSound'
  BY <1>1 DEF CredInv, EnrollerSound
<1> QED
  BY <1>2, <1>3, <1>4, <1>5 DEF CredInv

(* enroll(): the new credential is the only one of the row, and only the       *)
(* command knows it.                                                           *)
LEMMA RedeemKeeps ==
  ASSUME CredInv, RedeemToken
  PROVE  CredInv'
<1>0. CredTypeOK
  BY DEF CredInv
<1>1. UNCHANGED <<beat, onDisk, inMemory, agentPc, awaited, lastSeen, upsets>>
  BY DEF RedeemToken
<1>2. agentPc = "down" /\ enroller.pc = "read" /\ awaited = 0
  BY DEF RedeemToken, CredInv, FileSound, AwaitedSound
<1>3. CASE ~(identity.token = enroller.token /\ ~identity.disabled)
  <2>1. /\ enroller' = [enroller EXCEPT !.pc = IF enroller.cred = 0 THEN "none" ELSE "lost"]
        /\ UNCHANGED <<identity, made, revoked>>
    BY <1>3 DEF RedeemToken
  <2>2. /\ enroller' \in [pc: {"none", "read", "redeemed", "lost"}, token: Nat, cred: Nat]
        /\ enroller'.cred = enroller.cred /\ enroller'.pc # "redeemed"
    BY <1>0, <2>1 DEF CredTypeOK
  <2>3. CredTypeOK'
    BY <1>0, <1>1, <2>1, <2>2 DEF CredTypeOK
  <2>4. NextIsNew' /\ RowSound' /\ BeatsSound' /\ FileSound' /\ ActiveInFile' /\ EnrollerSound'
    BY <1>1, <1>2, <2>1, <2>2
    DEF CredInv, NextIsNew, RowSound, BeatsSound, FileSound, ActiveInFile, EnrollerSound, Enrolled
  <2>5. AwaitedSound' /\ RefusedSound' /\ PendingSound' /\ AnswerSound'
    BY <1>1, <2>1, <2>2 DEF CredInv, AwaitedSound, RefusedSound, PendingSound, AnswerSound, Enrolled
  <2> QED
    BY <2>3, <2>4, <2>5 DEF CredInv
<1>4. CASE identity.token = enroller.token /\ ~identity.disabled
  <2> DEFINE fresh == made.credentials + 1
  <2>1. /\ fresh \in Nat /\ fresh > made.credentials /\ fresh # 0
        /\ made'.credentials = fresh /\ made' \in [credentials: Nat, tokens: Nat]
    BY <1>0, <1>4 DEF CredTypeOK, RedeemToken, NewCredential
  <2>2. /\ identity' \in AgentRow /\ identity'.active = fresh /\ identity'.pending = 0
        /\ ~identity'.disabled
        /\ revoked' = revoked \cup Taken(identity)
    <3>1. /\ identity' = [active |-> fresh, pending |-> 0, stale |-> FALSE, token |-> 0, disabled |-> FALSE]
          /\ revoked' = revoked \cup Taken(identity)
      BY <1>4 DEF RedeemToken
    <3> HIDE DEF fresh
    <3> QED
      BY <2>1, <3>1 DEF AgentRow
  <2>3. /\ enroller' \in [pc: {"none", "read", "redeemed", "lost"}, token: Nat, cred: Nat]
        /\ enroller'.cred = fresh /\ enroller'.pc = "redeemed"
    BY <1>0, <1>4, <2>1 DEF RedeemToken, CredTypeOK
  <2> HIDE DEF fresh
  <2>4. \A c \in revoked' : c \in Nat /\ c =< made.credentials
    BY <1>0, <2>2 DEF CredInv, CredTypeOK, NextIsNew, AgentRow, Taken
  <2>5. CredTypeOK'
    BY <1>0, <1>1, <2>1, <2>2, <2>3, <2>4 DEF CredTypeOK
  <2>6. NextIsNew'
    <3>1. \A c \in revoked' : c =< fresh
      BY <1>0, <2>1, <2>4 DEF CredTypeOK
    <3>2. \A b \in Beats : beat[b].cred =< fresh /\ beat[b].gift =< fresh
      BY <1>0, <2>1 DEF CredInv, CredTypeOK, NextIsNew, Heartbeat
    <3>3. /\ onDisk.cred =< fresh /\ onDisk.prev =< fresh
          /\ inMemory.cred =< fresh /\ inMemory.prev =< fresh
      BY <1>0, <2>1 DEF CredInv, CredTypeOK, NextIsNew, File
    <3> QED
      BY <1>1, <2>1, <2>2, <3>1, <3>2, <3>3 DEF NextIsNew
  <2>7. RowSound'
    <3>1. fresh \notin revoked'
      BY <1>0, <2>1, <2>4 DEF CredTypeOK
    <3> QED
      BY <2>1, <2>2, <3>1 DEF RowSound, Taken
  <2>8. BeatsSound' /\ FileSound' /\ AwaitedSound'
    BY <1>1, <1>2 DEF CredInv, BeatsSound, FileSound, AwaitedSound
  <2>9. RefusedSound'
    BY <1>1, <1>2, <2>2 DEF CredInv, RefusedSound, BeatsSound
  <2>10. PendingSound' /\ AnswerSound' /\ ActiveInFile'
    BY <2>1, <2>3 DEF PendingSound, AnswerSound, ActiveInFile, Enrolled
  <2>11. EnrollerSound'
    <3>1. \A b \in Beats : beat[b].cred # fresh
      BY <1>0, <2>1 DEF CredInv, CredTypeOK, NextIsNew, Heartbeat
    <3> QED
      BY <1>1, <2>1, <2>2, <2>3, <3>1 DEF EnrollerSound
  <2> QED
    BY <2>5, <2>6, <2>7, <2>8, <2>9, <2>10, <2>11 DEF CredInv
<1> QED
  BY <1>3, <1>4, Zenon

(* The enroll command leaves a file with the only credential of the row, or    *)
(* stays the one who has it.                                                   *)
LEMMA SaveCredentialKeeps ==
  ASSUME CredInv, SaveEnrollment
  PROVE  CredInv'
<1>0. CredTypeOK
  BY DEF CredInv
<1>1. UNCHANGED <<identity, made, beat, inMemory, agentPc, awaited, lastSeen, revoked>>
  BY DEF SaveEnrollment
<1>2. /\ agentPc = "down" /\ enroller.pc = "redeemed" /\ awaited = 0
      /\ enroller.cred # 0 /\ enroller.cred =< made.credentials
      /\ identity.active \in {0, enroller.cred} /\ identity.pending = 0
  BY DEF SaveEnrollment, CredInv, FileSound, AwaitedSound, EnrollerSound
<1>3. /\ onDisk' \in File /\ onDisk'.cred # 0
      /\ onDisk'.cred =< made.credentials /\ onDisk'.prev =< made.credentials
      /\ enroller' \in [pc: {"none", "read", "redeemed", "lost"}, token: Nat, cred: Nat]
      /\ enroller'.pc # "redeemed" /\ upsets' \in Nat
      /\ enroller'.cred = 0 => onDisk'.cred = enroller.cred
  <2>1. CASE onDisk' = Only(enroller.cred) /\ enroller' = NotEnrolling /\ UNCHANGED upsets
    BY <1>0, <1>2, <2>1 DEF CredTypeOK, File, Only, NotEnrolling
  <2>2. CASE Upset /\ enroller' = [enroller EXCEPT !.pc = "lost"] /\ UNCHANGED onDisk
    BY <1>0, <1>2, <2>2 DEF CredInv, CredTypeOK, NextIsNew, FileSound, Upset
  <2> QED
    BY <2>1, <2>2, Zenon DEF SaveEnrollment
<1>4. CredTypeOK'
  BY <1>0, <1>1, <1>3 DEF CredTypeOK
<1>5. NextIsNew' /\ RowSound' /\ BeatsSound' /\ FileSound' /\ EnrollerSound'
  BY <1>1, <1>2, <1>3 DEF CredInv, NextIsNew, RowSound, BeatsSound, FileSound, EnrollerSound
<1>6. AwaitedSound' /\ RefusedSound' /\ PendingSound' /\ AnswerSound'
  BY <1>1, <1>2, <1>3 DEF CredInv, AwaitedSound, RefusedSound, PendingSound, AnswerSound
<1>7. ActiveInFile'
  BY <1>1, <1>2, <1>3 DEF ActiveInFile, Enrolled
<1> QED
  BY <1>4, <1>5, <1>6, <1>7 DEF CredInv

-----------------------------------------------------------------------------
(* The steps of the Agent: they leave the row and the enroll command alone. *)

RowAlone == UNCHANGED <<identity, made, enroller, lastSeen, revoked>>

(* The Agent moves on without a new heartbeat. *)
LEMMA MovesOn ==
  ASSUME CredInv, RowAlone, UNCHANGED beat,
         onDisk' \in File, onDisk'.cred # 0,
         onDisk'.cred =< made.credentials, onDisk'.prev =< made.credentials,
         inMemory' \in {inMemory, onDisk'},
         agentPc' \in {"down", "idle", "rotates"},
         agentPc' # "down" => inMemory' = onDisk' /\ enroller.pc \in {"none", "lost"},
         agentPc' = "rotates" =>
             /\ awaited' = awaited /\ awaited # 0
             /\ beat[awaited].pc = "answered" /\ beat[awaited].gift # 0
             /\ beat[awaited].cred = onDisk'.cred,
         agentPc' # "rotates" => awaited' = 0,
         PendingSound', ActiveInFile', upsets' \in Nat
  PROVE  CredInv'
<1>0. CredTypeOK
  BY DEF CredInv
<1>1. CredTypeOK'
  <2>1. agentPc' \in AgentPcs /\ awaited' \in Beats \cup {0} /\ inMemory' \in File
    BY <1>0 DEF CredTypeOK, AgentPcs
  <2> QED
    BY <1>0, <2>1 DEF RowAlone, CredTypeOK
<1>2. NextIsNew'
  BY DEF RowAlone, CredInv, NextIsNew
<1>3. RowSound' /\ BeatsSound' /\ FileSound' /\ RefusedSound'
  BY DEF RowAlone, CredInv, RowSound, BeatsSound, FileSound, RefusedSound
<1>4. AwaitedSound'
  BY DEF CredInv, AwaitedSound
<1>5. AnswerSound' /\ EnrollerSound'
  BY DEF RowAlone, CredInv, AnswerSound, EnrollerSound, Enrolled
<1> QED
  BY <1>1, <1>2, <1>3, <1>4, <1>5 DEF CredInv

(* An answer makes the credential it was asked with the only one of the file:  *)
(* it is the active one, and the pending one was not lost with the other.      *)
LEMMA HeartbeatSettled ==
  ASSUME CredInv, RowAlone, UNCHANGED beat,
         agentPc \in {"waits", "fallback", "confirms"}, beat[awaited].pc = "answered",
         onDisk' = Only(beat[awaited].cred)
  PROVE  /\ awaited # 0 /\ onDisk' \in File /\ onDisk'.cred # 0
         /\ onDisk'.cred = beat[awaited].cred
         /\ onDisk'.cred =< made.credentials /\ onDisk'.prev =< made.credentials
         /\ enroller.pc \in {"none", "lost"}
         /\ PendingSound' /\ ActiveInFile'
<1>1. awaited # 0 /\ awaited \in Beats /\ beat[awaited] \in Heartbeat
  BY DEF CredInv, CredTypeOK, AwaitedSound
<1>2. /\ onDisk' \in File /\ onDisk'.cred = beat[awaited].cred /\ onDisk'.prev = 0
  BY <1>1 DEF Only, File, Heartbeat
<1>3. /\ beat[awaited].cred # 0 /\ beat[awaited].cred =< made.credentials
      /\ made.credentials \in Nat
  BY <1>1 DEF CredInv, CredTypeOK, BeatsSound, NextIsNew
<1>4. enroller.pc \in {"none", "lost"} /\ inMemory = onDisk
  BY DEF CredInv, FileSound
<1>5. ActiveInFile'
  BY <1>1, <1>2 DEF CredInv, RowAlone, AnswerSound, ActiveInFile, Enrolled
<1>6. PendingSound'
  <2>1. CASE agentPc = "fallback"
    BY <1>2, <1>4, <2>1 DEF CredInv, RowAlone, RefusedSound, PendingSound, Enrolled
  <2>2. CASE agentPc # "fallback"
    BY <1>1, <1>2, <1>4, <2>2 DEF CredInv, RowAlone, AwaitedSound, PendingSound, Enrolled
  <2> QED
    BY <2>1, <2>2
<1>7. onDisk'.prev =< made.credentials
  BY <1>2, <1>3
<1> QED
  BY <1>1, <1>2, <1>3, <1>4, <1>5, <1>6, <1>7, Zenon

(* The Agent sends a heartbeat, with a credential of its file. *)
LEMMA SendKeeps ==
  ASSUME CredInv, RowAlone, UNCHANGED upsets,
         NEW c \in Nat, NEW pc \in {"waits", "fallback", "confirms"}, Send(c, pc),
         c # 0, c =< made.credentials,
         onDisk' \in File, inMemory' = onDisk', onDisk'.cred # 0,
         onDisk'.cred =< made.credentials, onDisk'.prev =< made.credentials,
         enroller.pc \in {"none", "lost"},
         c = IF pc = "fallback" THEN onDisk'.prev ELSE onDisk'.cred,
         pc = "fallback" => onDisk'.cred # identity.pending,
         ActiveInFile',
         (identity.pending # 0 /\ Enrolled) =>
             /\ onDisk'.prev # identity.pending
             /\ \A b \in Beats : (beat[b].pc \in {"sent", "accept"} /\ beat[b].cred = identity.pending)
                                     => onDisk'.cred = identity.pending
  PROVE  CredInv'
<1>0. CredTypeOK
  BY DEF CredInv
<1>1. PICK b \in Beats, new \in Heartbeat :
        /\ beat[b].pc = "free" /\ awaited' = b /\ agentPc' = pc
        /\ OneBeat(b, new)
        /\ new.pc = "sent" /\ new.cred = c /\ new.gift = 0
  BY <1>0, SentBeat
<1>2. b # 0
  BY CredentialsAssumption DEF Beats
<1>3. CredTypeOK'
  <2>1. pc \in AgentPcs
    BY DEF AgentPcs
  <2> QED
    BY <1>0, <1>1, <2>1 DEF RowAlone, CredTypeOK, OneBeat
<1>4. NextIsNew'
  <2>1. new.gift =< made.credentials
    BY <1>0, <1>1 DEF CredTypeOK
  <2> QED
    BY <1>1, <2>1 DEF RowAlone, CredInv, NextIsNew, OneBeat
<1>5. RowSound' /\ FileSound'
  BY <1>1 DEF RowAlone, CredInv, RowSound, FileSound
<1>6. BeatsSound' /\ RefusedSound'
  BY <1>1 DEF RowAlone, CredInv, BeatsSound, RefusedSound, OneBeat
<1>7. AwaitedSound'
  BY <1>1, <1>2 DEF AwaitedSound, OneBeat
<1>8. PendingSound'
  BY <1>1 DEF RowAlone, PendingSound, Enrolled, OneBeat
<1>9. AnswerSound'
  BY <1>1 DEF AnswerSound, OneBeat
<1>10. EnrollerSound'
  BY DEF RowAlone, EnrollerSound
<1> QED
  BY <1>3, <1>4, <1>5, <1>6, <1>7, <1>8, <1>9, <1>10 DEF CredInv

(* The Agent starts with what is in its file. *)
LEMMA StartKeeps ==
  ASSUME CredInv, StartAgent
  PROVE  CredInv'
<1>1. RowAlone /\ UNCHANGED <<beat, onDisk, awaited, upsets>>
  BY DEF StartAgent, RowAlone
<1>2. /\ inMemory' = onDisk /\ agentPc' = "idle" /\ awaited = 0
      /\ enroller.pc \in {"none", "lost"}
      /\ onDisk \in File /\ onDisk.cred # 0 /\ upsets \in Nat
      /\ onDisk.cred =< made.credentials /\ onDisk.prev =< made.credentials
  BY DEF StartAgent, CredInv, CredTypeOK, NextIsNew, FileSound, AwaitedSound
<1>3. PendingSound' /\ ActiveInFile'
  BY <1>1 DEF RowAlone, CredInv, PendingSound, ActiveInFile, Enrolled
<1> QED
  BY <1>1, <1>2, <1>3, MovesOn

(* What the Agent has in memory and waits for. *)
LEMMA AgentKnows ==
  ASSUME CredInv, agentPc # "down"
  PROVE  /\ inMemory = onDisk /\ enroller.pc \in {"none", "lost"}
         /\ onDisk \in File /\ onDisk.cred # 0
         /\ onDisk.cred =< made.credentials /\ onDisk.prev =< made.credentials
         /\ upsets \in Nat /\ awaited \in Beats \cup {0}
  BY DEF CredInv, CredTypeOK, NextIsNew, FileSound

(* The steps that end a heartbeat without an answer that counts. *)
LEMMA HeartbeatGivenUpKeeps ==
  ASSUME CredInv, AgentGivesUp \/ AnswerLost
  PROVE  CredInv'
<1>1. /\ RowAlone /\ UNCHANGED <<beat, onDisk, inMemory>>
      /\ agentPc # "down" /\ agentPc' \in {"down", "idle"} /\ awaited' = 0
      /\ upsets' = upsets \/ upsets' = upsets + 1
  BY DEF AgentGivesUp, AnswerLost, Rejected, Upset, RowAlone
<1>2. PendingSound' /\ ActiveInFile'
  BY <1>1 DEF RowAlone, CredInv, PendingSound, ActiveInFile, Enrolled
<1>3. upsets' \in Nat
  BY <1>1, AgentKnows
<1> QED
  BY <1>1, <1>2, <1>3, AgentKnows, MovesOn

(* heartbeatOnce(): the credential of a running Agent goes with its heartbeat. *)
LEMMA SendHeartbeatKeeps ==
  ASSUME CredInv, SendHeartbeat
  PROVE  CredInv'
<1>1. /\ RowAlone /\ UNCHANGED <<onDisk, inMemory, upsets>>
      /\ agentPc = "idle" /\ Send(onDisk.cred, "waits")
  BY AgentKnows DEF SendHeartbeat, RowAlone
<1>2. onDisk.cred \in Nat
  BY <1>1, AgentKnows DEF File
<1>3. ActiveInFile'
  BY <1>1 DEF RowAlone, CredInv, ActiveInFile, Enrolled
<1>4. (identity.pending # 0 /\ Enrolled) =>
         /\ onDisk.prev # identity.pending
         /\ \A b \in Beats : (beat[b].pc \in {"sent", "accept"} /\ beat[b].cred = identity.pending)
                                 => onDisk.cred = identity.pending
  BY DEF CredInv, PendingSound
<1> QED
  BY <1>1, <1>2, <1>3, <1>4, AgentKnows, SendKeeps

(* A refusal sends the previous credential, which is not the pending one; or   *)
(* it ends the process.                                                        *)
LEMMA RefusedKeeps ==
  ASSUME CredInv, HeartbeatRefused
  PROVE  CredInv'
<1>1. /\ RowAlone /\ UNCHANGED <<onDisk, inMemory, upsets>>
      /\ agentPc = "waits" /\ awaited # 0 /\ beat[awaited].pc = "refused"
  BY DEF HeartbeatRefused, Rejected, RowAlone
<1>2. CASE inMemory.prev = 0
  <2>1. agentPc' = "down" /\ awaited' = 0 /\ UNCHANGED beat
    BY <1>2 DEF HeartbeatRefused
  <2>2. PendingSound' /\ ActiveInFile'
    BY <1>1, <2>1 DEF RowAlone, CredInv, PendingSound, ActiveInFile, Enrolled
  <2> QED
    BY <1>1, <2>1, <2>2, AgentKnows, MovesOn
<1>3. CASE inMemory.prev # 0
  <2>1. /\ Send(onDisk.prev, "fallback")
        /\ onDisk.prev # 0 /\ onDisk.prev \in Nat
    BY <1>1, <1>3, AgentKnows DEF HeartbeatRefused, File
  <2>2. onDisk.cred # identity.pending
    <3>1. awaited \in Beats
      BY <1>1, AgentKnows
    <3> QED
      BY <1>1, <3>1, AgentKnows DEF CredInv, AwaitedSound, RefusedSound
  <2>3. ActiveInFile'
    BY <1>1 DEF RowAlone, CredInv, ActiveInFile, Enrolled
  <2>4. (identity.pending # 0 /\ Enrolled) =>
           /\ onDisk.prev # identity.pending
           /\ \A b \in Beats : (beat[b].pc \in {"sent", "accept"} /\ beat[b].cred = identity.pending)
                                   => onDisk.cred = identity.pending
    BY DEF CredInv, PendingSound
  <2> QED
    BY <1>1, <2>1, <2>2, <2>3, <2>4, AgentKnows, SendKeeps
<1> QED
  BY <1>2, <1>3

(* The three answers that settle the file on the credential they were asked    *)
(* with.                                                                       *)
LEMMA AnsweredKeeps ==
  ASSUME CredInv, HeartbeatAnswered \/ FallbackAnswered \/ RotationConfirmed
  PROVE  CredInv'
<1>1. /\ RowAlone /\ UNCHANGED <<beat, upsets>>
      /\ agentPc \in {"waits", "fallback", "confirms"}
      /\ awaited # 0 /\ beat[awaited].pc = "answered"
      /\ beat[awaited].cred = IF agentPc = "fallback" THEN inMemory.prev ELSE inMemory.cred
  BY DEF HeartbeatAnswered, FallbackAnswered, RotationConfirmed, Answered, RowAlone,
         CredInv, AwaitedSound
<1>2. CASE HeartbeatAnswered /\ beat[awaited].gift # 0
  <2>1. agentPc = "waits" /\ agentPc' = "rotates" /\ UNCHANGED <<onDisk, inMemory, awaited>>
    BY <1>2 DEF HeartbeatAnswered, Answered
  <2>2. PendingSound' /\ ActiveInFile'
    BY <1>1, <2>1 DEF RowAlone, CredInv, PendingSound, ActiveInFile, Enrolled
  <2> QED
    BY <1>1, <1>2, <2>1, <2>2, AgentKnows, MovesOn
<1>3. CASE ~(HeartbeatAnswered /\ beat[awaited].gift # 0)
  <2>1. /\ onDisk' = Only(beat[awaited].cred) /\ inMemory' = onDisk'
        /\ \/ agentPc' = "idle" /\ awaited' = 0
           \/ agentPc' = "rotates" /\ awaited' = awaited /\ beat[awaited].gift # 0
    <3>1. CASE HeartbeatAnswered
      <4>1. /\ agentPc = "waits" /\ agentPc' = "idle" /\ awaited' = 0
            /\ onDisk' = IF inMemory.prev # 0 THEN Only(inMemory.cred) ELSE onDisk
            /\ inMemory' = Only(inMemory.cred)
        BY <1>3, <3>1 DEF HeartbeatAnswered, Answered
      <4>2. inMemory.prev = 0 => onDisk = Only(inMemory.cred)
        BY <4>1, AgentKnows DEF Only, File
      <4> QED
        BY <1>1, <4>1, <4>2
    <3>2. CASE FallbackAnswered
      BY <1>1, <3>2 DEF FallbackAnswered, Answered
    <3>3. CASE RotationConfirmed
      BY <1>1, <3>3 DEF RotationConfirmed, Answered
    <3> QED
      BY <3>1, <3>2, <3>3
  <2>2. /\ onDisk' \in File /\ onDisk'.cred # 0
        /\ onDisk'.cred = beat[awaited].cred
        /\ onDisk'.cred =< made.credentials /\ onDisk'.prev =< made.credentials
        /\ enroller.pc \in {"none", "lost"}
        /\ PendingSound' /\ ActiveInFile'
    BY <1>1, <2>1, HeartbeatSettled
  <2>3. upsets' \in Nat
    BY <1>1, AgentKnows
  <2> QED
    BY <1>1, <2>1, <2>2, <2>3, MovesOn
<1> QED
  BY <1>2, <1>3

(* persistPendingRotation(): the answer that carried the gift was asked with   *)
(* the active credential, which stays in the file beside the gift.             *)
LEMMA PersistKeeps ==
  ASSUME CredInv, PersistRotation
  PROVE  CredInv'
<1> DEFINE gift == beat[awaited].gift
<1>1. /\ RowAlone /\ UNCHANGED upsets /\ agentPc = "rotates"
      /\ onDisk' = [cred |-> gift, prev |-> inMemory.cred] /\ inMemory' = onDisk'
      /\ Send(gift, "confirms")
  BY DEF PersistRotation, RowAlone
<1>2. /\ awaited \in Beats /\ awaited # 0 /\ beat[awaited].pc = "answered"
      /\ beat[awaited].cred = inMemory.cred
      /\ gift \in Nat /\ gift # 0 /\ gift =< made.credentials
      /\ inMemory = onDisk /\ onDisk.cred \in Nat
  <2>1. awaited \in Beats /\ awaited # 0
    BY <1>1, AgentKnows DEF CredInv, AwaitedSound
  <2> QED
    BY <1>1, <2>1, AgentKnows DEF CredInv, CredTypeOK, AwaitedSound, NextIsNew, Heartbeat, File
<1> HIDE DEF gift
<1>3. /\ onDisk' \in File /\ onDisk'.cred = gift /\ onDisk'.prev = onDisk.cred
  BY <1>1, <1>2 DEF File
<1>4. (identity.active # 0 /\ Enrolled) => onDisk.cred = identity.active
  BY <1>2 DEF CredInv, AnswerSound
<1>5. ActiveInFile'
  BY <1>1, <1>3, <1>4 DEF RowAlone, ActiveInFile, Enrolled
<1>6. (identity.pending # 0 /\ Enrolled) =>
         /\ onDisk'.prev # identity.pending
         /\ \A b \in Beats : (beat[b].pc \in {"sent", "accept"} /\ beat[b].cred = identity.pending)
                                 => onDisk'.cred = identity.pending
  BY <1>3, <1>4 DEF CredInv, RowSound, PendingSound
<1>7. enroller.pc \in {"none", "lost"} /\ onDisk.cred =< made.credentials
  BY <1>1, AgentKnows
<1> QED
  BY <1>1, <1>2, <1>3, <1>5, <1>6, <1>7, SendKeeps

-----------------------------------------------------------------------------
(* The initial row has credential 1, which the Agent's file has too. *)
LEMMA CredInitSound == CredentialsInit => CredInv
  BY CredentialsAssumption
  DEF CredentialsInit, CredInv, CredTypeOK, NextIsNew, RowSound, BeatsSound, FileSound,
      AwaitedSound, RefusedSound, PendingSound, AnswerSound, ActiveInFile, EnrollerSound,
      Enrolled, AgentRow, Heartbeat, File, AgentPcs, NoBeat, Only, NotEnrolling, Taken

(* Every step of either side keeps the invariant. *)
LEMMA CredStep ==
  ASSUME CredInv, CredentialsNext
  PROVE  CredInv'
<1>1. ASSUME NEW b \in Beats,
             AuthenticateBeat(b) \/ AcceptBeat(b) \/ OfferCredential(b) \/ DropBeat(b)
      PROVE  CredInv'
  BY <1>1, AuthenticateKeeps, AcceptKeeps, OfferKeeps, DropKeeps
<1>2. ASSUME PendingAges \/ MakeUnavailable \/ IssueEnrollment \/ ReadToken
                 \/ RedeemToken \/ SaveEnrollment
      PROVE  CredInv'
  BY <1>2, RowTouchedKeeps, UnavailableKeeps, RedeemKeeps, SaveCredentialKeeps
<1>3. ASSUME StartAgent \/ SendHeartbeat \/ HeartbeatAnswered \/ HeartbeatRefused
                 \/ FallbackAnswered \/ PersistRotation \/ RotationConfirmed
                 \/ AgentGivesUp \/ AnswerLost
      PROVE  CredInv'
  BY <1>3, StartKeeps, SendHeartbeatKeeps, AnsweredKeeps, RefusedKeeps, PersistKeeps, HeartbeatGivenUpKeeps
<1> QED
  BY <1>1, <1>2, <1>3 DEF CredentialsNext

(* Everything above holds in every reachable state. *)
THEOREM CredentialsInvariant == CredentialsSpec => []CredInv
<1>1. CredInv /\ [CredentialsNext]_credentialVars => CredInv'
  <2>1. ASSUME CredInv, UNCHANGED credentialVars PROVE CredInv'
    BY <2>1
    DEF credentialVars, CredInv, CredTypeOK, NextIsNew, RowSound, BeatsSound, FileSound,
        AwaitedSound, RefusedSound, PendingSound, AnswerSound, ActiveInFile, EnrollerSound, Enrolled
  <2> QED
    BY <2>1, CredStep
<1> QED
  BY <1>1, CredInitSound, PTL DEF CredentialsSpec

(* UsableIdentity: whichever answers are lost, whenever either process stops   *)
(* and however late a heartbeat arrives, the file of an enrolled Agent has a   *)
(* credential the control plane accepts.                                       *)
THEOREM IdentityStaysUsable == CredentialsSpec => []UsableIdentity
<1>1. CredInv => UsableIdentity
  BY DEF CredInv, ActiveInFile, UsableIdentity, Enrolled, Taken
<1> QED
  BY <1>1, CredentialsInvariant, PTL

(* RevokedStaysOffline: the write of heartbeat() compares the slot, and no     *)
(* revoked credential is in one.                                               *)
THEOREM RevokedNeverSeen == CredentialsSpec => RevokedStaysOffline
<1>1. ASSUME CredInv, [CredentialsNext]_credentialVars, lastSeen' # lastSeen
      PROVE  lastSeen' \notin revoked
  <2>1. PICK b \in Beats : AcceptBeat(b) /\ Acceptable(b) /\ lastSeen' = beat[b].cred
    BY <1>1
    DEF CredentialsNext, credentialVars, AuthenticateBeat, AcceptBeat, OfferCredential, DropBeat,
        PendingAges, MakeUnavailable, IssueEnrollment, ReadToken, RedeemToken, SaveEnrollment,
        StartAgent, SendHeartbeat, HeartbeatAnswered, HeartbeatRefused, FallbackAnswered,
        PersistRotation, RotationConfirmed, AgentGivesUp, AnswerLost
  <2>2. beat[b].cred # 0
    BY <1>1, <2>1 DEF CredInv, BeatsSound, AcceptBeat
  <2>3. beat[b].cred \in Taken(identity)
    BY <2>1, <2>2 DEF Acceptable, Taken
  <2> QED
    BY <1>1, <2>1, <2>3 DEF CredInv, RowSound
<1>2. CredInv /\ [CredentialsNext]_credentialVars
        => [lastSeen' # lastSeen => lastSeen' \notin revoked]_credentialVars
  BY <1>1
<1> QED
  BY <1>2, CredentialsInvariant, PTL DEF CredentialsSpec, RevokedStaysOffline

-----------------------------------------------------------------------------
(***************************************************************************)
(* MailOutbox: the mail that carries invitations, confirmations and reset  *)
(* links.                                                                  *)
(***************************************************************************)

\* Processes that have claimed the message and are not through with it.
Sending == {"send", "sent", "failed"}

\* Those whose next steps may still add a copy, or put the row back in the queue.
Owing == {w \in Mailers : mailer[w].at \in {"send", "failed"}}

\* The message can be claimed, now or after some time, without any further upset.
Reclaimable ==
    \/ mail.status = "pending"
    \/ /\ mail.status = "sending"
       /\ mail.stale \/ \A w \in Mailers : mail.owner = w => mailer[w].at \notin Sending

NextClaim == IF Reclaimable THEN 1 ELSE 0
Owes(w) == IF w \in Owing THEN 1 ELSE 0

CopiesAccounted ==
    /\ IsFiniteSet(Owing)
    /\ delivered + Cardinality(Owing) + NextClaim =< 1 + mailUpsets

MailInv == MailTypeOK /\ CopiesAccounted

-----------------------------------------------------------------------------
(* The message is in the queue, and nobody has claimed it. *)
LEMMA MailInitSound == MailInit => MailInv
<1> SUFFICES ASSUME MailInit PROVE MailInv
  OBVIOUS
<1>1. MailTypeOK
  BY MailUpsetsAssumption DEF MailInit, MailTypeOK, MailerRests
<1>2. Owing = {}
  BY DEF MailInit, Owing, MailerRests
<1>3. CopiesAccounted
  BY <1>2, FS_EmptySet DEF MailInit, CopiesAccounted, NextClaim
<1> QED
  BY <1>1, <1>3 DEF MailInv

(* One process moves: it enters or leaves the set of those that owe a step. *)
LEMMA OneProcessMoves ==
  ASSUME MailTypeOK, IsFiniteSet(Owing), NEW w \in Mailers,
         mailer' \in [Mailers -> [at : {"idle", "claim"} \cup Sending, attempt : Nat]],
         \A v \in Mailers \ {w} : mailer'[v] = mailer[v]
  PROVE  /\ IsFiniteSet(Owing')
         /\ Cardinality(Owing) \in Nat
         /\ Cardinality(Owing') \in Nat
         /\ w \in Owing /\ w \in Owing' => Cardinality(Owing') = Cardinality(Owing)
         /\ w \notin Owing /\ w \notin Owing' => Cardinality(Owing') = Cardinality(Owing)
         /\ w \notin Owing /\ w \in Owing' => Cardinality(Owing') = Cardinality(Owing) + 1
         /\ w \in Owing /\ w \notin Owing' => Cardinality(Owing') = Cardinality(Owing) - 1
<1>1. w \in Owing' => Owing' = Owing \cup {w}
  BY DEF Owing
<1>2. w \notin Owing' => Owing' = Owing \ {w}
  BY DEF Owing
<1>3. IsFiniteSet(Owing')
  BY <1>1, <1>2, FS_AddElement, FS_RemoveElement
<1> QED
  BY <1>1, <1>2, <1>3, FS_AddElement, FS_RemoveElement, FS_CardinalityType

\* The row and the processes, as MailTypeOK types them.
MailRow == [status : {"pending", "sending", "sent", "failed"}, owner : Mailers \cup {0},
            attempts : Nat, due : BOOLEAN, stale : BOOLEAN]
MailerStates == [at : {"idle", "claim", "send", "sent", "failed"}, attempt : Nat]

(* A row stays a row when one of the updates of the sweep is applied to it. *)
LEMMA MailRowUpdates ==
  ASSUME NEW m \in MailRow, NEW s \in {"pending", "sending", "sent", "failed"},
         NEW w \in Mailers \cup {0}, NEW n \in Nat
  PROVE  /\ [m EXCEPT !.owner = w] \in MailRow
         /\ [m EXCEPT !.status = s, !.owner = w] \in MailRow
         /\ [m EXCEPT !.status = s, !.due = FALSE, !.owner = w] \in MailRow
         /\ [m EXCEPT !.due = TRUE] \in MailRow
         /\ [m EXCEPT !.stale = TRUE] \in MailRow
         /\ [m EXCEPT !.status = s, !.owner = w, !.attempts = n, !.stale = FALSE] \in MailRow
  BY Zenon DEF MailRow

(* Every step keeps the types. *)
LEMMA MailTypeStep ==
  ASSUME MailTypeOK, MailNext
  PROVE  MailTypeOK'
<1>0. mail \in MailRow /\ mailer \in [Mailers -> MailerStates] /\ delivered \in Nat
        /\ mailUpsets \in 0 .. MaxMailUpsets /\ mail.attempts \in Nat
  BY DEF MailTypeOK, MailRow, MailerStates
<1> SUFFICES mail' \in MailRow /\ mailer' \in [Mailers -> MailerStates] /\ delivered' \in Nat
               /\ mailUpsets' \in 0 .. MaxMailUpsets
  BY DEF MailTypeOK, MailRow, MailerStates
<1>1. mailUpsets' \in 0 .. MaxMailUpsets
  <2>1. mailUpsets' = mailUpsets \/ MailUpset
    BY DEF MailNext, FindMail, ClaimMail, SendMail, MarkSent, MarkUnsent, MailerStops,
           MailBecomesDue, MailLockStale
  <2> QED
    BY <1>0, <2>1, MailUpsetsAssumption DEF MailUpset
<1>2. delivered' \in Nat
  <2>1. delivered' = delivered \/ delivered' = delivered + 1
    BY DEF MailNext, FindMail, ClaimMail, SendMail, MarkSent, MarkUnsent, MailerStops,
           MailBecomesDue, MailLockStale
  <2> QED
    BY <1>0, <2>1
<1>3. mailer' \in [Mailers -> MailerStates]
  <2>1. ASSUME NEW w \in Mailers, ClaimMail(w) PROVE mailer' \in [Mailers -> MailerStates]
    BY <1>0, <2>1 DEF ClaimMail, MailerStates, MailerRests
  <2>2. ASSUME NEW w \in Mailers, FindMail(w) \/ SendMail(w)
        PROVE  mailer' \in [Mailers -> MailerStates]
    BY <1>0, <2>2 DEF FindMail, SendMail, MailerStates
  <2>3. ASSUME NEW w \in Mailers, MarkSent(w) PROVE mailer' \in [Mailers -> MailerStates]
    BY <1>0, <2>3 DEF MarkSent, MailerStates, MailerRests
  <2>4. ASSUME NEW w \in Mailers, MarkUnsent(w) \/ MailerStops(w)
        PROVE  mailer' \in [Mailers -> MailerStates]
    BY <1>0, <2>4 DEF MarkUnsent, MailerStops, MailerStates, MailerRests
  <2> QED
    BY <1>0, <2>1, <2>2, <2>3, <2>4 DEF MailNext, MailBecomesDue, MailLockStale
<1>4. mail' \in MailRow
  <2>1. ASSUME NEW w \in Mailers, ClaimMail(w) PROVE mail' \in MailRow
    <3>1. \/ mail' = mail
          \/ mail' = [mail EXCEPT !.status = "sending", !.owner = w,
                                 !.attempts = mail.attempts + 1, !.stale = FALSE]
      BY <2>1, Zenon DEF ClaimMail
    <3>2. mail.attempts + 1 \in Nat
      BY <1>0
    <3>3. "sending" \in {"pending", "sending", "sent", "failed"} /\ w \in Mailers \cup {0}
      OBVIOUS
    <3>4. [mail EXCEPT !.status = "sending", !.owner = w,
                       !.attempts = mail.attempts + 1, !.stale = FALSE] \in MailRow
      BY <1>0, <3>2, <3>3, MailRowUpdates, Zenon
    <3> QED
      BY <1>0, <3>1, <3>4, Zenon
  <2>2. ASSUME NEW w \in Mailers, MarkSent(w) \/ MarkUnsent(w) \/ MailerStops(w)
        PROVE  mail' \in MailRow
    <3>1. \/ mail' = mail
          \/ mail' = [mail EXCEPT !.status = "sent", !.owner = 0]
          \/ mail' = [mail EXCEPT !.status = "failed", !.due = FALSE, !.owner = 0]
          \/ mail' = [mail EXCEPT !.status = "pending", !.due = FALSE, !.owner = 0]
          \/ mail' = [mail EXCEPT !.owner = 0]
      BY <2>2, Zenon DEF MarkSent, MarkUnsent, MailerStops
    <3>2. 0 \in Mailers \cup {0} /\ 0 \in Nat
      OBVIOUS
    <3>3. ASSUME NEW s \in {"pending", "sending", "sent", "failed"}
          PROVE  /\ [mail EXCEPT !.status = s, !.owner = 0] \in MailRow
                 /\ [mail EXCEPT !.status = s, !.due = FALSE, !.owner = 0] \in MailRow
                 /\ [mail EXCEPT !.owner = 0] \in MailRow
      BY <1>0, <3>2, MailRowUpdates, Zenon
    <3>4. [mail EXCEPT !.status = "sent", !.owner = 0] \in MailRow
      BY <3>3
    <3>5. [mail EXCEPT !.status = "failed", !.due = FALSE, !.owner = 0] \in MailRow
      BY <3>3
    <3>6. /\ [mail EXCEPT !.status = "pending", !.due = FALSE, !.owner = 0] \in MailRow
          /\ [mail EXCEPT !.owner = 0] \in MailRow
      BY <3>3
    <3> QED
      BY <1>0, <3>1, <3>4, <3>5, <3>6, Zenon
  <2>3. ASSUME MailBecomesDue \/ MailLockStale PROVE mail' \in MailRow
    BY <1>0, <2>3, MailRowUpdates DEF MailBecomesDue, MailLockStale
  <2>4. ASSUME NEW w \in Mailers, FindMail(w) \/ SendMail(w) PROVE mail' \in MailRow
    BY <1>0, <2>4 DEF FindMail, SendMail
  <2> QED
    BY <2>1, <2>2, <2>3, <2>4 DEF MailNext
<1> QED
  BY <1>1, <1>2, <1>3, <1>4

-----------------------------------------------------------------------------
(* What the sum of CopiesAccounted needs of a step that moves one process. *)
LEMMA SumIsKept ==
  ASSUME MailInv, MailTypeOK', NEW w \in Mailers,
         (\A v \in Mailers \ {w} : mailer'[v] = mailer[v]),
         delivered' + Owes(w)' + NextClaim' + mailUpsets
             =< delivered + Owes(w) + NextClaim + mailUpsets'
  PROVE  CopiesAccounted'
<1>1. /\ IsFiniteSet(Owing')
      /\ Cardinality(Owing) \in Nat
      /\ Cardinality(Owing') \in Nat
      /\ w \in Owing /\ w \in Owing' => Cardinality(Owing') = Cardinality(Owing)
      /\ w \notin Owing /\ w \notin Owing' => Cardinality(Owing') = Cardinality(Owing)
      /\ w \notin Owing /\ w \in Owing' => Cardinality(Owing') = Cardinality(Owing) + 1
      /\ w \in Owing /\ w \notin Owing' => Cardinality(Owing') = Cardinality(Owing) - 1
  <2>1. MailTypeOK /\ IsFiniteSet(Owing)
    BY DEF MailInv, CopiesAccounted
  <2>2. mailer' \in [Mailers -> [at : {"idle", "claim"} \cup Sending, attempt : Nat]]
    BY DEF MailTypeOK, Sending
  <2> QED
    BY <2>1, <2>2, OneProcessMoves
<1>2. /\ delivered \in Nat /\ delivered' \in Nat /\ mailUpsets \in Nat /\ mailUpsets' \in Nat
      /\ NextClaim \in Nat /\ NextClaim' \in Nat
  BY MailUpsetsAssumption DEF MailInv, MailTypeOK, NextClaim
<1>3. delivered + Cardinality(Owing) + NextClaim =< 1 + mailUpsets
  BY DEF MailInv, CopiesAccounted
<1>4. Cardinality(Owing') + Owes(w) = Cardinality(Owing) + Owes(w)'
  BY <1>1 DEF Owes
<1>5. Owes(w) \in Nat /\ Owes(w)' \in Nat
  BY DEF Owes
<1>6. delivered' + Cardinality(Owing') + NextClaim' =< 1 + mailUpsets'
  BY <1>1, <1>2, <1>3, <1>4, <1>5
<1> QED
  BY <1>1, <1>6 DEF CopiesAccounted

(* Every step keeps the account of copies. *)
LEMMA CopiesStep ==
  ASSUME MailInv, MailNext
  PROVE  CopiesAccounted'
<1>0. MailTypeOK /\ MailTypeOK'
  BY MailTypeStep DEF MailInv
<1> USE DEF MailerRests, MailUpset
<1>1. ASSUME NEW w \in Mailers, FindMail(w) PROVE CopiesAccounted'
  <2>1. w \notin Owing /\ w \notin Owing' /\ (Reclaimable' => Reclaimable)
    BY <1>0, <1>1 DEF FindMail, Owing, Reclaimable, Sending, MailTypeOK
  <2>2. \A v \in Mailers \ {w} : mailer'[v] = mailer[v]
    BY <1>0, <1>1 DEF FindMail, MailTypeOK
  <2> QED
    BY <1>0, <1>1, <2>1, <2>2, SumIsKept DEF FindMail, NextClaim, Owes, MailTypeOK
<1>2. ASSUME NEW w \in Mailers, ClaimMail(w) PROVE CopiesAccounted'
  <2>1. CASE /\ ClaimStands
             /\ mail' = [mail EXCEPT !.status = "sending", !.owner = w,
                                     !.attempts = @ + 1, !.stale = FALSE]
             /\ mailer' = [mailer EXCEPT ![w] = [at |-> "send", attempt |-> mail.attempts + 1]]
    <3>0. mailer'[w].at = "send" /\ w \notin Owing
      BY <1>0, <1>2, <2>1 DEF ClaimMail, Owing, MailTypeOK
    <3>4. mail'.status = "sending" /\ mail'.owner = w /\ ~mail'.stale
      BY <1>0, <2>1, Zenon DEF MailTypeOK
    <3>1. Reclaimable /\ ~Reclaimable' /\ w \notin Owing
      BY <2>1, <3>0, <3>4 DEF ClaimStands, ClaimableMail, Reclaimable, Sending
    <3>2. \A v \in Mailers \ {w} : mailer'[v] = mailer[v]
      BY <1>0, <1>2 DEF ClaimMail, MailTypeOK
    <3> QED
      BY <1>0, <1>2, <3>1, <3>2, SumIsKept DEF ClaimMail, NextClaim, Owes, MailTypeOK
  <2>2. CASE UNCHANGED mail /\ mailer' = [mailer EXCEPT ![w] = MailerRests]
    <3>1. w \notin Owing /\ w \notin Owing' /\ (Reclaimable' => Reclaimable)
      BY <1>0, <1>2, <2>2 DEF ClaimMail, Owing, Reclaimable, Sending, MailTypeOK
    <3>2. \A v \in Mailers \ {w} : mailer'[v] = mailer[v]
      BY <1>0, <2>2 DEF MailTypeOK
    <3> QED
      BY <1>0, <1>2, <3>1, <3>2, SumIsKept DEF ClaimMail, NextClaim, Owes, MailTypeOK
  <2> QED
    BY <1>2, <2>1, <2>2, Zenon DEF ClaimMail
<1>3. ASSUME NEW w \in Mailers, SendMail(w) PROVE CopiesAccounted'
  <2>1. w \in Owing /\ (Reclaimable' => Reclaimable)
    BY <1>0, <1>3 DEF SendMail, Owing, Reclaimable, Sending, MailTypeOK
  <2>2. \A v \in Mailers \ {w} : mailer'[v] = mailer[v]
    BY <1>0, <1>3 DEF SendMail, MailTypeOK
  <2>3. \/ delivered' = delivered + 1 /\ w \notin Owing' /\ mailUpsets' = mailUpsets
        \/ delivered' = delivered /\ mailUpsets' = mailUpsets
        \/ delivered' = delivered + 1 /\ mailUpsets' = mailUpsets + 1
    BY <1>0, <1>3 DEF SendMail, Owing, MailTypeOK
  <2>4. /\ NextClaim' =< NextClaim /\ NextClaim \in Nat /\ NextClaim' \in Nat
        /\ Owes(w) = 1
        /\ Owes(w)' = 0 \/ Owes(w)' = 1
        /\ w \notin Owing' => Owes(w)' = 0
    BY <2>1 DEF NextClaim, Owes
  <2>5. delivered \in Nat /\ mailUpsets \in Nat
    BY <1>0 DEF MailTypeOK
  <2>6. delivered' + Owes(w)' + NextClaim' + mailUpsets
          =< delivered + Owes(w) + NextClaim + mailUpsets'
    <3>1. CASE delivered' = delivered + 1 /\ w \notin Owing' /\ mailUpsets' = mailUpsets
      <4>1. Owes(w)' = 0
        BY <2>4, <3>1, Zenon
      <4> DEFINE more == delivered'
                 owedNow == Owes(w)
                 owedThen == Owes(w)'
                 claimNow == NextClaim
                 claimThen == NextClaim'
      <4>2. /\ more = delivered + 1 /\ owedNow = 1 /\ owedThen = 0
            /\ claimThen =< claimNow /\ claimNow \in Nat /\ claimThen \in Nat
        BY <2>4, <3>1, <4>1, Zenon
      <4> HIDE DEF more, owedNow, owedThen, claimNow, claimThen
      <4>3. more + owedThen + claimThen + mailUpsets =< delivered + owedNow + claimNow + mailUpsets
        BY <2>5, <4>2
      <4> QED
        BY <3>1, <4>3, Zenon DEF more, owedNow, owedThen, claimNow, claimThen
    <3>2. CASE delivered' = delivered /\ mailUpsets' = mailUpsets
      BY <2>4, <2>5, <3>2
    <3>3. CASE delivered' = delivered + 1 /\ mailUpsets' = mailUpsets + 1
      BY <2>4, <2>5, <3>3
    <3> QED
      BY <2>3, <3>1, <3>2, <3>3
  <2> QED
    BY <1>0, <2>2, <2>6, SumIsKept
<1>4. ASSUME NEW w \in Mailers, MarkSent(w) PROVE CopiesAccounted'
  <2>1. /\ w \notin Owing
        /\ Reclaimable' => Reclaimable
    <3>1. w \notin Owing
      BY <1>4 DEF MarkSent, Owing
    <3>2. mail' = mail \/ mail' = [mail EXCEPT !.status = "sent", !.owner = 0]
      BY <1>4, Zenon DEF MarkSent
    <3>3. CASE mail' = [mail EXCEPT !.status = "sent", !.owner = 0]
      <4>1. mail'.status = "sent"
        BY <1>0, <3>3, Zenon DEF MailTypeOK
      <4>2. ~Reclaimable'
        BY <4>1 DEF Reclaimable, Sending
      <4> QED
        BY <3>1, <4>2
    <3>4. CASE mail' = mail
      <4>1. ASSUME mail.status = "sending", mail.owner = w PROVE mailer'[w].at = "failed"
        <5>1. OwnsMail(w)
          BY <4>1 DEF OwnsMail
        <5>2. mail' # [mail EXCEPT !.status = "sent", !.owner = 0]
          BY <1>0, <3>4, <4>1 DEF MailTypeOK
        <5>3. mailer' = [mailer EXCEPT ![w].at = "failed"]
          BY <1>4, <5>1, <5>2, Zenon DEF MarkSent
        <5> QED
          BY <1>0, <5>3 DEF MailTypeOK
      <4>2. \A v \in Mailers : v # w => mailer'[v] = mailer[v]
        BY <1>0, <1>4 DEF MarkSent, MailTypeOK
      <4>3. Reclaimable' => Reclaimable
        BY <3>4, <4>1, <4>2 DEF Reclaimable, Sending
      <4> QED
        BY <3>1, <4>3
    <3> QED
      BY <3>2, <3>3, <3>4, Zenon
  <2>2. \A v \in Mailers \ {w} : mailer'[v] = mailer[v]
    BY <1>0, <1>4 DEF MarkSent, MailTypeOK
  <2>3. \/ w \notin Owing' /\ mailUpsets' = mailUpsets
        \/ mailUpsets' = mailUpsets + 1
    BY <1>0, <1>4 DEF MarkSent, Owing, MailTypeOK
  <2> QED
    BY <1>0, <1>4, <2>1, <2>2, <2>3, SumIsKept DEF MarkSent, NextClaim, Owes, MailTypeOK
<1>5. ASSUME NEW w \in Mailers, MarkUnsent(w) PROVE CopiesAccounted'
  <2>1. w \in Owing /\ w \notin Owing'
    BY <1>0, <1>5 DEF MarkUnsent, Owing, MailTypeOK
  <2>2. \A v \in Mailers \ {w} : mailer'[v] = mailer[v]
    BY <1>0, <1>5 DEF MarkUnsent, MailTypeOK
  <2>3. mailUpsets' = mailUpsets \/ mailUpsets' = mailUpsets + 1
    BY <1>5 DEF MarkUnsent
  <2> QED
    BY <1>0, <1>5, <2>1, <2>2, <2>3, SumIsKept DEF MarkUnsent, NextClaim, Owes, MailTypeOK
<1>6. ASSUME NEW w \in Mailers, MailerStops(w) PROVE CopiesAccounted'
  <2>1. w \notin Owing'
    BY <1>0, <1>6 DEF MailerStops, Owing, MailTypeOK
  <2>2. \A v \in Mailers \ {w} : mailer'[v] = mailer[v]
    BY <1>0, <1>6 DEF MailerStops, MailTypeOK
  <2> QED
    BY <1>0, <1>6, <2>1, <2>2, SumIsKept DEF MailerStops, NextClaim, Owes, MailTypeOK
<1>7. ASSUME MailBecomesDue PROVE CopiesAccounted'
  <2>1. Owing' = Owing /\ Reclaimable /\ delivered' = delivered /\ mailUpsets' = mailUpsets
    BY <1>7 DEF MailBecomesDue, Owing, Reclaimable
  <2>2. Cardinality(Owing) \in Nat
    BY FS_CardinalityType DEF MailInv, CopiesAccounted
  <2> QED
    BY <1>0, <2>1, <2>2 DEF MailInv, CopiesAccounted, NextClaim, MailTypeOK
<1>8. ASSUME MailLockStale PROVE CopiesAccounted'
  <2> DEFINE Kept == \E w \in Mailers : OwnsMail(w) /\ mailer[w].at \in Sending
  <2>4. Owing' = Owing /\ delivered' = delivered
    BY <1>8 DEF MailLockStale, Owing
  <2>5. Kept => mailUpsets' = mailUpsets + 1
    BY <1>8, Zenon DEF MailLockStale, Sending
  <2>6. ~Kept => mailUpsets' = mailUpsets /\ Reclaimable
    BY <1>8 DEF MailLockStale, OwnsMail, Reclaimable, Sending
  <2>1. /\ Owing' = Owing /\ delivered' = delivered
        /\ mailUpsets' = mailUpsets + 1 \/ (mailUpsets' = mailUpsets /\ Reclaimable)
    BY <2>4, <2>5, <2>6
  <2>2. Cardinality(Owing) \in Nat
    BY FS_CardinalityType DEF MailInv, CopiesAccounted
  <2> QED
    BY <1>0, <2>1, <2>2 DEF MailInv, CopiesAccounted, NextClaim, MailTypeOK
<1> QED
  BY <1>1, <1>2, <1>3, <1>4, <1>5, <1>6, <1>7, <1>8 DEF MailNext

-----------------------------------------------------------------------------
(* The message and the processes are well typed in every reachable state of   *)
(* the sweeps, and the copies still to come are accounted for.                *)
THEOREM MailInvariance == MailSpec => []MailInv
<1>1. ASSUME MailInv, UNCHANGED mailVars PROVE MailInv'
  BY <1>1 DEF MailInv, MailTypeOK, CopiesAccounted, Owing, NextClaim, Reclaimable, mailVars
<1>2. ASSUME MailInv, MailNext PROVE MailInv'
  BY <1>2, MailTypeStep, CopiesStep DEF MailInv
<1>3. MailInv /\ [MailNext]_mailVars => MailInv'
  BY <1>1, <1>2
<1> QED
  BY MailInitSound, <1>3, PTL DEF MailSpec

(* However many processes sweep the outbox and however often they retry, a    *)
(* second copy of a message needs an upset: claimNext() and both updates of   *)
(* deliver() name the state, the lock or the owner that they rely on.         *)
THEOREM MailedOncePerUpset == MailSpec => []OneCopyPerUpset
<1>1. MailInv => OneCopyPerUpset
  BY FS_CardinalityType DEF MailInv, MailTypeOK, CopiesAccounted, OneCopyPerUpset, NextClaim
<1> QED
  BY MailInvariance, <1>1, PTL
=============================================================================
