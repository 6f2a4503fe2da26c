------------------------- MODULE WorkspaceMembership -------------------------
(***************************************************************************)
(* The members of a team workspace and their access to the repositories of *)
(* its projects.  WorkspacesService keeps the role of a member in the      *)
(* database and mirrors it into every repository, one call to the Git      *)
(* service at a time; a failure undoes what was done so far.  Requests     *)
(* about different members, and the creation or import of a project, run   *)
(* at the same time.  When a member loses write access, the registry       *)
(* credential of every repository is replaced, because the member may have *)
(* copied it.  The owner is left out: the requests refuse to touch it.     *)
(***************************************************************************)
EXTENDS FiniteSets, Integers

CONSTANTS People,            \* the accounts that can become members
          GitRepos,          \* repositories; some belong to projects
          FirstProjects,     \* those that belong to projects at the start
          MemberCalls,       \* concurrent requests about members
          OfferedRoles,      \* the roles that are given
          MaxSeats,          \* Workspace.maxMembers, without the owner
          MaxMemberEvents    \* bound on requests, failures and crashes together

ASSUME MembershipAssumption ==
    /\ IsFiniteSet(People) /\ People # {} /\ GitRepos # {}
    /\ FirstProjects \subseteq GitRepos
    /\ OfferedRoles \subseteq {"admin", "member", "viewer"}
    /\ MaxSeats \in Nat /\ MaxMemberEvents \in Nat

VARIABLES
    memberRole,       \* by person: WorkspaceMember.role, or "none" without a row
    repoAccess,       \* by repository and person: what the Git service grants
    projectRepos,     \* the repositories that have a Project row
    copies,           \* by repository: who may know its present registry credential
    memberCall,       \* by request: what it does and how far it is
    projectCall,      \* the creation or import of a project that is under way
    memberEvents,     \* bound: requests, failures and crashes so far
    disputed,         \* history: people whose access the property does not promise
    unrotated         \* history: people who lost write access and not every credential changed

membershipVars == <<memberRole, repoAccess, projectRepos, copies, memberCall, projectCall,
                    memberEvents, disputed, unrotated>>

MemberRoles == {"admin", "member", "viewer"}      \* maintainer has the access of member
Accesses == {"none", "read", "write", "admin"}

\* setCollaborator(): what a role is worth in a repository
AccessOf(role) ==
    CASE role = "none" -> "none"
      [] role = "viewer" -> "read"
      [] role = "admin" -> "admin"
      [] role = "member" -> "write"

CanPush(access) == access \in {"write", "admin"}
Pushers(r) == {p \in People : CanPush(repoAccess[r][p])}

NoMemberCall == [does |-> "none", who |-> CHOOSE p \in People : TRUE, role |-> "none",
                 was |-> "none", at |-> "idle", todo |-> {}, touched |-> {}]
NoProjectCall == [does |-> "none", at |-> "idle", repo |-> CHOOSE r \in GitRepos : TRUE,
                  todo |-> {}, seen |-> [p \in People |-> "none"]]

MembershipTypeOK ==
    /\ memberRole \in [People -> MemberRoles \cup {"none"}]
    /\ repoAccess \in [GitRepos -> [People -> Accesses]]
    /\ projectRepos \subseteq GitRepos
    /\ copies \in [GitRepos -> SUBSET People]
    /\ memberCall \in
           [MemberCalls ->
               [does: {"none", "add", "change", "remove"}, who: People,
                role: MemberRoles \cup {"none"}, was: MemberRoles \cup {"none"},
                at: {"idle", "list", "grant", "undoList", "undo", "undone", "audit",
                     "rotateList", "rotate"},
                todo: SUBSET GitRepos, touched: SUBSET GitRepos]]
    /\ projectCall \in
           [does: {"none", "create", "import"}, at: {"idle", "row", "read", "grant", "undo"},
            repo: GitRepos, todo: SUBSET People,
            seen: [People -> MemberRoles \cup {"none"}]]
    /\ memberEvents \in 0 .. MaxMemberEvents
    /\ disputed \subseteq People /\ unrotated \subseteq People

\* nobody has been added yet, or everybody and without an accident
MembershipInit ==
    /\ \E role \in {"none", "member"} :
           /\ memberRole = [p \in People |-> role]
           /\ repoAccess = [r \in GitRepos |-> [p \in People |->
                                IF r \in FirstProjects THEN AccessOf(role) ELSE "none"]]
    /\ projectRepos = FirstProjects
    /\ copies = [r \in GitRepos |-> Pushers(r)]
    /\ memberCall = [c \in MemberCalls |-> NoMemberCall]
    /\ projectCall = NoProjectCall
    /\ memberEvents = 0
    /\ disputed = {} /\ unrotated = {}

About(c, p) == memberCall[c].at # "idle" /\ memberCall[c].who = p
ProjectUnderWay == projectCall.at # "idle"

Counted ==
    /\ memberEvents < MaxMemberEvents
    /\ memberEvents' = memberEvents + 1
Uncounted == UNCHANGED memberEvents

MoveCall(c, at) == memberCall' = [memberCall EXCEPT ![c].at = at]
EndCall(c) == memberCall' = [memberCall EXCEPT ![c] = NoMemberCall]

\* one call to the Git service: who may push may also copy the credential
Grants(r, p, access) ==
    /\ repoAccess' = [repoAccess EXCEPT ![r][p] = access]
    /\ copies' = [copies EXCEPT ![r] = IF CanPush(access) THEN @ \cup {p} ELSE @]

(***************************************************************************)
(* A request about one member.                                             *)
(***************************************************************************)
StartCall(c, does, p, role) ==
    /\ memberCall[c].at = "idle"
    /\ Counted
    /\ memberCall' = [memberCall EXCEPT
           ![c] = [does |-> does, who |-> p, role |-> role, was |-> memberRole[p],
                   at |-> "list", todo |-> {}, touched |-> {}]]
    /\ disputed' = IF ProjectUnderWay \/ \E d \in MemberCalls \ {c} : About(d, p)
                   THEN disputed \cup {p} ELSE disputed
    /\ UNCHANGED <<repoAccess, projectRepos, copies, projectCall, unrotated>>

\* attachMember(): the row first, within the quota of the workspace
AddMember(c) ==
    \E p \in People, role \in OfferedRoles :
        /\ memberRole[p] = "none"
        /\ Cardinality({q \in People : memberRole[q] # "none"}) < MaxSeats
        /\ StartCall(c, "add", p, role)
        /\ memberRole' = [memberRole EXCEPT ![p] = role]

\* updateMember() and removeMember(): the repositories first
ChangeRole(c) ==
    \E p \in People, role \in OfferedRoles :
        /\ memberRole[p] # "none"
        /\ StartCall(c, "change", p, role)
        /\ UNCHANGED memberRole

RemoveMember(c) ==
    \E p \in People :
        /\ memberRole[p] # "none"
        /\ StartCall(c, "remove", p, "none")
        /\ UNCHANGED memberRole

\* each walk reads the projects anew
ListProjects(c) ==
    /\ \E from \in {<<"list", "grant">>, <<"undoList", "undo">>, <<"rotateList", "rotate">>} :
           /\ memberCall[c].at = from[1]
           /\ memberCall' = [memberCall EXCEPT ![c].at = from[2], ![c].todo = projectRepos]
    /\ Uncounted
    /\ UNCHANGED <<memberRole, repoAccess, projectRepos, copies, projectCall, disputed, unrotated>>

\* syncRepositoryAccess() and revokeRepositoryAccess(), one repository
GrantNext(c) ==
    /\ memberCall[c].at = "grant"
    /\ \E r \in memberCall[c].todo :
           /\ Grants(r, memberCall[c].who, AccessOf(memberCall[c].role))
           /\ memberCall' = [memberCall EXCEPT ![c].todo = @ \ {r}, ![c].touched = @ \cup {r}]
    /\ Uncounted
    /\ UNCHANGED <<memberRole, projectRepos, projectCall, disputed, unrotated>>

\* The call fails, or its answer is lost after it took effect.
GrantFails(c) ==
    /\ memberCall[c].at = "grant"
    /\ \E r \in memberCall[c].todo, took \in BOOLEAN :
           /\ IF took THEN Grants(r, memberCall[c].who, AccessOf(memberCall[c].role))
                         ELSE UNCHANGED <<repoAccess, copies>>
           /\ memberCall' = [memberCall EXCEPT
                  ![c].at = "undoList", ![c].todo = {},
                  ![c].touched = IF took THEN @ \cup {r} ELSE @]
    /\ Counted
    /\ UNCHANGED <<memberRole, projectRepos, projectCall, disputed, unrotated>>

Granted(c) == memberCall[c].at = "grant" /\ memberCall[c].todo = {}

\* attachMember() returns; only the audit event is left to do.
Added(c) ==
    /\ Granted(c) /\ memberCall[c].does = "add"
    /\ MoveCall(c, "audit")
    /\ Uncounted
    /\ UNCHANGED <<memberRole, repoAccess, projectRepos, copies, projectCall, disputed, unrotated>>

\* the update or the delete of the row, which must still be there
SaveMember(c) ==
    /\ Granted(c) /\ memberCall[c].does # "add"
    /\ memberRole[memberCall[c].who] # "none"
    /\ memberRole' = [memberRole EXCEPT ![memberCall[c].who] = memberCall[c].role]
    /\ MoveCall(c, "audit")
    /\ Uncounted
    /\ UNCHANGED <<repoAccess, projectRepos, copies, projectCall, disputed, unrotated>>

SaveFails(c) ==
    /\ Granted(c) /\ memberCall[c].does # "add"
    /\ IF memberRole[memberCall[c].who] = "none" THEN Uncounted ELSE Counted
    /\ MoveCall(c, "undoList")
    /\ UNCHANGED <<memberRole, repoAccess, projectRepos, copies, projectCall, disputed, unrotated>>

(***************************************************************************)
(* The undo.  Its own failure is swallowed.                                *)
(***************************************************************************)
\* an addition revokes, a change and a removal restore the role read at the start
UndoTo(call) == AccessOf(call.was)

UndoNext(c) ==
    /\ memberCall[c].at = "undo"
    /\ \E r \in memberCall[c].todo :
           /\ Grants(r, memberCall[c].who, UndoTo(memberCall[c]))
           /\ memberCall' = [memberCall EXCEPT ![c].todo = @ \ {r}, ![c].touched = @ \ {r}]
    /\ Uncounted
    /\ UNCHANGED <<memberRole, projectRepos, projectCall, disputed, unrotated>>

UndoFails(c) ==
    /\ memberCall[c].at = "undo" /\ memberCall[c].todo # {}
    /\ memberCall' = [memberCall EXCEPT ![c].at = "undone", ![c].todo = {}]
    /\ Counted
    /\ UNCHANGED <<memberRole, repoAccess, projectRepos, copies, projectCall, disputed, unrotated>>

\* Repositories the undo did not reach keep what the request gave them, and an undone grant
\* of write access replaces no credential.
Reached(c) == memberCall[c].touched = {}
MayKnow(p) == \E r \in projectRepos : p \in copies[r] \ Pushers(r)

\* The error is thrown; an addition deletes its row before that, which may fail too.
Undone(c) ==
    /\ \/ memberCall[c].at = "undone"
       \/ memberCall[c].at = "undo" /\ memberCall[c].todo = {}
    /\ LET p == memberCall[c].who IN
         /\ \/ /\ memberRole' = IF memberCall[c].does = "add"
                                 THEN [memberRole EXCEPT ![p] = "none"] ELSE memberRole
               /\ Uncounted
               /\ disputed' = IF Reached(c) THEN disputed ELSE disputed \cup {p}
            \/ /\ memberCall[c].does = "add" /\ Counted
               /\ disputed' = disputed \cup {p}
               /\ UNCHANGED memberRole
         /\ unrotated' = IF MayKnow(p) THEN unrotated \cup {p} ELSE unrotated
    /\ EndCall(c)
    /\ UNCHANGED <<repoAccess, projectRepos, copies, projectCall>>

(***************************************************************************)
(* The row is committed: the audit event, then the credentials.            *)
(***************************************************************************)
\* Mutant: credentials are never replaced.
NeverRotates(call) == FALSE

\* write access has ended
LosesWrite(call) == call.does # "add" /\ call.was # "viewer" /\ call.role \in {"viewer", "none"}

RecordAudit(c) ==
    /\ memberCall[c].at = "audit"
    /\ IF LosesWrite(memberCall[c]) THEN MoveCall(c, "rotateList") ELSE EndCall(c)
    /\ Uncounted
    /\ UNCHANGED <<memberRole, repoAccess, projectRepos, copies, projectCall, disputed, unrotated>>

\* The request ends here and leaves the credentials as they are.
GivesUpRotation(c) ==
    /\ EndCall(c)
    /\ unrotated' = IF LosesWrite(memberCall[c]) THEN unrotated \cup {memberCall[c].who}
                    ELSE unrotated

\* auditEvents.record() throws, and the request with it.
AuditNotWritten(c) ==
    /\ memberCall[c].at = "audit"
    /\ Counted
    /\ GivesUpRotation(c)
    /\ UNCHANGED <<memberRole, repoAccess, projectRepos, copies, projectCall, disputed>>

(***************************************************************************)
(* rotateRegistryCredentials(): a failure is logged and skips a repository. *)
(***************************************************************************)
RotateNext(c) ==
    /\ memberCall[c].at = "rotate"
    /\ \E r \in memberCall[c].todo :
           /\ copies' = [copies EXCEPT ![r] = Pushers(r)]
           /\ memberCall' = [memberCall EXCEPT ![c].todo = @ \ {r}]
    /\ Uncounted
    /\ UNCHANGED <<memberRole, repoAccess, projectRepos, projectCall, disputed, unrotated>>

RotateFails(c) ==
    /\ memberCall[c].at = "rotate"
    /\ \E r \in memberCall[c].todo :
           memberCall' = [memberCall EXCEPT ![c].todo = @ \ {r}]
    /\ Counted
    /\ unrotated' = unrotated \cup {memberCall[c].who}
    /\ UNCHANGED <<memberRole, repoAccess, projectRepos, copies, projectCall, disputed>>

Rotated(c) ==
    /\ memberCall[c].at = "rotate" /\ memberCall[c].todo = {}
    /\ EndCall(c)
    /\ Uncounted
    /\ UNCHANGED <<memberRole, repoAccess, projectRepos, copies, projectCall, disputed, unrotated>>

\* The process dies; nothing resumes a request.
MemberRequestDies(c) ==
    /\ memberCall[c].at # "idle"
    /\ Counted
    /\ IF memberCall[c].at \in {"audit", "rotateList", "rotate"}
       THEN /\ GivesUpRotation(c)
            /\ UNCHANGED disputed
       ELSE /\ EndCall(c)
            /\ disputed' = disputed \cup {memberCall[c].who}
            /\ UNCHANGED unrotated
    /\ UNCHANGED <<memberRole, repoAccess, projectRepos, copies, projectCall>>

(***************************************************************************)
(* A project is created in a new repository or imported with an old one.   *)
(***************************************************************************)
\* create() grants first and writes the row last, import() the other way round;
\* both write a new credential into the secrets.  What collaborators a repository
\* had before its import is left out.
StartProject ==
    /\ ~ProjectUnderWay
    /\ \E does \in {"create", "import"}, r \in GitRepos \ projectRepos :
           /\ \A p \in People : repoAccess[r][p] = "none"
           /\ projectCall' = [NoProjectCall EXCEPT
                  !.does = does, !.repo = r, !.at = IF does = "create" THEN "read" ELSE "row"]
           /\ copies' = [copies EXCEPT ![r] = {}]
    /\ disputed' = disputed \cup {p \in People : \E c \in MemberCalls : About(c, p)}
    /\ Counted
    /\ UNCHANGED <<memberRole, repoAccess, projectRepos, memberCall, unrotated>>

ReadMembers ==
    /\ projectCall.at = "read"
    /\ projectCall' = [projectCall EXCEPT
           !.at = "grant", !.seen = memberRole,
           !.todo = {p \in People : memberRole[p] # "none"}]
    /\ Uncounted
    /\ UNCHANGED <<memberRole, repoAccess, projectRepos, copies, memberCall, disputed, unrotated>>

GrantMember ==
    /\ projectCall.at = "grant"
    /\ \E p \in projectCall.todo :
           /\ Grants(projectCall.repo, p, AccessOf(projectCall.seen[p]))
           /\ projectCall' = [projectCall EXCEPT !.todo = @ \ {p}]
    /\ Uncounted
    /\ UNCHANGED <<memberRole, projectRepos, memberCall, disputed, unrotated>>

\* A grant fails, or the row does; an import whose row fails has nothing to undo.
ProjectFails ==
    /\ projectCall.at \in {"grant", "row"}
    /\ projectCall' = IF projectCall.at = "row" THEN NoProjectCall
                      ELSE [projectCall EXCEPT !.at = "undo"]
    /\ Counted
    /\ UNCHANGED <<memberRole, repoAccess, projectRepos, copies, memberCall, disputed, unrotated>>

WriteProject ==
    /\ \/ projectCall.does = "create" /\ projectCall.at = "grant" /\ projectCall.todo = {}
       \/ projectCall.does = "import" /\ projectCall.at = "row"
    /\ projectRepos' = projectRepos \cup {projectCall.repo}
    /\ projectCall' = IF projectCall.does = "create" THEN NoProjectCall
                      ELSE [projectCall EXCEPT !.at = "read"]
    /\ Uncounted
    /\ UNCHANGED <<memberRole, repoAccess, copies, memberCall, disputed, unrotated>>

FinishImport ==
    /\ projectCall.does = "import" /\ projectCall.at = "grant" /\ projectCall.todo = {}
    /\ projectCall' = NoProjectCall
    /\ Uncounted
    /\ UNCHANGED <<memberRole, repoAccess, projectRepos, copies, memberCall, disputed, unrotated>>

\* create() deletes the repository; import() restores the access it found and
\* deletes the row.  What fails is left for an owner to inspect.
UndoNewProject ==
    LET r == projectCall.repo IN
    /\ projectCall.at = "undo"
    /\ \/ /\ repoAccess' = [repoAccess EXCEPT
                 ![r] = [p \in People |-> "none"]]
          /\ projectRepos' = projectRepos \ {r}
          /\ Uncounted
          /\ UNCHANGED disputed
       \/ /\ Counted
          /\ disputed' = IF projectCall.does = "import" THEN People ELSE disputed
          /\ UNCHANGED <<repoAccess, projectRepos>>
    /\ projectCall' = NoProjectCall
    /\ UNCHANGED <<memberRole, copies, memberCall, unrotated>>

MembershipNext ==
    \/ \E c \in MemberCalls :
           \/ AddMember(c) \/ ChangeRole(c) \/ RemoveMember(c) \/ ListProjects(c)
           \/ GrantNext(c) \/ GrantFails(c) \/ Added(c) \/ SaveMember(c) \/ SaveFails(c)
           \/ UndoNext(c) \/ UndoFails(c) \/ Undone(c) \/ RecordAudit(c) \/ AuditNotWritten(c)
           \/ RotateNext(c) \/ RotateFails(c) \/ Rotated(c) \/ MemberRequestDies(c)
    \/ StartProject \/ ReadMembers \/ GrantMember \/ ProjectFails
    \/ WriteProject \/ FinishImport \/ UndoNewProject

MembershipSpec == MembershipInit /\ [][MembershipNext]_membershipVars

(***************************************************************************)
(* Properties.                                                             *)
(***************************************************************************)
\* Nobody is working on the person or on a project.
Settled(p) ==
    /\ ~ProjectUnderWay
    /\ \A c \in MemberCalls : ~About(c, p)

\* Membership and repository access do not diverge (attachMember), and a copied credential
\* stops working once write access ends (rotateRegistryCredentials): when the requests about a
\* person have ended, in success or in any error, every repository grants what the role is
\* worth.  A person who may not push knows no credential in use, unless the request that took
\* the access away ended before it had replaced them all: the audit event could not be
\* written, a repository was skipped, the process died, or it was an undo, which replaces
\* none.  Excepted from both, as the code allows role and access to part, are people on whom
\* two requests or a request and a new project overlapped, on whom an undo could not be
\* completed, or whose request died with its process before the row was saved.
AccessFollowsMembership ==
    \A p \in People \ disputed : Settled(p) =>
        \A r \in projectRepos :
            /\ repoAccess[r][p] = AccessOf(memberRole[p])
            /\ p \in copies[r] \ unrotated => CanPush(repoAccess[r][p])
=============================================================================
