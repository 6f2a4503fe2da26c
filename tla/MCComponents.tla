----------------------------- MODULE MCComponents -----------------------------
(***************************************************************************)
(* The components that share no state with one another, for TLC.  A        *)
(* behaviour chooses one of them and follows it; the variables of the      *)
(* others keep their initial values.  Nothing is lost: the reachable       *)
(* states are the disjoint union of those of the components, and every     *)
(* property below speaks of the variables of one of them.                  *)
(***************************************************************************)
EXTENDS AgentDelivery, ProductionApprovals, ProjectProvisioning, AgentSelfUpdate,
        AgentCredentials, ArtifactIngestion, PlatformUpdate, AccountSessions,
        MailOutbox, ProjectDeletion, WorkspaceMembership, DirectHost

VARIABLE part   \* the component this behaviour is about

Parts == {"delivery", "approvals", "provisioning", "agentUpdate", "credentials", "artifacts",
          "platform", "accounts", "mail", "deletion", "membership", "host"}

\* Several components start in one of several states; only the chosen one uses them all.
PartsInit ==
    /\ part \in Parts
    /\ Init /\ (part # "delivery" => ~managed /\ env.status = "empty")
    /\ ApprovalsInit
    /\ ProvInit /\ (part # "provisioning" => setup.kind = "import")
    /\ UpdateInit
    /\ CredentialsInit
    /\ ArtifactInit /\ (part # "artifacts" => origin = "github")
    /\ PlatformInit /\ (part # "platform" => override = 0)
    /\ AccountInit
    /\ MailInit
    /\ DeletionInit
    /\ MembershipInit /\ (part # "membership" => \A p \in People : memberRole[p] = "none")
    /\ SiteInit /\ (part # "host" => hostKind = "docker")

\* The behaviour is about p: every other component stutters.
Follows(p) ==
    /\ part = p
    /\ UNCHANGED part
    /\ IF part = "delivery" THEN TRUE ELSE UNCHANGED vars
    /\ IF part = "approvals" THEN TRUE ELSE UNCHANGED approvalVars
    /\ IF part = "provisioning" THEN TRUE ELSE UNCHANGED provVars
    /\ IF part = "agentUpdate" THEN TRUE ELSE UNCHANGED updateVars
    /\ IF part = "credentials" THEN TRUE ELSE UNCHANGED credentialVars
    /\ IF part = "artifacts" THEN TRUE ELSE UNCHANGED artifactVars
    /\ IF part = "platform" THEN TRUE ELSE UNCHANGED platformVars
    /\ IF part = "accounts" THEN TRUE ELSE UNCHANGED accountVars
    /\ IF part = "mail" THEN TRUE ELSE UNCHANGED mailVars
    /\ IF part = "deletion" THEN TRUE ELSE UNCHANGED deletionVars
    /\ IF part = "membership" THEN TRUE ELSE UNCHANGED membershipVars
    /\ IF part = "host" THEN TRUE ELSE UNCHANGED siteVars

DeliveryStep == Follows("delivery") /\ Next
ApprovalsStep == Follows("approvals") /\ ApprovalsNext
ProvisioningStep == Follows("provisioning") /\ ProvNext
AgentUpdateStep == Follows("agentUpdate") /\ UpdateNext
CredentialsStep == Follows("credentials") /\ CredentialsNext
ArtifactsStep == Follows("artifacts") /\ ArtifactNext
PlatformStep == Follows("platform") /\ PlatformNext
AccountsStep == Follows("accounts") /\ AccountNext
MailStep == Follows("mail") /\ MailNext
DeletionStep == Follows("deletion") /\ DeletionNext
MembershipStep == Follows("membership") /\ MembershipNext
DirectHostStep == Follows("host") /\ SiteNext

PartsNext ==
    \/ DeliveryStep \/ ApprovalsStep \/ ProvisioningStep \/ AgentUpdateStep \/ CredentialsStep
    \/ ArtifactsStep \/ PlatformStep \/ AccountsStep \/ MailStep \/ DeletionStep
    \/ MembershipStep \/ DirectHostStep

PartsSpec ==
    PartsInit /\ [][PartsNext]_<<part, vars, approvalVars, provVars, updateVars, credentialVars,
                                 artifactVars, platformVars, accountVars, mailVars,
                                 deletionVars, membershipVars, siteVars>>

\* The type invariants of the components together: no handler leaves a row, a
\* file or a host in a state that another one does not know.
PartsTypeOK ==
    /\ TypeOK /\ HostTypeOK /\ AccountTypeOK /\ ArtifactTypeOK /\ MailTypeOK
    /\ PlatformTypeOK /\ DeletionTypeOK /\ MembershipTypeOK /\ SiteTypeOK
=============================================================================
