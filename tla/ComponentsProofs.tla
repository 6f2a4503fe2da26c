--------------------------- MODULE ComponentsProofs ---------------------------
(***************************************************************************)
(* The components together.  MCComponents lets TLC follow one component at *)
(* a time while the others rest; here it is proved that nothing of what    *)
(* the other proof modules show is lost by that, and that the states of    *)
(* all the components have the types the handlers of each of them expect,  *)
(* for every value of every constant.                                      *)
(***************************************************************************)
EXTENDS MCComponents, AgentDeliveryProofs, AccessProofs, ReleaseProofs, UpdateProofs,
        ProjectProofs

\* Everything a step of one component may change.
partsVars == <<part, vars, approvalVars, provVars, updateVars, credentialVars, artifactVars,
               platformVars, accountVars, mailVars, deletionVars, membershipVars, siteVars>>

-----------------------------------------------------------------------------
(* A step of one component is a step of its own specification, and a stutter of all the others. *)
LEMMA PartsSteps ==
  ASSUME [PartsNext]_partsVars
  PROVE  /\ [Next]_vars /\ [ApprovalsNext]_approvalVars /\ [ProvNext]_provVars
         /\ [UpdateNext]_updateVars /\ [CredentialsNext]_credentialVars
         /\ [ArtifactNext]_artifactVars /\ [PlatformNext]_platformVars
         /\ [AccountNext]_accountVars /\ [MailNext]_mailVars /\ [DeletionNext]_deletionVars
         /\ [MembershipNext]_membershipVars /\ [SiteNext]_siteVars
<1>1. CASE PartsNext
  BY <1>1 DEF PartsNext, Follows, DeliveryStep, ApprovalsStep, ProvisioningStep,
              AgentUpdateStep, CredentialsStep, ArtifactsStep, PlatformStep, AccountsStep,
              MailStep, DeletionStep, MembershipStep, DirectHostStep
<1>2. CASE UNCHANGED partsVars
  BY <1>2 DEF partsVars
<1> QED
  BY <1>1, <1>2

(* Each component, seen alone, behaves by its own specification: what is   *)
(* proved of a component holds in every behaviour of all of them.          *)
THEOREM PartsAreComponents ==
  PartsSpec => /\ Spec /\ ApprovalsSpec /\ ProvSpec /\ UpdateSpec /\ CredentialsSpec
               /\ ArtifactSpec /\ PlatformSpec /\ AccountSpec /\ MailSpec /\ DeletionSpec
               /\ MembershipSpec /\ SiteSpec
<1>1. PartsSpec <=> PartsInit /\ [][PartsNext]_partsVars
  BY DEF PartsSpec, partsVars
<1>2. PartsInit => /\ Init /\ ApprovalsInit /\ ProvInit /\ UpdateInit /\ CredentialsInit
                   /\ ArtifactInit /\ PlatformInit /\ AccountInit /\ MailInit
                   /\ DeletionInit /\ MembershipInit /\ SiteInit
  BY DEF PartsInit
<1> QED
  BY <1>1, <1>2, PartsSteps, PTL
     DEF Spec, ApprovalsSpec, ProvSpec, UpdateSpec, CredentialsSpec, ArtifactSpec, PlatformSpec,
         AccountSpec, MailSpec, DeletionSpec, MembershipSpec, SiteSpec

(* No handler leaves a row, a file, a mail or a host in a state that another one does not know. *)
THEOREM PartsTyped == PartsSpec => []PartsTypeOK
<1>1. DeliveryInv => HostTypeOK
  BY DEF DeliveryInv
<1>2. MailInv => MailTypeOK
  BY DEF MailInv
<1>3. DeletionInv => DeletionTypeOK
  BY DEF DeletionInv
<1>4. MembersInv => MembershipTypeOK
  BY DEF MembersInv
<1>5. SiteInv => SiteTypeOK
  BY DEF SiteInv
<1>6. PartsTypeOK <=> /\ TypeOK /\ HostTypeOK /\ AccountTypeOK /\ ArtifactTypeOK /\ MailTypeOK
                      /\ PlatformTypeOK /\ DeletionTypeOK /\ MembershipTypeOK /\ SiteTypeOK
  BY DEF PartsTypeOK
<1> QED
  BY <1>1, <1>2, <1>3, <1>4, <1>5, <1>6, PartsAreComponents, DeliveryInvariant, TypesHold,
     AccountTypes, ArtifactTypes, PlatformTypeCorrect, MailInvariance, DeletionInvariant,
     MembersInvariant, SiteInvariant, PTL
=============================================================================
