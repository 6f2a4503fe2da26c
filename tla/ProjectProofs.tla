----------------------------- MODULE ProjectProofs -----------------------------
(***************************************************************************)
(* Proofs about what a project leaves behind, what it serves and what it   *)
(* is set up on: ProjectDeletion, for every number of deletions and of     *)
(* things that members and targets do meanwhile, DirectHost, for every     *)
(* number of workers, builds and upsets, and ProjectProvisioning, for      *)
(* every number of attempts, helpers and failures.                         *)
(***************************************************************************)
EXTENDS ProjectDeletion, DirectHost, ProjectProvisioning, TLAPS

-----------------------------------------------------------------------------
(* ProjectDeletion *)

DeleterState == [at: DelSteps, action: RepoActions, debt: BOOLEAN, seen: RemoteRows]
JobsState == [deploy: DelJobStates, remove: DelJobStates \ {"succeeded"}, earlier: BOOLEAN]
HostState == [busy: {"none", "deploy", "remove"}, runs: Runs]

Excepted == waived \/ lateWork \/ disowned

\* A target that is not managed has no unfinished deploy.
UnmanagedIsQuiet == ~remote.managed => delJobs.deploy \notin OpenJobs

\* What the Agent's server does and runs, the jobs and the row know of.
HostIsRecorded ==
    /\ agentHost.busy = "deploy" => delJobs.deploy = "leased"
    /\ agentHost.runs = "served" => remote.version
    /\ delJobs.deploy \in OpenJobs =>
         remote.lock = "deploy" \/ \E d \in Deleters : deleter[d].at = "jobs"

\* The row that a deletion has read is old, but then the jobs tell of what has changed.
Told(d) ==
    deleter[d].at \in {"debt", "check"} =>
        /\ (agentHost.runs = "served" /\ ~deleter[d].seen.version)
               => delJobs.deploy = "succeeded" \/ delJobs.earlier
        /\ ~deleter[d].seen.managed =>
             /\ delJobs.deploy \notin OpenJobs
             /\ agentHost.runs = "served" => deleter[d].seen.version
             /\ deleter[d].at = "check" => ~deleter[d].seen.version

\* After its checks nothing runs, and after it has fenced the jobs nothing can.
DeleterSettled(d) ==
    /\ deleter[d].at \notin Unchecked => agentHost.runs # "served" /\ delJobs.deploy # "leased"
    /\ deleter[d].at \notin Unchecked \cup {"operations", "jobs"}
           => delJobs.deploy \notin OpenJobs

SeenOrTold == \A d \in Deleters : Told(d)
CheckedIsQuiet == \A d \in Deleters : DeleterSettled(d)

DeletedIsQuiet == projectRow = "deleted" => agentHost.runs # "served" /\ delJobs.deploy \notin OpenJobs

AgentAccounted ==
    ~Excepted => HostIsRecorded /\ SeenOrTold /\ CheckedIsQuiet /\ DeletedIsQuiet

\* The environment InitPad deploys itself, once its teardown is behind a deletion.
TornDown ==
    \/ projectRow = "deleted"
    \/ \E d \in Deleters : deleter[d].at \in {"purge", "source", "row"}

PlainAccounted ==
    TornDown => /\ plain = "up" => lateWork
                /\ plain = "left" => waived \/ lateWork

\* The stored objects, once the purge is behind a deletion.
Purged == source = "released" \/ \E d \in Deleters : deleter[d].at \in {"source", "row"}
ObjectsAccounted == Purged /\ objects => waived \/ lateWork

DeletionInv ==
    /\ DeletionTypeOK
    /\ UnmanagedIsQuiet
    /\ AgentAccounted
    /\ PlainAccounted
    /\ ObjectsAccounted

(* Every part of the type invariant, in the names of these proofs. *)
LEMMA DeletionFacts ==
  ASSUME DeletionTypeOK
  PROVE  /\ projectRow \in {"present", "deleted"} /\ source \in {"kept", "released", "gone"}
         /\ objects \in BOOLEAN /\ remote \in RemoteRows /\ delJobs \in JobsState
         /\ agentHost \in HostState /\ plain \in {"empty", "up", "left", "unreached"}
         /\ deleter \in [Deleters -> DeleterState] /\ delRequests \in 0 .. MaxDelRequests
         /\ waived \in BOOLEAN /\ lateWork \in BOOLEAN /\ disowned \in BOOLEAN
  BY DEF DeletionTypeOK, DeleterState, JobsState, HostState

(* A request is counted within its bound. *)
LEMMA RequestCounted ==
  ASSUME DeletionTypeOK, DelRequest
  PROVE  delRequests' \in 0 .. MaxDelRequests
  BY DeletionFacts, DeletersAssumption DEF DelRequest

(* What cancelling does to the jobs: none is left unfinished. *)
LEMMA CancelledFacts ==
  ASSUME DeletionTypeOK
  PROVE  /\ CancelledJobs \in JobsState
         /\ CancelledJobs.deploy \notin OpenJobs /\ CancelledJobs.remove \notin OpenJobs
         /\ CancelledJobs.earlier = delJobs.earlier
         /\ delJobs.deploy = "succeeded" => CancelledJobs.deploy = "succeeded"
  BY DeletionFacts DEF CancelledJobs, Cancelled, OpenJobs, JobsState, DelJobStates

\* The steps that leave every deletion where it is.
OutsideStep ==
    \/ QueueDeploy \/ LeaseDeploy \/ QueueRemove \/ LeaseRemove \/ CancelAndClean
    \/ \E end \in DeployEnds : EndDeploy(end)
    \/ \E works \in BOOLEAN : EndRemove(works)
    \/ SweepJobs \/ DisconnectTarget \/ ReconnectTarget \/ AbandonDeployment
    \/ DeployPlain \/ RepositoryVanishes

(* What runs after a deploy: what it was to serve runs only if it did, or did before. *)
LEMMA AfterDeployFacts ==
  ASSUME DeletionTypeOK, NEW end \in DeployEnds
  PROVE  /\ AfterDeploy(end) \in Runs
         /\ AfterDeploy(end) = "served" => agentHost.runs = "served" \/ end = "served"
  BY DeletionFacts DEF AfterDeploy, DeployEnds, Runs, HostState

(* They keep the types. *)
LEMMA OutsideTypes ==
  ASSUME DeletionTypeOK, OutsideStep
  PROVE  DeletionTypeOK'
<1> USE DEF RemoteRows, JobsState, HostState, Runs, DelJobStates
<1>1. CASE QueueDeploy
  <2> DEFINE earlier == delJobs.earlier \/ delJobs.deploy = "succeeded"
             lately == lateWork \/ \E d \in Deleters : Overlooks(d)
  <2>1. earlier \in BOOLEAN /\ lately \in BOOLEAN
    OBVIOUS
  <2>2. /\ delJobs' = [delJobs EXCEPT !.deploy = "queued", !.earlier = earlier]
        /\ lateWork' = lately
        /\ remote' = [remote EXCEPT !.status = "unsettled", !.lock = "deploy"]
        /\ DelRequest
        /\ UNCHANGED <<projectRow, source, objects, agentHost, plain, deleter, waived, disowned>>
    BY <1>1 DEF QueueDeploy
  <2> HIDE DEF earlier, lately
  <2>3. delJobs' \in JobsState /\ remote' \in RemoteRows
    BY <2>1, <2>2, DeletionFacts
  <2> QED
    BY <2>1, <2>2, <2>3, DeletionFacts, RequestCounted DEF DeletionTypeOK
<1>2. CASE LeaseDeploy
  BY <1>2, DeletionFacts DEF LeaseDeploy, DeletionTypeOK
<1>3. CASE QueueRemove
  <2>1. CASE remote.version
    BY <1>3, <2>1, DeletionFacts, RequestCounted DEF QueueRemove, DeletionTypeOK
  <2>2. CASE ~remote.version
    BY <1>3, <2>2, DeletionFacts, RequestCounted DEF QueueRemove, DeletionTypeOK
  <2> QED
    BY <2>1, <2>2
<1>4. CASE LeaseRemove
  BY <1>4, DeletionFacts DEF LeaseRemove, DeletionTypeOK
<1>5. CASE CancelAndClean
  BY <1>5, DeletionFacts, RequestCounted, CancelledFacts DEF CancelAndClean, DeletionTypeOK
<1>6. ASSUME NEW end \in DeployEnds, EndDeploy(end)
      PROVE  DeletionTypeOK'
  <2> DEFINE works == end = "served"
             version == remote.version \/ works
             status == IF works THEN "running" ELSE "unsettled"
             deploy == IF works THEN "succeeded" ELSE "ended"
  <2>1. /\ version \in BOOLEAN /\ status \in {"running", "unsettled"}
        /\ deploy \in {"succeeded", "ended"}
    OBVIOUS
  <2>2. /\ delJobs' = delJobs \/ delJobs' = [delJobs EXCEPT !.deploy = deploy]
        /\ \/ remote' = remote
           \/ remote' = [remote EXCEPT !.lock = "none", !.version = version,
                                       !.status = status]
        /\ agentHost' \in HostState
        /\ UNCHANGED <<projectRow, source, objects, plain, deleter, delRequests, waived, lateWork,
                       disowned>>
    BY <1>6, DeletionFacts, AfterDeployFacts DEF EndDeploy
  <2> HIDE DEF works, version, status, deploy
  <2>3. delJobs' \in JobsState
    BY <2>1, <2>2, DeletionFacts
  <2>4. remote' \in RemoteRows
    BY <2>1, <2>2, DeletionFacts
  <2> QED
    BY <2>2, <2>3, <2>4, DeletionFacts DEF DeletionTypeOK
<1>7. ASSUME NEW works \in BOOLEAN, EndRemove(works)
      PROVE  DeletionTypeOK'
  <2> DEFINE version == remote.version /\ ~works
             status == IF works THEN "empty" ELSE "unsettled"
             end == "ended"
  <2>1. /\ version \in BOOLEAN /\ status \in {"empty", "unsettled"}
        /\ end \in {"ended"}
    OBVIOUS
  <2>2. /\ delJobs' = delJobs \/ delJobs' = [delJobs EXCEPT !.remove = end]
        /\ \/ remote' = remote
           \/ remote' = [remote EXCEPT !.lock = "none", !.version = version,
                                       !.status = status]
        /\ agentHost' \in HostState
        /\ UNCHANGED <<projectRow, source, objects, plain, deleter, delRequests, waived, lateWork,
                       disowned>>
    BY <1>7, DeletionFacts DEF EndRemove
  <2> HIDE DEF version, status, end
  <2>3. delJobs' \in JobsState
    BY <2>1, <2>2, DeletionFacts
  <2>4. remote' \in RemoteRows
    BY <2>1, <2>2, DeletionFacts
  <2> QED
    BY <2>2, <2>3, <2>4, DeletionFacts DEF DeletionTypeOK
<1>8. CASE SweepJobs
  <2> DEFINE deploy == IF delJobs.deploy = "succeeded" THEN "ended" ELSE delJobs.deploy
  <2>1. deploy \in DelJobStates
    BY DeletionFacts
  <2>2. /\ delJobs' = [delJobs EXCEPT !.earlier = FALSE, !.deploy = deploy]
        /\ UNCHANGED <<projectRow, source, objects, remote, agentHost, plain, deleter, delRequests,
                       waived, lateWork, disowned>>
    BY <1>8, DeletionFacts DEF SweepJobs
  <2> HIDE DEF deploy
  <2>3. delJobs' \in JobsState
    BY <2>1, <2>2, DeletionFacts
  <2> QED
    BY <2>2, <2>3, DeletionFacts DEF DeletionTypeOK
<1>9. CASE DisconnectTarget
  <2> DEFINE status == IF remote.lock = "none" THEN remote.status ELSE "unsettled"
             took == disowned \/ delJobs.deploy = "leased"
  <2>1. status \in {"empty", "unsettled", "running"} /\ took \in BOOLEAN
    BY DeletionFacts
  <2>2. /\ remote' = [remote EXCEPT !.managed = FALSE, !.lock = "none", !.status = status]
        /\ delJobs' = CancelledJobs
        /\ disowned' = took
        /\ DelRequest
        /\ UNCHANGED <<projectRow, source, objects, agentHost, plain, deleter, waived, lateWork>>
    BY <1>9, DeletionFacts DEF DisconnectTarget
  <2> HIDE DEF status, took
  <2>3. remote' \in RemoteRows
    BY <2>1, <2>2, DeletionFacts
  <2> QED
    BY <2>1, <2>2, <2>3, DeletionFacts, RequestCounted, CancelledFacts DEF DeletionTypeOK
<1>10. CASE ReconnectTarget
  <2>1. remote' \in RemoteRows
    BY <1>10, DeletionFacts DEF ReconnectTarget
  <2> QED
    BY <1>10, <2>1, DeletionFacts DEF ReconnectTarget, DeletionTypeOK
<1>11. CASE AbandonDeployment
  <2>1. remote' \in RemoteRows
    BY <1>11, DeletionFacts DEF AbandonDeployment
  <2> QED
    BY <1>11, <2>1, DeletionFacts DEF AbandonDeployment, DeletionTypeOK
<1>12. CASE DeployPlain
  BY <1>12, DeletionFacts, RequestCounted DEF DeployPlain, DeletionTypeOK
<1>13. CASE RepositoryVanishes
  BY <1>13, DeletionFacts, RequestCounted DEF RepositoryVanishes, DeletionTypeOK
<1> QED
  BY <1>1, <1>2, <1>3, <1>4, <1>5, <1>6, <1>7, <1>8, <1>9, <1>10, <1>11, <1>12, <1>13
     DEF OutsideStep

(* What the members, the Agent and the target do keeps the account of the deployments. *)
LEMMA OutsideAccount ==
  ASSUME DeletionInv, OutsideStep, DeletionTypeOK'
  PROVE  UnmanagedIsQuiet' /\ AgentAccounted'
<1> USE DEF RemoteRows, JobsState, HostState, Runs, DelJobStates, OpenJobs
<1> DEFINE Account == HostIsRecorded /\ SeenOrTold /\ CheckedIsQuiet /\ DeletedIsQuiet
<1>a. /\ DeletionTypeOK /\ UnmanagedIsQuiet
      /\ ~Excepted => HostIsRecorded /\ SeenOrTold /\ CheckedIsQuiet /\ DeletedIsQuiet
  BY DEF DeletionInv, AgentAccounted
<1>1. CASE QueueDeploy
  <2>1. /\ remote.managed /\ remote.lock = "none" /\ delJobs.deploy \notin OpenJobs
        /\ projectRow = "present"
        /\ remote' \in RemoteRows /\ remote'.managed /\ remote'.lock = "deploy"
        /\ remote'.version = remote.version
        /\ delJobs' \in JobsState /\ delJobs'.deploy = "queued"
        /\ UNCHANGED <<projectRow, agentHost, deleter, waived, disowned>>
        /\ delJobs.deploy = "succeeded" \/ delJobs.earlier => delJobs'.earlier
    BY <1>1, <1>a, DeletionFacts DEF QueueDeploy
  <2>2. ~lateWork' => ~lateWork /\ \A d \in Deleters : ~Overlooks(d)
    BY <1>1, Zenon DEF QueueDeploy
  <2>3. UnmanagedIsQuiet'
    BY <2>1 DEF UnmanagedIsQuiet
  <2>4. ASSUME ~Excepted' PROVE Account'
    <3>1. ~Excepted /\ \A d \in Deleters : ~Overlooks(d)
      BY <2>1, <2>2, <2>4 DEF Excepted
    <3>2. HostIsRecorded' /\ DeletedIsQuiet'
      BY <3>1, <2>1, <1>a DEF HostIsRecorded, DeletedIsQuiet
    <3>3. ASSUME NEW d \in Deleters PROVE Told(d)' /\ DeleterSettled(d)'
      <4>1. Told(d) /\ DeleterSettled(d) /\ ~Overlooks(d)
        BY <3>1, <1>a DEF SeenOrTold, CheckedIsQuiet
      <4> QED
        BY <4>1, <2>1 DEF Told, DeleterSettled, Overlooks, BeforeFence, Unchecked
    <3> QED
      BY <3>2, <3>3 DEF SeenOrTold, CheckedIsQuiet
  <2> QED
    BY <2>3, <2>4 DEF AgentAccounted

<1>2. CASE LeaseDeploy
  <2>1. /\ remote.managed /\ agentHost.busy = "none" /\ delJobs.deploy = "queued"
        /\ delJobs' \in JobsState /\ delJobs'.deploy = "leased"
        /\ delJobs'.earlier = delJobs.earlier
        /\ agentHost' \in HostState /\ agentHost'.busy = "deploy"
        /\ agentHost'.runs = agentHost.runs
        /\ UNCHANGED <<projectRow, remote, deleter, waived, disowned>>
    BY <1>2, <1>a, DeletionFacts DEF LeaseDeploy
  <2>2. ~lateWork' => ~lateWork /\ \A d \in Deleters : deleter[d].at \in Unchecked
    BY <1>2, Zenon DEF LeaseDeploy
  <2>3. UnmanagedIsQuiet'
    BY <2>1 DEF UnmanagedIsQuiet
  <2>4. ASSUME ~Excepted' PROVE Account'
    <3>1. ~Excepted /\ \A d \in Deleters : deleter'[d].at \in Unchecked
      BY <2>1, <2>2, <2>4 DEF Excepted
    <3>2. SeenOrTold'
      BY <3>1, <2>1, <1>a DEF SeenOrTold, Told
    <3>3. HostIsRecorded' /\ CheckedIsQuiet' /\ DeletedIsQuiet'
      BY <3>1, <2>1, <1>a DEF HostIsRecorded, CheckedIsQuiet, DeleterSettled, DeletedIsQuiet, Unchecked
    <3> QED
      BY <3>2, <3>3
  <2> QED
    BY <2>3, <2>4 DEF AgentAccounted
<1>3. ASSUME NEW end \in DeployEnds, EndDeploy(end)
      PROVE  UnmanagedIsQuiet' /\ AgentAccounted'
  <2> DEFINE works == end = "served"
  <2>1. /\ agentHost.busy = "deploy"
        /\ agentHost' \in HostState /\ agentHost'.busy = "none"
        /\ agentHost'.runs = "served" => agentHost.runs = "served" \/ works
        /\ UNCHANGED <<projectRow, deleter, waived, lateWork, disowned>>
    BY <1>a, <1>3, DeletionFacts, AfterDeployFacts DEF EndDeploy
  <2>2. CASE delJobs.deploy = "leased"
    <3>1. /\ delJobs' \in JobsState /\ delJobs'.earlier = delJobs.earlier
          /\ delJobs'.deploy \in {"succeeded", "ended"}
          /\ works => delJobs'.deploy = "succeeded"
          /\ remote' \in RemoteRows /\ remote'.managed = remote.managed
          /\ remote.version => remote'.version
          /\ remote.lock = "deploy" /\ works => remote'.version
      <4> DEFINE version == remote.version \/ works
                 status == IF works THEN "running" ELSE "unsettled"
                 deploy == IF works THEN "succeeded" ELSE "ended"
      <4>1. /\ version \in BOOLEAN /\ status \in {"running", "unsettled"}
            /\ remote.version \/ works => version
        OBVIOUS
      <4>2. /\ delJobs' = [delJobs EXCEPT !.deploy = deploy]
            /\ remote' = IF remote.lock # "deploy" THEN remote
                         ELSE [remote EXCEPT !.lock = "none", !.version = version,
                                             !.status = status]
        BY <1>3, <2>2 DEF EndDeploy
      <4>3. /\ delJobs' \in JobsState /\ delJobs'.earlier = delJobs.earlier
            /\ delJobs'.deploy = deploy
        BY <1>a, <4>2, DeletionFacts
      <4> HIDE DEF version, status
      <4>4. CASE remote.lock = "deploy"
        BY <1>a, <4>1, <4>2, <4>3, <4>4, DeletionFacts
      <4>5. CASE remote.lock # "deploy"
        BY <1>a, <4>2, <4>3, <4>5, DeletionFacts
      <4> QED
        BY <4>4, <4>5
    <3>2. UnmanagedIsQuiet'
      BY <3>1 DEF UnmanagedIsQuiet
    <3>3. ASSUME ~Excepted' PROVE Account'
      <4>1. ~Excepted
        BY <2>1, <3>3 DEF Excepted
      <4>2. remote.lock = "deploy" /\ \A d \in Deleters : deleter[d].at \in Unchecked
        BY <4>1, <1>a, <2>2 DEF HostIsRecorded, CheckedIsQuiet, DeleterSettled, Unchecked
      <4>3. HostIsRecorded' /\ CheckedIsQuiet' /\ DeletedIsQuiet'
        BY <4>1, <4>2, <2>1, <2>2, <3>1, <1>a
           DEF HostIsRecorded, CheckedIsQuiet, DeleterSettled, DeletedIsQuiet, Unchecked
      <4>4. SeenOrTold'
        BY <4>1, <2>1, <2>2, <3>1, <1>a DEF SeenOrTold, Told
      <4> QED
        BY <4>3, <4>4
    <3> QED
      BY <3>2, <3>3 DEF AgentAccounted
  <2>3. CASE delJobs.deploy # "leased"
    <3>1. UNCHANGED <<delJobs, remote>> /\ (~Excepted => FALSE) /\ Excepted' = Excepted
      BY <1>3, <2>1, <2>3, <1>a DEF EndDeploy, HostIsRecorded, Excepted
    <3> QED
      BY <3>1, <1>a DEF UnmanagedIsQuiet, AgentAccounted
  <2> QED
    BY <2>2, <2>3
<1>4. CASE QueueRemove
  <2>1. /\ remote.managed /\ remote.lock = "none"
        /\ remote' \in RemoteRows /\ remote'.managed
        /\ remote'.version = remote.version
        /\ delJobs' \in JobsState /\ delJobs'.deploy = delJobs.deploy
        /\ delJobs'.earlier = delJobs.earlier
        /\ UNCHANGED <<projectRow, agentHost, deleter, waived, lateWork, disowned>>
    BY <1>a, <1>4, DeletionFacts DEF QueueRemove
  <2>2. UnmanagedIsQuiet'
    BY <2>1 DEF UnmanagedIsQuiet
  <2>3. ASSUME ~Excepted' PROVE Account'
    <3>1. ~Excepted
      BY <2>1, <2>3 DEF Excepted
    <3> QED
      BY <3>1, <2>1, <1>a
         DEF HostIsRecorded, SeenOrTold, Told, CheckedIsQuiet, DeleterSettled, DeletedIsQuiet
  <2> QED
    BY <2>2, <2>3 DEF AgentAccounted
<1>5. CASE LeaseRemove
  <2>1. /\ agentHost.busy = "none"
        /\ delJobs' \in JobsState /\ delJobs'.deploy = delJobs.deploy
        /\ delJobs'.earlier = delJobs.earlier
        /\ agentHost' \in HostState /\ agentHost'.busy = "remove"
        /\ agentHost'.runs = agentHost.runs
        /\ UNCHANGED <<projectRow, remote, deleter, waived, lateWork, disowned>>
    BY <1>a, <1>5, DeletionFacts DEF LeaseRemove
  <2>2. UnmanagedIsQuiet'
    BY <2>1, <1>a DEF UnmanagedIsQuiet
  <2>3. ASSUME ~Excepted' PROVE Account'
    <3>1. ~Excepted
      BY <2>1, <2>3 DEF Excepted
    <3> QED
      BY <3>1, <2>1, <1>a
         DEF HostIsRecorded, SeenOrTold, Told, CheckedIsQuiet, DeleterSettled, DeletedIsQuiet
  <2> QED
    BY <2>2, <2>3 DEF AgentAccounted
<1>6. ASSUME NEW works \in BOOLEAN, EndRemove(works)
      PROVE  UnmanagedIsQuiet' /\ AgentAccounted'
  <2>1. /\ agentHost.busy = "remove"
        /\ agentHost' \in HostState /\ agentHost'.busy = "none"
        /\ agentHost'.runs = "served" => agentHost.runs = "served" /\ ~works
        /\ delJobs' \in JobsState /\ delJobs'.deploy = delJobs.deploy
        /\ delJobs'.earlier = delJobs.earlier
        /\ remote' \in RemoteRows /\ remote'.managed = remote.managed
        /\ remote.version /\ ~works => remote'.version
        /\ remote.lock = "deploy" => remote'.lock = "deploy"
        /\ UNCHANGED <<projectRow, deleter, waived, lateWork, disowned>>
    <3>1. /\ agentHost.busy = "remove"
          /\ agentHost' \in HostState /\ agentHost'.busy = "none"
          /\ agentHost'.runs = "served" => agentHost.runs = "served" /\ ~works
          /\ UNCHANGED <<projectRow, deleter, waived, lateWork, disowned>>
      BY <1>a, <1>6, DeletionFacts DEF EndRemove
    <3>2. CASE delJobs.remove = "leased"
      <4> DEFINE version == remote.version /\ ~works
                 status == IF works THEN "empty" ELSE "unsettled"
      <4>1. /\ version \in BOOLEAN /\ status \in {"empty", "unsettled"}
            /\ remote.version /\ ~works => version
        OBVIOUS
      <4>2. /\ delJobs' = [delJobs EXCEPT !.remove = "ended"]
            /\ remote' = IF remote.lock # "remove" THEN remote
                         ELSE [remote EXCEPT !.lock = "none", !.version = version,
                                             !.status = status]
        BY <1>6, <3>2 DEF EndRemove
      <4> HIDE DEF version, status
      <4>3. /\ delJobs' \in JobsState /\ delJobs'.deploy = delJobs.deploy
            /\ delJobs'.earlier = delJobs.earlier
        BY <1>a, <4>2, DeletionFacts
      <4>4. CASE remote.lock = "remove"
        BY <1>a, <4>1, <4>2, <4>3, <4>4, <3>1, DeletionFacts
      <4>5. CASE remote.lock # "remove"
        BY <1>a, <4>2, <4>3, <4>5, <3>1, DeletionFacts
      <4> QED
        BY <4>4, <4>5
    <3>3. CASE delJobs.remove # "leased"
      BY <1>a, <1>6, <3>1, <3>3, DeletionFacts DEF EndRemove
    <3> QED
      BY <3>2, <3>3
  <2>2. UnmanagedIsQuiet'
    BY <2>1, <1>a DEF UnmanagedIsQuiet
  <2>3. ASSUME ~Excepted' PROVE Account'
    <3>1. ~Excepted
      BY <2>1, <2>3 DEF Excepted
    <3> QED
      BY <3>1, <2>1, <1>a
         DEF HostIsRecorded, SeenOrTold, Told, CheckedIsQuiet, DeleterSettled, DeletedIsQuiet
  <2> QED
    BY <2>2, <2>3 DEF AgentAccounted
<1>7. CASE CancelAndClean
  <2>1. /\ remote.managed
        /\ remote' \in RemoteRows /\ remote'.managed /\ remote'.version = remote.version
        /\ delJobs'.deploy = CancelledJobs.deploy /\ delJobs'.earlier = CancelledJobs.earlier
        /\ UNCHANGED <<projectRow, agentHost, deleter, waived, lateWork>>
    BY <1>a, <1>7, DeletionFacts, CancelledFacts DEF CancelAndClean
  <2>2. ~disowned' => ~disowned /\ delJobs.deploy # "leased"
    BY <1>7, Zenon DEF CancelAndClean
  <2>3. UnmanagedIsQuiet'
    BY <2>1 DEF UnmanagedIsQuiet
  <2>4. ASSUME ~Excepted' PROVE Account'
    <3>1. ~Excepted /\ delJobs.deploy # "leased"
      BY <2>1, <2>2, <2>4 DEF Excepted
    <3> QED
      BY <3>1, <2>1, <1>a, CancelledFacts
         DEF HostIsRecorded, SeenOrTold, Told, CheckedIsQuiet, DeleterSettled, DeletedIsQuiet
  <2> QED
    BY <2>3, <2>4 DEF AgentAccounted
<1>8. CASE SweepJobs
  <2>1. /\ delJobs' \in JobsState
        /\ delJobs.deploy # "succeeded" => delJobs'.deploy = delJobs.deploy
        /\ delJobs.deploy = "succeeded" => delJobs'.deploy = "ended"
        /\ UNCHANGED <<projectRow, agentHost, remote, deleter, waived, lateWork, disowned>>
    BY <1>a, <1>8, DeletionFacts DEF SweepJobs
  <2>2. \A d \in Deleters : deleter'[d].at = "idle"
    BY <1>8 DEF SweepJobs, Deleting
  <2>3. UnmanagedIsQuiet'
    BY <2>1, <1>a DEF UnmanagedIsQuiet
  <2>4. ASSUME ~Excepted' PROVE Account'
    <3>1. ~Excepted
      BY <2>1, <2>4 DEF Excepted
    <3> QED
      BY <3>1, <2>1, <2>2, <1>a
         DEF HostIsRecorded, SeenOrTold, Told, CheckedIsQuiet, DeleterSettled, DeletedIsQuiet, Unchecked
  <2> QED
    BY <2>3, <2>4 DEF AgentAccounted
<1>9. CASE DisconnectTarget
  <2>1. /\ remote' \in RemoteRows /\ remote'.version = remote.version
        /\ delJobs' = CancelledJobs
        /\ UNCHANGED <<projectRow, agentHost, deleter, waived, lateWork>>
    BY <1>a, <1>9, DeletionFacts DEF DisconnectTarget
  <2>2. ~disowned' => ~disowned /\ delJobs.deploy # "leased"
    BY <1>9, Zenon DEF DisconnectTarget
  <2>3. UnmanagedIsQuiet'
    BY <2>1, <1>a, CancelledFacts DEF UnmanagedIsQuiet
  <2>4. ASSUME ~Excepted' PROVE Account'
    <3>1. ~Excepted /\ delJobs.deploy # "leased"
      BY <2>1, <2>2, <2>4 DEF Excepted
    <3> QED
      BY <3>1, <2>1, <1>a, CancelledFacts
         DEF HostIsRecorded, SeenOrTold, Told, CheckedIsQuiet, DeleterSettled, DeletedIsQuiet
  <2> QED
    BY <2>3, <2>4 DEF AgentAccounted
<1>10. CASE ReconnectTarget
  <2>1. /\ remote' \in RemoteRows /\ remote'.managed /\ remote'.version = remote.version
        /\ remote'.lock = remote.lock
        /\ UNCHANGED <<projectRow, agentHost, delJobs, deleter, waived, lateWork, disowned>>
    BY <1>a, <1>10, DeletionFacts DEF ReconnectTarget
  <2>3. UnmanagedIsQuiet'
    BY <2>1 DEF UnmanagedIsQuiet
  <2>4. ASSUME ~Excepted' PROVE Account'
    <3>1. ~Excepted
      BY <2>1, <2>4 DEF Excepted
    <3> QED
      BY <3>1, <2>1, <1>a
         DEF HostIsRecorded, SeenOrTold, Told, CheckedIsQuiet, DeleterSettled, DeletedIsQuiet
  <2> QED
    BY <2>3, <2>4 DEF AgentAccounted
<1>11. CASE AbandonDeployment
  <2>1. ~remote.managed /\ Excepted' /\ UNCHANGED delJobs
    BY <1>11 DEF AbandonDeployment, Excepted
  <2> QED
    BY <2>1, <1>a DEF UnmanagedIsQuiet, AgentAccounted
<1>12. CASE DeployPlain \/ RepositoryVanishes
  <2>1. /\ UNCHANGED <<projectRow, remote, delJobs, agentHost, deleter, waived, disowned>>
        /\ ~lateWork' => ~lateWork
    <3>1. CASE DeployPlain
      BY <3>1, Zenon DEF DeployPlain
    <3>2. CASE RepositoryVanishes
      BY <3>2, Zenon DEF RepositoryVanishes
    <3> QED
      BY <1>12, <3>1, <3>2
  <2>2. UnmanagedIsQuiet'
    BY <2>1, <1>a DEF UnmanagedIsQuiet
  <2>3. ASSUME ~Excepted' PROVE Account'
    <3>1. ~Excepted
      BY <2>1, <2>3 DEF Excepted
    <3> QED
      BY <3>1, <2>1, <1>a
         DEF HostIsRecorded, SeenOrTold, Told, CheckedIsQuiet, DeleterSettled, DeletedIsQuiet
  <2> QED
    BY <2>2, <2>3 DEF AgentAccounted
<1> QED
  BY <1>1, <1>2, <1>3, <1>4, <1>5, <1>6, <1>7, <1>8, <1>9, <1>10, <1>11, <1>12 DEF OutsideStep

(* And that of the environment InitPad deploys itself, and of the stored objects. *)
LEMMA OutsidePlain ==
  ASSUME DeletionInv, OutsideStep
  PROVE  PlainAccounted' /\ ObjectsAccounted'
<1>1. CASE DeployPlain
  <2>1. /\ projectRow = "present" /\ source = "kept"
        /\ UNCHANGED <<projectRow, source, deleter>>
        /\ lateWork' = (lateWork \/ \E d \in Deleters : PastTeardown(d))
    BY <1>1 DEF DeployPlain
  <2>2. lateWork' \/ \A d \in Deleters : ~PastTeardown(d)
    BY <2>1, Zenon
  <2> QED
    BY <2>1, <2>2 DEF PastTeardown, PlainAccounted, ObjectsAccounted, TornDown, Purged
<1>2. CASE RepositoryVanishes
  BY <1>2 DEF RepositoryVanishes, DeletionInv, PlainAccounted, ObjectsAccounted, TornDown, Purged
<1>3. CASE ~DeployPlain /\ ~RepositoryVanishes
  <2> DEFINE Still == /\ UNCHANGED <<projectRow, source, deleter, plain, objects>>
                      /\ waived => waived'
                      /\ lateWork => lateWork'
  <2>1. ASSUME QueueDeploy PROVE Still
    BY <2>1, Zenon DEF QueueDeploy
  <2>2. ASSUME LeaseDeploy PROVE Still
    BY <2>2, Zenon DEF LeaseDeploy
  <2>3. ASSUME QueueRemove PROVE Still
    BY <2>3, Zenon DEF QueueRemove
  <2>4. ASSUME LeaseRemove PROVE Still
    BY <2>4, Zenon DEF LeaseRemove
  <2>5. ASSUME CancelAndClean PROVE Still
    BY <2>5, Zenon DEF CancelAndClean
  <2>6. ASSUME SweepJobs PROVE Still
    BY <2>6, Zenon DEF SweepJobs
  <2>7. ASSUME DisconnectTarget PROVE Still
    BY <2>7, Zenon DEF DisconnectTarget
  <2>8. ASSUME ReconnectTarget PROVE Still
    BY <2>8, Zenon DEF ReconnectTarget
  <2>9. ASSUME AbandonDeployment PROVE Still
    BY <2>9, Zenon DEF AbandonDeployment
  <2>10. ASSUME NEW end \in DeployEnds, EndDeploy(end) PROVE Still
    BY <2>10, Zenon DEF EndDeploy
  <2>11. ASSUME NEW works \in BOOLEAN, EndRemove(works) PROVE Still
    BY <2>11, Zenon DEF EndRemove
  <2>12. Still
    BY <1>3, <2>1, <2>2, <2>3, <2>4, <2>5, <2>6, <2>7, <2>8, <2>9, <2>10, <2>11 DEF OutsideStep
  <2> QED
    BY <2>12 DEF DeletionInv, PlainAccounted, ObjectsAccounted, TornDown, Purged
<1> QED
  BY <1>1, <1>2, <1>3

-----------------------------------------------------------------------------
(* The steps of a deletion *)

\* Only deletion d moves, to the step `at` and with the debt and the action it had.
DeleterMoves(d, at) ==
    /\ deleter' \in [Deleters -> DeleterState]
    /\ deleter'[d].at = at
    /\ at # "idle" => deleter'[d].seen.managed = deleter[d].seen.managed
    /\ at \in {"debt", "check"} => deleter'[d].seen = deleter[d].seen
    /\ \A x \in Deleters : x # d => deleter'[x] = deleter[x]

(* Proceed() and Refuse(), in these terms. *)
LEMMA ProceedMoves ==
  ASSUME DeletionTypeOK, NEW d \in Deleters, NEW step \in DelSteps, Proceed(d, step)
  PROVE  DeleterMoves(d, step)
<1> DEFINE new == [deleter[d] EXCEPT !.at = step]
<1>1. deleter \in [Deleters -> DeleterState] /\ deleter[d] \in DeleterState
  BY DeletionFacts
<1>2. new \in DeleterState /\ new.at = step /\ new.seen = deleter[d].seen
  BY <1>1 DEF DeleterState
<1>3. deleter' = [deleter EXCEPT ![d] = new]
  BY DEF Proceed
<1> HIDE DEF new
<1> QED
  BY <1>1, <1>2, <1>3 DEF DeleterMoves

(* A deletion that ends, for whatever reason. *)
LEMMA RefuseMoves ==
  ASSUME DeletionTypeOK, NEW d \in Deleters, Refuse(d)
  PROVE  DeleterMoves(d, "idle")
<1>1. NotDeleting \in DeleterState /\ NotDeleting.at = "idle"
  BY DEF NotDeleting, DeleterState, DelSteps, RepoActions, RemoteRows
<1> QED
  BY <1>1, DeletionFacts DEF Refuse, DeleterMoves

(* A step of deletion d that leaves the row, the jobs and the server alone. *)
LEMMA MoveAccounted ==
  ASSUME DeletionInv, NEW d \in Deleters,
         UNCHANGED <<projectRow, remote, delJobs, agentHost>>,
         \A x \in Deleters : x # d => deleter'[x] = deleter[x],
         Excepted => Excepted',
         ~Excepted' => /\ Told(d)' /\ DeleterSettled(d)'
                       /\ deleter[d].at = "jobs" => delJobs.deploy \notin OpenJobs
  PROVE  UnmanagedIsQuiet' /\ AgentAccounted'
<1>1. UnmanagedIsQuiet'
  BY DEF DeletionInv, UnmanagedIsQuiet
<1>2. ASSUME ~Excepted'
      PROVE  HostIsRecorded' /\ SeenOrTold' /\ CheckedIsQuiet' /\ DeletedIsQuiet'
  <2>1. HostIsRecorded /\ SeenOrTold /\ CheckedIsQuiet /\ DeletedIsQuiet
    BY <1>2 DEF DeletionInv, AgentAccounted
  <2>2. HostIsRecorded' /\ DeletedIsQuiet'
    BY <1>2, <2>1 DEF HostIsRecorded, DeletedIsQuiet
  <2>3. ASSUME NEW x \in Deleters PROVE Told(x)' /\ DeleterSettled(x)'
    <3>1. CASE x = d
      BY <3>1, <1>2
    <3>2. CASE x # d
      BY <3>2, <2>1 DEF SeenOrTold, Told, CheckedIsQuiet, DeleterSettled
    <3> QED
      BY <3>1, <3>2
  <2> QED
    BY <2>2, <2>3 DEF SeenOrTold, CheckedIsQuiet
<1> QED
  BY <1>1, <1>2 DEF AgentAccounted

(* A deletion that ends is quiet. *)
LEMMA RefusedAccounted ==
  ASSUME DeletionInv, NEW d \in Deleters, Refuse(d),
         UNCHANGED <<projectRow, remote, delJobs, agentHost>>,
         Excepted => Excepted',
         ~Excepted' /\ deleter[d].at = "jobs" => delJobs.deploy \notin OpenJobs
  PROVE  UnmanagedIsQuiet' /\ AgentAccounted'
<1>1. DeleterMoves(d, "idle")
  BY RefuseMoves DEF DeletionInv
<1>2. Told(d)' /\ DeleterSettled(d)'
  BY <1>1 DEF DeleterMoves, Told, DeleterSettled, Unchecked
<1>3. \A x \in Deleters : x # d => deleter'[x] = deleter[x]
  BY <1>1 DEF DeleterMoves
<1> QED
  BY <1>2, <1>3, MoveAccounted

(* A deletion that has read the row is told of what happens to it. *)
LEMMA ReadAccounted ==
  ASSUME DeletionInv, NEW d \in Deleters, ReadProject(d)
  PROVE  UnmanagedIsQuiet' /\ AgentAccounted' /\ DeletionTypeOK'
<1>1. PICK action \in RepoActions, debt \in BOOLEAN :
        deleter' = [deleter EXCEPT ![d] = [at |-> "debt", action |-> action,
                                           debt |-> debt, seen |-> remote]]
  BY DEF ReadProject
<1> DEFINE new == [at |-> "debt", action |-> action, debt |-> debt, seen |-> remote]
<1>2. /\ deleter[d].at = "idle"
      /\ UNCHANGED <<projectRow, source, objects, remote, delJobs, agentHost, plain, delRequests,
                     waived, lateWork, disowned>>
  BY DEF ReadProject
<1>3. new \in DeleterState /\ new.at = "debt" /\ new.seen = remote
  BY DeletionFacts DEF DeletionInv, DeleterState, DelSteps
<1> HIDE DEF new
<1>4. /\ deleter' \in [Deleters -> DeleterState] /\ deleter'[d] = new
      /\ \A x \in Deleters : x # d => deleter'[x] = deleter[x]
  BY <1>1, <1>3, DeletionFacts DEF DeletionInv, new
<1>5. Excepted' = Excepted
  BY <1>2 DEF Excepted
<1>6. ASSUME ~Excepted PROVE Told(d)' /\ DeleterSettled(d)'
  BY <1>2, <1>3, <1>4, <1>6
     DEF DeletionInv, AgentAccounted, HostIsRecorded, UnmanagedIsQuiet, Told, DeleterSettled, Unchecked
<1>7. DeletionTypeOK'
  BY <1>2, <1>4, DeletionFacts DEF DeletionInv, DeletionTypeOK, DeleterState
<1> QED
  BY <1>2, <1>4, <1>5, <1>6, <1>7, MoveAccounted

(* The debt of a target that is not connected is accepted, or there is none. *)
LEMMA DebtAccounted ==
  ASSUME DeletionInv, NEW d \in Deleters, CheckDebt(d)
  PROVE  UnmanagedIsQuiet' /\ AgentAccounted' /\ DeletionTypeOK'
<1> DEFINE abandoned == ~deleter[d].seen.managed /\ HasDeploymentState(deleter[d].seen)
           accepted == deleter[d].debt \/ deleter[d].action = "gone"
<1>1. /\ deleter[d].at = "debt"
      /\ IF abandoned /\ ~accepted THEN Refuse(d) ELSE Proceed(d, "check")
      /\ waived' = (waived \/ (abandoned /\ accepted))
      /\ UNCHANGED <<projectRow, source, objects, remote, delJobs, agentHost, plain, delRequests,
                     lateWork, disowned>>
  BY DEF CheckDebt
<1>2. waived' \in BOOLEAN /\ (waived => waived') /\ (abandoned /\ accepted => waived')
  BY <1>1, Zenon
<1>3. Excepted => Excepted'
  BY <1>1, <1>2 DEF Excepted
<1>4. CASE abandoned /\ ~accepted
  <2>1. Refuse(d)
    BY <1>1, <1>4
  <2>2. deleter' \in [Deleters -> DeleterState]
    BY <2>1, RefuseMoves DEF DeletionInv, DeleterMoves
  <2>3. DeletionTypeOK'
    BY <1>1, <1>2, <2>2, DeletionFacts DEF DeletionInv, DeletionTypeOK, DeleterState
  <2> QED
    BY <1>1, <1>3, <2>1, <2>3, RefusedAccounted
<1>5. CASE ~(abandoned /\ ~accepted)
  <2>1. DeleterMoves(d, "check")
    BY <1>1, <1>5, ProceedMoves DEF DeletionInv, DelSteps
  <2>2. DeletionTypeOK'
    BY <1>1, <1>2, <2>1, DeletionFacts DEF DeletionInv, DeletionTypeOK, DeleterState, DeleterMoves
  <2>3. ASSUME ~Excepted' PROVE Told(d)' /\ DeleterSettled(d)'
    <3>1. ~Excepted /\ Told(d) /\ ~abandoned
      BY <1>1, <1>2, <1>3, <1>5, <2>3
         DEF DeletionInv, AgentAccounted, SeenOrTold, Excepted
    <3>2. deleter[d].seen.managed \/ ~deleter[d].seen.version
      BY <3>1 DEF HasDeploymentState
    <3> QED
      BY <1>1, <2>1, <3>1, <3>2 DEF Told, DeleterSettled, DeleterMoves, Unchecked
  <2> QED
    BY <1>1, <1>3, <2>1, <2>2, <2>3, MoveAccounted DEF DeleterMoves
<1> QED
  BY <1>4, <1>5

(* A deletion passes its last check only when nothing runs. *)
LEMMA CheckAccounted ==
  ASSUME DeletionInv, NEW d \in Deleters, CheckRemote(d)
  PROVE  UnmanagedIsQuiet' /\ AgentAccounted' /\ DeletionTypeOK'
<1> DEFINE refused == deleter[d].seen.managed /\ MayHoldRemoteWorkload(deleter[d].seen)
           new == [NotDeleting EXCEPT
                     !.at = "operations", !.action = deleter[d].action, !.debt = deleter[d].debt,
                     !.seen.managed = deleter[d].seen.managed]
<1>1. /\ deleter[d].at = "check"
      /\ IF refused THEN Refuse(d) ELSE deleter' = [deleter EXCEPT ![d] = new]
      /\ UNCHANGED <<projectRow, source, objects, remote, delJobs, agentHost, plain, delRequests,
                     waived, lateWork, disowned>>
  BY DEF CheckRemote
<1>2. Excepted' = Excepted
  BY <1>1 DEF Excepted
<1>3. CASE refused
  <2>1. Refuse(d)
    BY <1>1, <1>3
  <2>2. deleter' \in [Deleters -> DeleterState]
    BY <2>1, RefuseMoves DEF DeletionInv, DeleterMoves
  <2>3. DeletionTypeOK'
    BY <1>1, <2>2, DeletionFacts DEF DeletionInv, DeletionTypeOK, DeleterState
  <2> QED
    BY <1>1, <1>2, <2>1, <2>3, RefusedAccounted
<1>4. CASE ~refused
  <2>1. deleter[d] \in DeleterState
    BY DeletionFacts DEF DeletionInv
  <2>2. new \in DeleterState /\ new.at = "operations"
    BY <2>1 DEF NotDeleting, DeleterState, DelSteps, RepoActions, RemoteRows
  <2>3. deleter' = [deleter EXCEPT ![d] = new]
    BY <1>1, <1>4
  <2> HIDE DEF new
  <2>4. /\ deleter' \in [Deleters -> DeleterState] /\ deleter'[d].at = "operations"
        /\ \A x \in Deleters : x # d => deleter'[x] = deleter[x]
    BY <2>2, <2>3, DeletionFacts DEF DeletionInv
  <2>5. DeletionTypeOK'
    BY <1>1, <2>4, DeletionFacts DEF DeletionInv, DeletionTypeOK, DeleterState
  <2>6. ASSUME ~Excepted' PROVE Told(d)' /\ DeleterSettled(d)'
    <3>1. Told(d) /\ HostIsRecorded
      BY <1>2, <2>6 DEF DeletionInv, AgentAccounted, SeenOrTold
    <3>2. agentHost.runs # "served" /\ delJobs.deploy # "leased"
      BY <1>1, <1>4, <3>1 DEF Told, MayHoldRemoteWorkload, TellingDeploys, OpenJobs
    <3> QED
      BY <1>1, <2>4, <3>2 DEF Told, DeleterSettled
  <2> QED
    BY <1>1, <1>2, <2>4, <2>5, <2>6, MoveAccounted
<1> QED
  BY <1>3, <1>4

(* A deletion that cancels the operations has yet to fence their jobs. *)
LEMMA CancelAccounted ==
  ASSUME DeletionInv, NEW d \in Deleters, CancelOperations(d)
  PROVE  UnmanagedIsQuiet' /\ AgentAccounted' /\ DeletionTypeOK'
<1>1. /\ deleter[d].at = "operations" /\ Proceed(d, "jobs")
      /\ UNCHANGED <<projectRow, source, objects, delJobs, agentHost, plain, delRequests, waived,
                     lateWork, disowned>>
  BY DEF CancelOperations
<1>2. /\ remote' \in RemoteRows /\ remote'.managed = remote.managed
      /\ remote'.version = remote.version
  BY DeletionFacts DEF DeletionInv, CancelOperations, RemoteRows
<1>3. DeleterMoves(d, "jobs")
  BY <1>1, ProceedMoves DEF DeletionInv, DelSteps
<1>4. DeletionTypeOK'
  BY <1>1, <1>2, <1>3, DeletionFacts DEF DeletionInv, DeletionTypeOK, DeleterState, DeleterMoves
<1>5. UnmanagedIsQuiet'
  BY <1>1, <1>2 DEF DeletionInv, UnmanagedIsQuiet
<1>6. ASSUME ~Excepted'
      PROVE  HostIsRecorded' /\ SeenOrTold' /\ CheckedIsQuiet' /\ DeletedIsQuiet'
  <2>1. HostIsRecorded /\ SeenOrTold /\ CheckedIsQuiet /\ DeletedIsQuiet
    BY <1>1, <1>6 DEF DeletionInv, AgentAccounted, Excepted
  <2>2. HostIsRecorded' /\ DeletedIsQuiet'
    BY <1>1, <1>2, <1>3, <2>1 DEF HostIsRecorded, DeletedIsQuiet, DeleterMoves
  <2>3. SeenOrTold' /\ CheckedIsQuiet'
    BY <1>1, <1>2, <1>3, <2>1 DEF SeenOrTold, Told, CheckedIsQuiet, DeleterSettled, DeleterMoves, Unchecked
  <2> QED
    BY <2>2, <2>3
<1> QED
  BY <1>4, <1>5, <1>6 DEF AgentAccounted

(* Fencing the jobs leaves none of them unfinished. *)
LEMMA FenceAccounted ==
  ASSUME DeletionInv, NEW d \in Deleters, FenceJobs(d)
  PROVE  UnmanagedIsQuiet' /\ AgentAccounted' /\ DeletionTypeOK'
<1>1. /\ deleter[d].at = "jobs" /\ Proceed(d, "teardownAgent")
      /\ delJobs' = CancelledJobs
      /\ UNCHANGED <<projectRow, source, objects, remote, agentHost, plain, delRequests, waived,
                     lateWork, disowned>>
  BY DEF FenceJobs
<1>2. DeleterMoves(d, "teardownAgent")
  BY <1>1, ProceedMoves DEF DeletionInv, DelSteps
<1>3. /\ delJobs' \in JobsState /\ delJobs'.deploy \notin OpenJobs
      /\ delJobs'.earlier = delJobs.earlier
      /\ delJobs.deploy = "succeeded" => delJobs'.deploy = "succeeded"
  BY <1>1, CancelledFacts DEF DeletionInv
<1>4. DeletionTypeOK'
  BY <1>1, <1>2, <1>3, DeletionFacts
     DEF DeletionInv, DeletionTypeOK, DeleterState, JobsState, DeleterMoves
<1>5. UnmanagedIsQuiet'
  BY <1>3 DEF UnmanagedIsQuiet
<1>6. ASSUME ~Excepted'
      PROVE  HostIsRecorded' /\ SeenOrTold' /\ CheckedIsQuiet' /\ DeletedIsQuiet'
  <2>1. HostIsRecorded /\ SeenOrTold /\ CheckedIsQuiet /\ DeletedIsQuiet
    BY <1>1, <1>6 DEF DeletionInv, AgentAccounted, Excepted
  <2>2. agentHost.runs # "served" /\ agentHost.busy # "deploy"
    BY <1>1, <2>1 DEF HostIsRecorded, CheckedIsQuiet, DeleterSettled, Unchecked
  <2>3. HostIsRecorded' /\ DeletedIsQuiet'
    BY <1>1, <1>3, <2>2 DEF HostIsRecorded, DeletedIsQuiet
  <2>4. SeenOrTold' /\ CheckedIsQuiet'
    BY <1>1, <1>2, <1>3, <2>1, <2>2
       DEF SeenOrTold, Told, CheckedIsQuiet, DeleterSettled, DeleterMoves, Unchecked, OpenJobs
  <2> QED
    BY <2>3, <2>4
<1> QED
  BY <1>4, <1>5, <1>6 DEF AgentAccounted

(* The row of an Agent's environment may be emptied: the server is. *)
LEMMA TeardownAccounted ==
  ASSUME DeletionInv, NEW d \in Deleters, TeardownAgent(d)
  PROVE  UnmanagedIsQuiet' /\ AgentAccounted' /\ DeletionTypeOK'
<1>1. /\ deleter[d].at = "teardownAgent"
      /\ UNCHANGED <<projectRow, source, objects, delJobs, agentHost, plain, delRequests, waived,
                     lateWork, disowned>>
  BY DEF TeardownAgent
<1>2. \E at \in {"teardownPlain", "idle"} : DeleterMoves(d, at)
  BY ProceedMoves, RefuseMoves DEF DeletionInv, TeardownAgent, DelSteps
<1>3. remote' \in RemoteRows /\ remote'.managed = remote.managed
  BY DeletionFacts DEF DeletionInv, TeardownAgent, RemoteRows
<1>4. DeletionTypeOK'
  BY <1>1, <1>2, <1>3, DeletionFacts DEF DeletionInv, DeletionTypeOK, DeleterState, DeleterMoves
<1>5. UnmanagedIsQuiet'
  BY <1>1, <1>3 DEF DeletionInv, UnmanagedIsQuiet
<1>6. ASSUME ~Excepted'
      PROVE  HostIsRecorded' /\ SeenOrTold' /\ CheckedIsQuiet' /\ DeletedIsQuiet'
  <2>1. HostIsRecorded /\ SeenOrTold /\ CheckedIsQuiet /\ DeletedIsQuiet
    BY <1>1, <1>6 DEF DeletionInv, AgentAccounted, Excepted
  <2>2. agentHost.runs # "served" /\ delJobs.deploy \notin OpenJobs
    BY <1>1, <2>1 DEF CheckedIsQuiet, DeleterSettled, Unchecked
  <2>3. HostIsRecorded' /\ DeletedIsQuiet'
    BY <1>1, <2>1, <2>2 DEF HostIsRecorded, DeletedIsQuiet
  <2>4. SeenOrTold' /\ CheckedIsQuiet'
    BY <1>1, <1>2, <2>1, <2>2
       DEF SeenOrTold, Told, CheckedIsQuiet, DeleterSettled, DeleterMoves, Unchecked, OpenJobs
  <2> QED
    BY <2>3, <2>4
<1> QED
  BY <1>4, <1>5, <1>6 DEF AgentAccounted

(* The steps after the Agent's teardown touch neither its jobs nor its server. *)
LEMMA LaterAccounted ==
  ASSUME DeletionInv, NEW d \in Deleters,
         TeardownPlain(d) \/ PurgeObjects(d) \/ ReleaseSource(d)
  PROVE  UnmanagedIsQuiet' /\ AgentAccounted' /\ DeletionTypeOK'
<1>1. /\ deleter[d].at \in {"teardownPlain", "purge", "source"}
      /\ \E at \in {"purge", "source", "row", "idle"} : DeleterMoves(d, at)
  BY ProceedMoves, RefuseMoves
     DEF DeletionInv, TeardownPlain, PurgeObjects, ReleaseSource, DelSteps
<1>2. UNCHANGED <<projectRow, remote, delJobs, agentHost, delRequests, lateWork, disowned>>
  BY DEF TeardownPlain, PurgeObjects, ReleaseSource
<1>3. waived' \in BOOLEAN /\ (waived => waived')
  <2>1. CASE TeardownPlain(d)
    <3>1. \/ waived' = waived
          \/ waived' = (waived \/ (deleter[d].debt /\ projectRow = "present"))
      BY <2>1 DEF TeardownPlain
    <3>2. waived \in BOOLEAN
      BY DeletionFacts DEF DeletionInv
    <3>3. CASE waived' = waived
      BY <3>2, <3>3
    <3>4. CASE waived' = (waived \/ (deleter[d].debt /\ projectRow = "present"))
      BY <3>4, Zenon
    <3> QED
      BY <3>1, <3>3, <3>4
  <2>2. CASE PurgeObjects(d)
    <3>1. \/ waived' = waived
          \/ waived' = (waived \/ deleter[d].debt \/ deleter[d].action = "gone")
      BY <2>2 DEF PurgeObjects
    <3>2. waived \in BOOLEAN
      BY DeletionFacts DEF DeletionInv
    <3>3. CASE waived' = waived
      BY <3>2, <3>3
    <3>4. CASE waived' = (waived \/ deleter[d].debt \/ deleter[d].action = "gone")
      BY <3>4, Zenon
    <3> QED
      BY <3>1, <3>3, <3>4
  <2>3. CASE ReleaseSource(d)
    BY <2>3, DeletionFacts, Zenon DEF ReleaseSource, DeletionInv
  <2> QED
    BY <2>1, <2>2, <2>3
<1>4. /\ plain' \in {"empty", "up", "left", "unreached"} /\ objects' \in BOOLEAN
      /\ source' \in {"kept", "released", "gone"}
  BY DeletionFacts DEF DeletionInv, TeardownPlain, PurgeObjects, ReleaseSource, LeftOf
<1>5. DeletionTypeOK'
  BY <1>1, <1>2, <1>3, <1>4, DeletionFacts DEF DeletionInv, DeletionTypeOK, DeleterState, DeleterMoves
<1>6. Excepted => Excepted'
  BY <1>2, <1>3 DEF Excepted
<1>7. ASSUME ~Excepted' PROVE Told(d)' /\ DeleterSettled(d)'
  <2>1. DeleterSettled(d)
    BY <1>6, <1>7 DEF DeletionInv, AgentAccounted, CheckedIsQuiet
  <2> QED
    BY <1>1, <1>2, <2>1 DEF Told, DeleterSettled, DeleterMoves, Unchecked
<1> QED
  BY <1>1, <1>2, <1>5, <1>6, <1>7, MoveAccounted DEF DeleterMoves

(* The row is deleted when the checks and the fences are behind. *)
LEMMA DeleteAccounted ==
  ASSUME DeletionInv, NEW d \in Deleters, DeleteRow(d)
  PROVE  UnmanagedIsQuiet' /\ AgentAccounted' /\ DeletionTypeOK'
<1>1. /\ deleter[d].at = "row" /\ projectRow' = "deleted" /\ Refuse(d)
      /\ UNCHANGED <<source, objects, remote, delJobs, agentHost, plain, delRequests, waived,
                     lateWork, disowned>>
  BY DEF DeleteRow
<1>2. DeleterMoves(d, "idle")
  BY <1>1, RefuseMoves DEF DeletionInv
<1>3. DeletionTypeOK'
  BY <1>1, <1>2, DeletionFacts DEF DeletionInv, DeletionTypeOK, DeleterState, DeleterMoves
<1>4. UnmanagedIsQuiet'
  BY <1>1 DEF DeletionInv, UnmanagedIsQuiet
<1>5. ASSUME ~Excepted'
      PROVE  HostIsRecorded' /\ SeenOrTold' /\ CheckedIsQuiet' /\ DeletedIsQuiet'
  <2>1. HostIsRecorded /\ SeenOrTold /\ CheckedIsQuiet /\ DeletedIsQuiet
    BY <1>1, <1>5 DEF DeletionInv, AgentAccounted, Excepted
  <2>2. agentHost.runs # "served" /\ delJobs.deploy \notin OpenJobs
    BY <1>1, <2>1 DEF CheckedIsQuiet, DeleterSettled, Unchecked
  <2>3. HostIsRecorded' /\ DeletedIsQuiet'
    BY <1>1, <2>1, <2>2 DEF HostIsRecorded, DeletedIsQuiet
  <2>4. SeenOrTold' /\ CheckedIsQuiet'
    BY <1>1, <1>2, <2>1 DEF SeenOrTold, Told, CheckedIsQuiet, DeleterSettled, DeleterMoves, Unchecked
  <2> QED
    BY <2>3, <2>4
<1> QED
  BY <1>3, <1>4, <1>5 DEF AgentAccounted

(* A deletion that stops before it has fenced the jobs leaves a mark. *)
LEMMA StopAccounted ==
  ASSUME DeletionInv, NEW d \in Deleters, DeletionStops(d)
  PROVE  UnmanagedIsQuiet' /\ AgentAccounted' /\ DeletionTypeOK'
<1>1. /\ Refuse(d)
      /\ disowned' = (disowned \/ (deleter[d].at = "jobs" /\ delJobs.deploy \in OpenJobs))
      /\ UNCHANGED <<projectRow, source, objects, remote, delJobs, agentHost, plain, delRequests,
                     waived, lateWork>>
  BY DEF DeletionStops
<1>2. /\ disowned' \in BOOLEAN /\ (disowned => disowned')
      /\ deleter[d].at = "jobs" /\ delJobs.deploy \in OpenJobs => disowned'
  BY <1>1, Zenon
<1>3. DeleterMoves(d, "idle")
  BY <1>1, RefuseMoves DEF DeletionInv
<1>4. DeletionTypeOK'
  BY <1>1, <1>2, <1>3, DeletionFacts DEF DeletionInv, DeletionTypeOK, DeleterState, DeleterMoves
<1> QED
  BY <1>1, <1>2, <1>4, RefusedAccounted DEF Excepted

\* The steps of a deletion.
DeleterStep(d) ==
    \/ ReadProject(d) \/ CheckDebt(d) \/ CheckRemote(d) \/ CancelOperations(d) \/ FenceJobs(d)
    \/ TeardownAgent(d) \/ TeardownPlain(d) \/ PurgeObjects(d) \/ ReleaseSource(d)
    \/ DeleteRow(d) \/ DeletionStops(d)

\* That touch neither what InitPad deploys itself nor what it stores.
EarlyStep(d) ==
    \/ ReadProject(d) \/ CheckDebt(d) \/ CheckRemote(d) \/ CancelOperations(d) \/ FenceJobs(d)
    \/ TeardownAgent(d) \/ DeletionStops(d)

(* They keep the account of the environment InitPad deploys itself and of the objects. *)
LEMMA EarlyPlain ==
  ASSUME DeletionInv, NEW d \in Deleters, EarlyStep(d)
  PROVE  PlainAccounted' /\ ObjectsAccounted'
<1> DEFINE Early == {"idle", "debt", "check", "operations", "jobs", "teardownAgent",
                     "teardownPlain"}
<1>1. /\ deleter'[d].at \in Early
      /\ \A x \in Deleters : x # d => deleter'[x] = deleter[x]
  <2>1. CASE ReadProject(d)
    BY <2>1, DeletionFacts DEF ReadProject, DeletionInv
  <2>2. CASE CheckDebt(d)
    BY <2>2, ProceedMoves, RefuseMoves DEF CheckDebt, DeletionInv, DelSteps, DeleterMoves
  <2>3. CASE CheckRemote(d)
    <3> DEFINE new == [NotDeleting EXCEPT
                         !.at = "operations", !.action = deleter[d].action,
                         !.debt = deleter[d].debt, !.seen.managed = deleter[d].seen.managed]
    <3>1. Refuse(d) \/ deleter' = [deleter EXCEPT ![d] = new]
      BY <2>3 DEF CheckRemote
    <3>2. new.at = "operations"
      BY DEF NotDeleting
    <3> HIDE DEF new
    <3> QED
      BY <3>1, <3>2, RefuseMoves, DeletionFacts DEF DeletionInv, DeleterMoves
  <2>4. CASE CancelOperations(d) \/ FenceJobs(d) \/ TeardownAgent(d) \/ DeletionStops(d)
    BY <2>4, ProceedMoves, RefuseMoves
       DEF CancelOperations, FenceJobs, TeardownAgent, DeletionStops, DeletionInv, DelSteps, DeleterMoves
  <2> QED
    BY <2>1, <2>2, <2>3, <2>4 DEF EarlyStep
<1>2. /\ UNCHANGED <<projectRow, source, objects, plain, lateWork>>
      /\ waived => waived'
  <2>1. CASE CheckDebt(d)
    BY <2>1, Zenon DEF CheckDebt
  <2>2. CASE ~CheckDebt(d)
    BY <2>2 DEF EarlyStep, ReadProject, CheckRemote, CancelOperations, FenceJobs, TeardownAgent,
                DeletionStops
  <2> QED
    BY <2>1, <2>2
<1> QED
  BY <1>1, <1>2 DEF DeletionInv, PlainAccounted, ObjectsAccounted, TornDown, Purged

(* The teardown leaves nothing, or something that was accepted, when it goes on. *)
LEMMA TeardownPlainStep ==
  ASSUME DeletionInv, NEW d \in Deleters, TeardownPlain(d)
  PROVE  PlainAccounted' /\ ObjectsAccounted'
<1>1. /\ deleter[d].at = "teardownPlain"
      /\ UNCHANGED <<projectRow, source, objects, lateWork>>
      /\ plain' = "up" => plain = "up"
      /\ plain' = "left" => plain \in {"up", "left"}
  BY DeletionFacts DEF DeletionInv, TeardownPlain, LeftOf
<1>2. \/ DeleterMoves(d, "idle") /\ waived' = waived
      \/ /\ DeleterMoves(d, "purge")
         /\ plain' \in {"empty", "unreached"} /\ waived' = waived
      \/ /\ DeleterMoves(d, "purge")
         /\ plain' # "up" /\ waived' = TRUE
  <2> DEFINE accepted == deleter[d].debt /\ projectRow = "present"
  <2>1. CASE /\ plain' \in {"empty", "unreached"} /\ UNCHANGED waived
             /\ IF projectRow = "present" THEN Proceed(d, "purge") ELSE Refuse(d)
    BY <2>1, ProceedMoves, RefuseMoves DEF DeletionInv, DelSteps
  <2>2. CASE /\ plain' = LeftOf(plain)
             /\ IF accepted THEN Proceed(d, "purge") ELSE Refuse(d)
             /\ waived' = (waived \/ accepted)
    <3>1. CASE accepted
      BY <2>2, <3>1, ProceedMoves DEF DeletionInv, DelSteps, LeftOf
    <3>2. CASE ~accepted
      <4>1. waived \in BOOLEAN
        BY DeletionFacts DEF DeletionInv
      <4> QED
        BY <2>2, <3>2, <4>1, RefuseMoves DEF DeletionInv
    <3> QED
      BY <3>1, <3>2
  <2>3. CASE Refuse(d) /\ UNCHANGED <<plain, waived>>
    BY <2>3, RefuseMoves DEF DeletionInv
  <2> QED
    BY <2>1, <2>2, <2>3 DEF TeardownPlain
<1>3. CASE DeleterMoves(d, "idle") /\ waived' = waived
  BY <1>1, <1>3 DEF DeletionInv, PlainAccounted, ObjectsAccounted, TornDown, Purged, DeleterMoves
<1>4. CASE DeleterMoves(d, "purge") /\ plain' \in {"empty", "unreached"} /\ waived' = waived
  BY <1>1, <1>4 DEF DeletionInv, PlainAccounted, ObjectsAccounted, TornDown, Purged, DeleterMoves
<1>5. CASE DeleterMoves(d, "purge") /\ plain' # "up" /\ waived' = TRUE
  BY <1>1, <1>5 DEF DeletionInv, PlainAccounted, ObjectsAccounted, TornDown, Purged, DeleterMoves
<1> QED
  BY <1>2, <1>3, <1>4, <1>5

(* The objects are purged, or their loss was accepted, before source control is touched. *)
LEMMA PurgeStep ==
  ASSUME DeletionInv, NEW d \in Deleters, PurgeObjects(d)
  PROVE  PlainAccounted' /\ ObjectsAccounted'
<1> DEFINE accepts == deleter[d].debt \/ deleter[d].action = "gone"
<1>1. /\ deleter[d].at = "purge"
      /\ UNCHANGED <<projectRow, source, plain, lateWork>>
  BY DEF PurgeObjects
<1>2. \/ DeleterMoves(d, "source") /\ objects' = FALSE /\ waived' = waived
      \/ DeleterMoves(d, "idle") /\ objects' = objects /\ (waived => waived')
      \/ DeleterMoves(d, "source") /\ objects' = objects /\ waived'
  <2>1. CASE objects' = FALSE /\ Proceed(d, "source") /\ UNCHANGED waived
    BY <2>1, ProceedMoves DEF DeletionInv, DelSteps
  <2>2. CASE /\ UNCHANGED objects
             /\ IF StorageStops(d) THEN Refuse(d) ELSE Proceed(d, "source")
             /\ waived' = (waived \/ deleter[d].debt \/ deleter[d].action = "gone")
    <3>1. (waived => waived') /\ (accepts => waived')
      BY <2>2, Zenon
    <3>2. CASE StorageStops(d)
      BY <2>2, <3>1, <3>2, RefuseMoves DEF DeletionInv
    <3>3. CASE ~StorageStops(d)
      BY <2>2, <3>1, <3>3, ProceedMoves DEF DeletionInv, DelSteps, StorageStops
    <3> QED
      BY <3>2, <3>3
  <2> QED
    BY <2>1, <2>2 DEF PurgeObjects
<1>3. CASE DeleterMoves(d, "source") /\ objects' = FALSE /\ waived' = waived
  BY <1>1, <1>3 DEF DeletionInv, PlainAccounted, ObjectsAccounted, TornDown, Purged, DeleterMoves
<1>4. CASE DeleterMoves(d, "idle") /\ objects' = objects /\ (waived => waived')
  BY <1>1, <1>4 DEF DeletionInv, PlainAccounted, ObjectsAccounted, TornDown, Purged, DeleterMoves
<1>5. CASE DeleterMoves(d, "source") /\ objects' = objects /\ waived'
  BY <1>1, <1>5 DEF DeletionInv, PlainAccounted, ObjectsAccounted, TornDown, Purged, DeleterMoves
<1> QED
  BY <1>2, <1>3, <1>4, <1>5

(* Then the repository and the row go, which changes nothing of either account. *)
LEMMA LastSteps ==
  ASSUME DeletionInv, NEW d \in Deleters, ReleaseSource(d) \/ DeleteRow(d)
  PROVE  PlainAccounted' /\ ObjectsAccounted'
<1>1. UNCHANGED <<objects, plain, lateWork, waived>>
  BY DEF ReleaseSource, DeleteRow
<1>2. CASE ReleaseSource(d)
  <2>1. /\ deleter[d].at = "source" /\ projectRow' = projectRow
        /\ DeleterMoves(d, "row") \/ DeleterMoves(d, "idle")
    BY <1>2, ProceedMoves, RefuseMoves DEF ReleaseSource, DeletionInv, DelSteps
  <2> QED
    BY <1>1, <2>1 DEF DeletionInv, PlainAccounted, ObjectsAccounted, TornDown, Purged, DeleterMoves
<1>3. CASE DeleteRow(d)
  <2>1. deleter[d].at = "row" /\ source' = source /\ DeleterMoves(d, "idle")
    BY <1>3, RefuseMoves DEF DeleteRow, DeletionInv
  <2> QED
    BY <1>1, <2>1 DEF DeletionInv, PlainAccounted, ObjectsAccounted, TornDown, Purged, DeleterMoves
<1> QED
  BY <1>2, <1>3

(* The invariant of a project's deletion: what runs is accounted for.  Every step of *)
(* DeletionNext preserves it, for every number of deletions and requests.            *)
LEMMA DeletionStepKeeps ==
  ASSUME DeletionInv, [DeletionNext]_deletionVars
  PROVE  DeletionInv'
<1>1. CASE OutsideStep
  BY <1>1, OutsideTypes, OutsideAccount, OutsidePlain DEF DeletionInv
<1>2. ASSUME NEW d \in Deleters, DeleterStep(d)
      PROVE  DeletionInv'
  <2>1. UnmanagedIsQuiet' /\ AgentAccounted' /\ DeletionTypeOK'
    BY <1>2, ReadAccounted, DebtAccounted, CheckAccounted, CancelAccounted, FenceAccounted,
       TeardownAccounted, LaterAccounted, DeleteAccounted, StopAccounted DEF DeleterStep
  <2>2. PlainAccounted' /\ ObjectsAccounted'
    BY <1>2, EarlyPlain, TeardownPlainStep, PurgeStep, LastSteps DEF DeleterStep, EarlyStep
  <2> QED
    BY <2>1, <2>2 DEF DeletionInv
<1>3. CASE UNCHANGED deletionVars
  BY <1>3 DEF deletionVars, DeletionInv, DeletionTypeOK, UnmanagedIsQuiet, AgentAccounted, Excepted,
       HostIsRecorded, SeenOrTold, Told, CheckedIsQuiet, DeleterSettled, DeletedIsQuiet,
       PlainAccounted, TornDown, ObjectsAccounted, Purged
<1> QED
  BY <1>1, <1>2, <1>3 DEF DeletionNext, OutsideStep, DeleterStep

(* What runs on the Agent's server, what InitPad has deployed itself and what it has  *)
(* stored is accounted for at every step of every deletion (ProjectDeletion.execute). *)
THEOREM DeletionInvariant == DeletionSpec => []DeletionInv
<1>1. DeletionInit => DeletionInv
  <2> SUFFICES ASSUME DeletionInit PROVE DeletionInv
    OBVIOUS
  <2>1. NotDeleting \in DeleterState /\ NotDeleting.at = "idle"
    BY DEF NotDeleting, DeleterState, DelSteps, RepoActions, RemoteRows
  <2>2. /\ deleter \in [Deleters -> DeleterState]
        /\ \A d \in Deleters : deleter[d].at = "idle"
    BY <2>1 DEF DeletionInit
  <2>3. DeletionTypeOK
    <3>1. /\ remote \in RemoteRows /\ delJobs \in JobsState /\ agentHost \in HostState
          /\ delRequests \in 0 .. MaxDelRequests
      BY DeletersAssumption
         DEF DeletionInit, RemoteRows, DelJobStates, JobsState, HostState, Runs
    <3>2. /\ projectRow = "present" /\ source = "kept" /\ objects = TRUE /\ plain = "up"
          /\ waived = FALSE /\ lateWork = FALSE /\ disowned = FALSE
      BY DEF DeletionInit
    <3> QED
      BY <2>2, <3>1, <3>2 DEF DeletionTypeOK, DeleterState, JobsState, HostState
  <2> QED
    BY <2>2, <2>3 DEF DeletionInit, DeletionInv, UnmanagedIsQuiet, AgentAccounted, HostIsRecorded,
         OpenJobs, SeenOrTold, Told, CheckedIsQuiet, DeleterSettled, Unchecked, DeletedIsQuiet,
         PlainAccounted, TornDown, ObjectsAccounted, Purged
<1> QED
  BY <1>1, DeletionStepKeeps, PTL DEF DeletionSpec

(* Nothing that a deploy was to serve outlives a deleted project unless somebody     *)
(* accepted it or one of the named races took place; what a failed deploy left       *)
(* behind is not counted (mayHoldRemoteWorkload, and execute's order of steps).      *)
THEOREM NothingIsLeft == DeletionSpec => []DeletedLeavesNothing
<1>1. DeletionInv => DeletedLeavesNothing
  BY DEF DeletionInv, AgentAccounted, Excepted, DeletedIsQuiet, PlainAccounted, TornDown,
         DeletedLeavesNothing
<1> QED
  BY <1>1, DeletionInvariant, PTL

(* The repository is released after the stored artifacts are gone, or their loss was *)
(* accepted, or another build came in between (the order of execute()).              *)
THEOREM SourceGoesLast == DeletionSpec => []SourceOutlivesArtifacts
<1>1. DeletionInv => SourceOutlivesArtifacts
  BY DEF DeletionInv, ObjectsAccounted, Purged, SourceOutlivesArtifacts
<1> QED
  BY <1>1, DeletionInvariant, PTL

-----------------------------------------------------------------------------
(* DirectHost *)

SiteState == [folder : Trees, staging : Trees, release : [Builds -> Trees],
              link : Builds \cup {NoBuild}, box : Builds \cup {NoBuild}, up : BOOLEAN]
Orders == [does : {"none", "deploy", "start", "stop", "remove", "undo"},
           build : Builds \cup {NoBuild}, was : Statuses, begun : BOOLEAN,
           todo : Seq(Commands), result : {"ok", "failed", "thrown"}, cancelled : BOOLEAN]

\* A release that is all there is the one its folder is named for.
ReleasesOwn == \A b \in Builds : site.release[b].whole => site.release[b].build = b

\* What start() needs of the host; it serves nothing new from a user's folder.
Startable(b) ==
    /\ hostKind = "link" => b \in Builds /\ site.release[b] = Whole(b)
    /\ hostKind = "docker" => site.box = b

\* What a row with this status and version promises of the host.
KeptAs(status, b) ==
    /\ status = "running" => Served = Whole(b)
    /\ status = "stopped" => Startable(b)

(* The commands that are left, and what the ones before them have achieved. *)
DeployCourse(t, b) ==
    \/ /\ hostKind = "shell"
       /\ t \in {<<"connect", "unpack", "swap", "probe">>, <<"unpack", "swap", "probe">>}
    \/ /\ hostKind = "shell" /\ site.staging = Whole(b)
       /\ t = <<"swap", "probe">>
    \/ /\ hostKind = "files"
       /\ t \in {<<"connect", "stage", "empty", "rename", "probe">>,
                 <<"stage", "empty", "rename", "probe">>}
    \/ /\ hostKind = "files" /\ site.staging = Whole(b)
       /\ t \in {<<"empty", "rename", "probe">>, <<"rename", "probe">>}
    \/ /\ hostKind = "link"
       /\ t \in {<<"connect", "upload", "unlink", "symlink", "probe">>,
                 <<"upload", "unlink", "symlink", "probe">>}
    \/ /\ hostKind = "link" /\ site.release[b] = Whole(b)
       /\ t \in {<<"unlink", "symlink", "probe">>, <<"symlink", "probe">>}
    \/ /\ hostKind = "docker"
       /\ t \in {<<"connect", "discard", "run", "probe">>, <<"discard", "run", "probe">>,
                 <<"run", "probe">>}
    \/ t \in {<<"probe">>, <<>>} /\ Served = Whole(b)

StartCourse(t, b) ==
    \/ /\ Startable(b) /\ hostKind = "docker"
       /\ t \in {<<"connect", "boot", "probe">>, <<"boot", "probe">>}
    \/ /\ Startable(b) /\ hostKind # "docker"
       /\ t \in {<<"connect", "unlink", "symlink", "probe">>,
                 <<"unlink", "symlink", "probe">>, <<"symlink", "probe">>}
    \/ t \in {<<"probe">>, <<>>} /\ Served = Whole(b)

StopCourse(t, b) ==
    \/ /\ Served = Whole(b)
       /\ t \in {<<"connect", "halt">>, <<"halt">>, <<"connect", "unlink">>, <<"unlink">>}
    \/ t = <<>> /\ Startable(b)

RemoveCourse(t, status, b) ==
    \/ /\ KeptAs(status, b)
       /\ t \in {<<"connect", "wipe", "wipeData">>, <<"wipe", "wipeData">>,
                 <<"connect", "empty">>, <<"empty">>,
                 <<"connect", "unlink", "purge">>, <<"unlink", "purge">>,
                 <<"connect", "discard">>, <<"discard">>}
    \/ t \in {<<"wipeData">>, <<"purge">>, <<>>}

\* The work of an operation: what is behind it if it may still succeed, and
\* what it has left as it was if it has failed.
OnCourse(order) ==
    /\ order.result = "ok" =>
         /\ order.does = "deploy" => DeployCourse(order.todo, order.build)
         /\ order.does = "start" => StartCourse(order.todo, order.build)
         /\ order.does = "stop" => StopCourse(order.todo, order.build)
         /\ order.does = "remove" => RemoveCourse(order.todo, order.was, order.build)
    /\ order.result # "ok" =>
         /\ order.todo = <<>>
         /\ order.does \in {"stop", "remove"} => KeptAs(order.was, order.build)

\* What a request may have asked for before it begins.
WellAsked(order) ==
    /\ order.does # "undo" /\ order.result = "ok"
    /\ order.does \in {"deploy", "start"} => order.build \in Builds
    /\ order.does = "start" => order.was = "stopped"
    /\ order.does = "stop" => order.was = "running"

\* One worker at a time has begun, and it holds the lock; the row waits for it.
OneAtWork == \A w \in SiteWorkers : direct[w].begun => siteLock = w
AskedForm == \A w \in SiteWorkers : ~direct[w].begun => WellAsked(direct[w])
WorkOnCourse ==
    \A w \in SiteWorkers : direct[w].begun =>
        /\ OnCourse(direct[w])
        /\ direct[w].does \in {"deploy", "start"} => direct[w].build \in Builds
        /\ direct[w].does \in {"start", "stop", "remove"} => shown.build = direct[w].build
AtRest == siteLock = 0 => KeptAs(shown.status, shown.build)

\* Who has begun has been asked for something.
BegunDoes == \A w \in SiteWorkers : direct[w].begun => direct[w].does # "none"

SiteInv ==
    /\ SiteTypeOK
    /\ ReleasesOwn
    /\ BegunDoes
    /\ siteUpsets = {} => OneAtWork /\ AskedForm /\ WorkOnCourse /\ AtRest

\* What may follow a command that succeeds, by the operation and what is behind it.
DeployGoesOn(c, rest, b) ==
    \/ c \in {"connect", "probe"} /\ DeployCourse(rest, b)
    \/ c = "unpack" /\ hostKind = "shell" /\ rest = <<"swap", "probe">>
    \/ c = "swap" /\ hostKind = "shell" /\ site.staging = Whole(b) /\ rest = <<"probe">>
    \/ c = "stage" /\ hostKind = "files" /\ rest = <<"empty", "rename", "probe">>
    \/ c = "empty" /\ hostKind = "files" /\ site.staging = Whole(b)
       /\ rest = <<"rename", "probe">>
    \/ c = "rename" /\ hostKind = "files" /\ site.staging = Whole(b) /\ rest = <<"probe">>
    \/ c = "upload" /\ hostKind = "link" /\ rest = <<"unlink", "symlink", "probe">>
    \/ c = "unlink" /\ hostKind = "link" /\ site.release[b] = Whole(b)
       /\ rest = <<"symlink", "probe">>
    \/ c = "symlink" /\ hostKind = "link" /\ site.release[b] = Whole(b) /\ rest = <<"probe">>
    \/ c = "discard" /\ hostKind = "docker" /\ rest = <<"run", "probe">>
    \/ c = "run" /\ hostKind = "docker" /\ rest = <<"probe">>

StartGoesOn(c, rest, b) ==
    \/ c \in {"connect", "probe"} /\ StartCourse(rest, b)
    \/ c = "boot" /\ hostKind = "docker" /\ Startable(b) /\ rest = <<"probe">>
    \/ c = "unlink" /\ hostKind # "docker" /\ Startable(b) /\ rest = <<"symlink", "probe">>
    \/ c = "symlink" /\ hostKind # "docker" /\ Startable(b) /\ rest = <<"probe">>

StopGoesOn(c, rest, b) ==
    /\ Served = Whole(b)
    /\ \/ c = "connect" /\ rest \in {<<"halt">>, <<"unlink">>}
       \/ c \in {"halt", "unlink"} /\ rest = <<>>

RemoveGoesOn(c, rest, status, b) ==
    \/ /\ KeptAs(status, b)
       /\ \/ c = "connect" /\ RemoveCourse(rest, status, b)
          \/ c \in {"empty", "discard"} /\ rest = <<>>
          \/ c = "wipe" /\ rest = <<"wipeData">>
          \/ c = "unlink" /\ rest = <<"purge">>
    \/ c \in {"wipeData", "purge"} /\ rest = <<>>

(* Which command comes next tells how far the work has come. *)
LEMMA DeployAt ==
  ASSUME NEW t, NEW b, DeployCourse(t, b), t # <<>>
  PROVE  DeployGoesOn(Head(t), Tail(t), b)
<1> USE DEF DeployCourse, DeployGoesOn
<1>1. CASE hostKind = "shell" /\ t = <<"connect", "unpack", "swap", "probe">>
  BY <1>1
<1>2. CASE hostKind = "shell" /\ t = <<"unpack", "swap", "probe">>
  BY <1>2
<1>3. CASE hostKind = "shell" /\ site.staging = Whole(b) /\ t = <<"swap", "probe">>
  BY <1>3
<1>4. CASE hostKind = "files" /\ t = <<"connect", "stage", "empty", "rename", "probe">>
  BY <1>4
<1>5. CASE hostKind = "files" /\ t = <<"stage", "empty", "rename", "probe">>
  BY <1>5
<1>6. CASE hostKind = "files" /\ site.staging = Whole(b) /\ t = <<"empty", "rename", "probe">>
  BY <1>6
<1>7. CASE hostKind = "files" /\ site.staging = Whole(b) /\ t = <<"rename", "probe">>
  BY <1>7
<1>8. CASE hostKind = "link" /\ t = <<"connect", "upload", "unlink", "symlink", "probe">>
  BY <1>8
<1>9. CASE hostKind = "link" /\ t = <<"upload", "unlink", "symlink", "probe">>
  BY <1>9
<1>10. CASE /\ hostKind = "link" /\ site.release[b] = Whole(b)
            /\ t = <<"unlink", "symlink", "probe">>
  BY <1>10
<1>11. CASE hostKind = "link" /\ site.release[b] = Whole(b) /\ t = <<"symlink", "probe">>
  BY <1>11
<1>12. CASE hostKind = "docker" /\ t = <<"connect", "discard", "run", "probe">>
  BY <1>12
<1>13. CASE hostKind = "docker" /\ t = <<"discard", "run", "probe">>
  BY <1>13
<1>14. CASE hostKind = "docker" /\ t = <<"run", "probe">>
  BY <1>14
<1>15. CASE t = <<"probe">> /\ Served = Whole(b)
  BY <1>15
<1> QED
  BY <1>1, <1>2, <1>3, <1>4, <1>5, <1>6, <1>7, <1>8, <1>9, <1>10, <1>11, <1>12, <1>13, <1>14,
     <1>15

(* The command that a start is at, and what it has left. *)
LEMMA StartAt ==
  ASSUME NEW t, NEW b, StartCourse(t, b), t # <<>>
  PROVE  StartGoesOn(Head(t), Tail(t), b)
<1> USE DEF StartCourse, StartGoesOn
<1>1. CASE Startable(b) /\ hostKind = "docker" /\ t = <<"connect", "boot", "probe">>
  BY <1>1
<1>2. CASE Startable(b) /\ hostKind = "docker" /\ t = <<"boot", "probe">>
  BY <1>2
<1>3. CASE Startable(b) /\ hostKind # "docker" /\ t = <<"connect", "unlink", "symlink", "probe">>
  BY <1>3
<1>4. CASE Startable(b) /\ hostKind # "docker" /\ t = <<"unlink", "symlink", "probe">>
  BY <1>4
<1>5. CASE Startable(b) /\ hostKind # "docker" /\ t = <<"symlink", "probe">>
  BY <1>5
<1>6. CASE t = <<"probe">> /\ Served = Whole(b)
  BY <1>6
<1> QED
  BY <1>1, <1>2, <1>3, <1>4, <1>5, <1>6

(* The same for a stop. *)
LEMMA StopAt ==
  ASSUME NEW t, NEW b, StopCourse(t, b), t # <<>>
  PROVE  StopGoesOn(Head(t), Tail(t), b)
<1> USE DEF StopCourse, StopGoesOn
<1>1. CASE Served = Whole(b) /\ t = <<"connect", "halt">>
  BY <1>1
<1>2. CASE Served = Whole(b) /\ t = <<"halt">>
  BY <1>2
<1>3. CASE Served = Whole(b) /\ t = <<"connect", "unlink">>
  BY <1>3
<1>4. CASE Served = Whole(b) /\ t = <<"unlink">>
  BY <1>4
<1> QED
  BY <1>1, <1>2, <1>3, <1>4

(* The same for a removal. *)
LEMMA RemoveAt ==
  ASSUME NEW t, NEW status, NEW b, RemoveCourse(t, status, b), t # <<>>
  PROVE  RemoveGoesOn(Head(t), Tail(t), status, b)
<1> USE DEF RemoveCourse, RemoveGoesOn
<1>1. CASE KeptAs(status, b) /\ t = <<"connect", "wipe", "wipeData">>
  BY <1>1
<1>2. CASE KeptAs(status, b) /\ t = <<"wipe", "wipeData">>
  BY <1>2
<1>3. CASE KeptAs(status, b) /\ t = <<"connect", "empty">>
  BY <1>3
<1>4. CASE KeptAs(status, b) /\ t = <<"empty">>
  BY <1>4
<1>5. CASE KeptAs(status, b) /\ t = <<"connect", "unlink", "purge">>
  BY <1>5
<1>6. CASE KeptAs(status, b) /\ t = <<"unlink", "purge">>
  BY <1>6
<1>7. CASE KeptAs(status, b) /\ t = <<"connect", "discard">>
  BY <1>7
<1>8. CASE KeptAs(status, b) /\ t = <<"discard">>
  BY <1>8
<1>9. CASE t = <<"wipeData">>
  BY <1>9
<1>10. CASE t = <<"purge">>
  BY <1>10
<1> QED
  BY <1>1, <1>2, <1>3, <1>4, <1>5, <1>6, <1>7, <1>8, <1>9, <1>10

(* What is served, by the kind of host (the CASE of Served), now and after a step. *)
LEMMA ServedFacts ==
  /\ hostKind \in {"shell", "files"} => Served = site.folder
  /\ hostKind = "link" /\ site.link = NoBuild => Served = NoTree
  /\ hostKind = "link" /\ site.link # NoBuild => Served = site.release[site.link]
  /\ hostKind = "docker" /\ site.up => Served = Whole(site.box)
  /\ hostKind = "docker" /\ ~site.up => Served = NoTree
  BY DEF Served

(* What is served after a step. *)
LEMMA ServedNext ==
  /\ hostKind' \in {"shell", "files"} => Served' = site'.folder
  /\ hostKind' = "link" /\ site'.link = NoBuild => Served' = NoTree
  /\ hostKind' = "link" /\ site'.link # NoBuild => Served' = site'.release[site'.link]
  /\ hostKind' = "docker" /\ site'.up => Served' = Whole(site'.box)
  /\ hostKind' = "docker" /\ ~site'.up => Served' = NoTree
  BY DEF Served

(* Trees that are whole, and trees that are not. *)
LEMMA TreeFacts ==
  /\ NoTree \in Trees /\ ~NoTree.whole
  /\ \A b \in Builds \cup {NoBuild} :
       /\ Whole(b) \in Trees /\ Whole(b).whole /\ Whole(b).build = b
       /\ Part(b) \in Trees /\ ~Part(b).whole
  /\ \A b, c : Whole(b) = Whole(c) => b = c
  /\ \A b : Whole(b) # NoTree
  /\ EmptySite \in SiteState
  /\ \A b \in Builds : EmptySite.release[b] = NoTree
<1>1. NoTree \in Trees /\ ~NoTree.whole
  BY DEF NoTree, Trees
<1>2. \A b \in Builds \cup {NoBuild} :
        /\ Whole(b) \in Trees /\ Whole(b).whole /\ Whole(b).build = b
        /\ Part(b) \in Trees /\ ~Part(b).whole
  BY DEF Whole, Part, Trees
<1>3. /\ \A b, c : Whole(b) = Whole(c) => b = c
      /\ \A b : Whole(b) # NoTree
  BY DEF Whole, NoTree
<1>4. EmptySite \in SiteState /\ \A b \in Builds : EmptySite.release[b] = NoTree
  BY <1>1 DEF EmptySite, SiteState
<1> QED
  BY <1>1, <1>2, <1>3, <1>4

Upsets == {"halfRemoved", "dataLeft", "overtaken", "cutShort", "outdated"}

(* Every part of the type invariant, in the names of these proofs. *)
LEMMA SiteFacts ==
  ASSUME SiteTypeOK
  PROVE  /\ hostKind \in {"shell", "files", "link", "docker"} /\ site \in SiteState
         /\ shown \in [status : Statuses, build : Builds \cup {NoBuild}]
         /\ siteLock \in SiteWorkers \cup {0} /\ direct \in [SiteWorkers -> Orders]
         /\ siteEvents \in 0 .. MaxSiteEvents /\ siteUpsets \subseteq Upsets
         /\ NoBuild \notin Builds /\ 0 \notin SiteWorkers /\ MaxSiteEvents \in Nat
  BY DirectHostAssumption DEF SiteTypeOK, SiteState, Orders, Upsets

(* Two versions that are both the one that is served are the same. *)
LEMMA ServedStartable ==
  ASSUME SiteInv, NEW b, Served = Whole(b)
  PROVE  Startable(b)
<1>1. CASE hostKind = "link"
  <2>1. site.link # NoBuild /\ site.link \in Builds /\ Served = site.release[site.link]
    BY <1>1, ServedFacts, TreeFacts, SiteFacts DEF SiteInv, SiteState
  <2>2. Whole(b).whole /\ Whole(b).build = b
    BY DEF Whole
  <2>3. site.link = b
    BY <2>1, <2>2 DEF SiteInv, ReleasesOwn
  <2> QED
    BY <1>1, <2>1, <2>3 DEF Startable
<1>2. CASE hostKind = "docker"
  BY <1>2, ServedFacts, TreeFacts DEF Startable
<1> QED
  BY <1>1, <1>2 DEF Startable

(* A command counts an event or none. *)
LEMMA EventCounted ==
  ASSUME SiteTypeOK, SiteEvent \/ NoSiteEvent
  PROVE  siteEvents' \in 0 .. MaxSiteEvents
  BY SiteFacts DEF SiteEvent, NoSiteEvent

\* What a command of w changes at most: what is on the host, and how far w is.
Works(w) ==
    /\ UNCHANGED <<hostKind, shown, siteLock>>
    /\ site' \in SiteState /\ ReleasesOwn'
    /\ siteEvents' \in 0 .. MaxSiteEvents
    /\ siteUpsets' \subseteq Upsets /\ siteUpsets \subseteq siteUpsets'
    /\ direct[w].begun
    /\ direct' \in [SiteWorkers -> Orders]
    /\ \A x \in SiteWorkers : x # w => direct'[x] = direct[x]
    /\ direct'[w].does = direct[w].does /\ direct'[w].build = direct[w].build
    /\ direct'[w].was = direct[w].was /\ direct'[w].begun = direct[w].begun

(* The others have not begun, so that only the course of w is at stake. *)
LEMMA SiteWorkKeeps ==
  ASSUME SiteInv, NEW w \in SiteWorkers, Works(w),
         siteUpsets' = {} => OnCourse(direct[w])'
  PROVE  SiteInv'
<1>1. SiteTypeOK' /\ ReleasesOwn' /\ BegunDoes'
  <2>1. SiteTypeOK'
    BY SiteFacts DEF SiteInv, Works, SiteTypeOK, SiteState, Orders, Upsets
  <2>2. ReleasesOwn' /\ BegunDoes'
    BY DEF SiteInv, Works, BegunDoes
  <2> QED
    BY <2>1, <2>2
<1>2. ASSUME siteUpsets' = {}
      PROVE  OneAtWork' /\ AskedForm' /\ WorkOnCourse' /\ AtRest'
  <2>1. OneAtWork /\ AskedForm /\ WorkOnCourse /\ siteUpsets = {}
    BY <1>2 DEF SiteInv, Works
  <2>2. siteLock = w /\ siteLock # 0
    BY <2>1, SiteFacts DEF SiteInv, Works, OneAtWork
  <2>3. \A x \in SiteWorkers : x # w => ~direct[x].begun /\ ~direct'[x].begun
    BY <2>1, <2>2 DEF OneAtWork, Works
  <2>4. OneAtWork' /\ AtRest'
    BY <2>2, <2>3 DEF OneAtWork, AtRest, Works
  <2>5. ASSUME NEW x \in SiteWorkers, ~direct'[x].begun PROVE WellAsked(direct'[x])
    BY <2>1, <2>5 DEF AskedForm, Works
  <2>6. AskedForm'
    BY <2>5 DEF AskedForm, WellAsked
  <2>7. WorkOnCourse'
    BY <1>2, <2>1, <2>3 DEF WorkOnCourse, Works
  <2> QED
    BY <2>4, <2>6, <2>7
<1> QED
  BY <1>1, <1>2 DEF SiteInv

(* A command that is due: what it leads to, by operation. *)
LEMMA DueFacts ==
  ASSUME SiteInv, NEW w \in SiteWorkers, NEW c, Due(w, c)
  PROVE  /\ direct[w].begun /\ direct[w].todo # <<>> /\ Head(direct[w].todo) = c
         /\ direct[w] \in Orders /\ Tail(direct[w].todo) \in Seq(Commands)
         /\ siteUpsets = {} =>
              /\ direct[w].result = "ok"
              /\ direct[w].does \in {"deploy", "start"} => direct[w].build \in Builds
              /\ direct[w].does = "deploy"
                   => DeployGoesOn(c, Tail(direct[w].todo), direct[w].build)
              /\ direct[w].does = "start"
                   => StartGoesOn(c, Tail(direct[w].todo), direct[w].build)
              /\ direct[w].does = "stop"
                   => StopGoesOn(c, Tail(direct[w].todo), direct[w].build)
              /\ direct[w].does = "remove"
                   => RemoveGoesOn(c, Tail(direct[w].todo), direct[w].was, direct[w].build)
<1>1. /\ direct[w].begun /\ direct[w].todo # <<>> /\ Head(direct[w].todo) = c
      /\ direct[w] \in Orders
  BY SiteFacts DEF SiteInv, Due
<1>2. direct[w].todo \in Seq(Commands)
  BY <1>1 DEF Orders
<1>3. Tail(direct[w].todo) \in Seq(Commands)
  BY <1>1, <1>2
<1>4. ASSUME siteUpsets = {} PROVE OnCourse(direct[w]) /\ direct[w].result = "ok"
  BY <1>1, <1>4 DEF SiteInv, WorkOnCourse, OnCourse
<1> QED
  BY <1>1, <1>3, <1>4, DeployAt, StartAt, StopAt, RemoveAt
     DEF OnCourse, SiteInv, WorkOnCourse

(* A command only shortens the list of what is left to do. *)
LEMMA TodoFacts ==
  ASSUME NEW order \in Orders, NEW t
  PROVE  /\ [order EXCEPT !.todo = t].todo = t
         /\ [order EXCEPT !.todo = t].does = order.does
         /\ [order EXCEPT !.todo = t].build = order.build
         /\ [order EXCEPT !.todo = t].was = order.was
         /\ [order EXCEPT !.todo = t].begun = order.begun
         /\ [order EXCEPT !.todo = t].result = order.result
  BY DEF Orders

(* The ways a command leaves the rest of the work. *)
LEMMA ProceedsTo ==
  ASSUME SiteInv, NEW w \in SiteWorkers, NEW c, Due(w, c), Proceeds(w)
  PROVE  /\ direct' \in [SiteWorkers -> Orders]
         /\ \A x \in SiteWorkers : x # w => direct'[x] = direct[x]
         /\ direct'[w].does = direct[w].does /\ direct'[w].build = direct[w].build
         /\ direct'[w].was = direct[w].was /\ direct'[w].begun = direct[w].begun
         /\ direct'[w].result = direct[w].result
         /\ direct'[w].todo = Tail(direct[w].todo)
<1> DEFINE new == [direct[w] EXCEPT !.todo = Tail(direct[w].todo)]
<1>1. direct[w] \in Orders /\ Tail(direct[w].todo) \in Seq(Commands)
  BY DueFacts
<1>2. /\ new \in Orders
      /\ new.does = direct[w].does /\ new.build = direct[w].build
      /\ new.was = direct[w].was /\ new.begun = direct[w].begun
      /\ new.result = direct[w].result /\ new.todo = Tail(direct[w].todo)
  <2>1. new \in Orders
    BY <1>1 DEF Orders
  <2> QED
    BY <1>1, <2>1, TodoFacts
<1>3. direct' = [direct EXCEPT ![w] = new]
  BY DEF Proceeds
<1> HIDE DEF new
<1>4. direct \in [SiteWorkers -> Orders]
  BY SiteFacts DEF SiteInv
<1>5. /\ direct' \in [SiteWorkers -> Orders] /\ direct'[w] = new
      /\ \A x \in SiteWorkers : x # w => direct'[x] = direct[x]
  BY <1>2, <1>3, <1>4
<1> QED
  BY <1>2, <1>5

(* An order that ends drops the commands it had left. *)
LEMMA EndsWith ==
  ASSUME SiteInv, NEW w \in SiteWorkers, NEW result \in {"ok", "failed", "thrown"},
         Ends(w, result)
  PROVE  /\ direct' \in [SiteWorkers -> Orders]
         /\ \A x \in SiteWorkers : x # w => direct'[x] = direct[x]
         /\ direct'[w] = [direct[w] EXCEPT !.todo = <<>>, !.result = result]
<1> DEFINE new == [direct[w] EXCEPT !.todo = <<>>, !.result = result]
<1>1. direct \in [SiteWorkers -> Orders] /\ <<>> \in Seq(Commands)
  BY SiteFacts DEF SiteInv
<1>2. new \in Orders
  BY <1>1 DEF Orders
<1>3. direct' = [direct EXCEPT ![w] = new]
  BY <1>1 DEF Ends
<1> HIDE DEF new
<1>4. /\ direct' \in [SiteWorkers -> Orders] /\ direct'[w] = new
      /\ \A x \in SiteWorkers : x # w => direct'[x] = direct[x]
  BY <1>1, <1>2, <1>3
<1> QED
  BY <1>4 DEF new

(* A command that breaks off ends the order and leaves its mark among the upsets. *)
LEMMA BreaksWith ==
  ASSUME SiteInv, NEW w \in SiteWorkers, NEW result \in {"ok", "failed", "thrown"},
         NEW c, Due(w, c), Breaks(w, result)
  PROVE  /\ Ends(w, result)
         /\ siteUpsets' \subseteq Upsets /\ siteUpsets \subseteq siteUpsets'
         /\ siteUpsets' = {} /\ direct[w].does = "remove" =>
              /\ c \notin {"purge", "wipeData"}
              /\ c \in {"empty", "wipe"} => site' = site
  BY SiteFacts DEF SiteInv, Due, Breaks, Disturb, Upsets

(* The next course, when the command succeeds. *)
LEMMA ProceedKeeps ==
  ASSUME SiteInv, NEW w \in SiteWorkers, NEW c, Due(w, c), Proceeds(w),
         NEW b, b = direct[w].build, NEW rest, rest = Tail(direct[w].todo),
         NEW was, was = direct[w].was,
         UNCHANGED <<hostKind, shown, siteLock>>, SiteEvent \/ NoSiteEvent,
         site' \in SiteState, ReleasesOwn',
         siteUpsets' \subseteq Upsets, siteUpsets \subseteq siteUpsets',
         siteUpsets' = {} =>
             /\ direct[w].does = "deploy" => DeployCourse(rest, b)'
             /\ direct[w].does = "start" => StartCourse(rest, b)'
             /\ direct[w].does = "stop" => StopCourse(rest, b)'
             /\ direct[w].does = "remove" => RemoveCourse(rest, was, b)'
  PROVE  SiteInv'
<1>1. /\ direct' \in [SiteWorkers -> Orders]
      /\ \A x \in SiteWorkers : x # w => direct'[x] = direct[x]
      /\ direct'[w].does = direct[w].does /\ direct'[w].build = b
      /\ direct'[w].was = was /\ direct'[w].begun = direct[w].begun
      /\ direct'[w].result = direct[w].result /\ direct'[w].todo = rest
  BY ProceedsTo
<1>2. direct[w] \in Orders /\ direct[w].begun
  BY DueFacts
<1>3. Works(w)
  BY <1>1, <1>2, EventCounted DEF Works, SiteInv
<1>4. siteUpsets' = {} => OnCourse(direct[w])'
  BY <1>1, DueFacts DEF OnCourse
<1> QED
  BY <1>3, <1>4, SiteWorkKeeps

(* The end of the work, if a command fails, or if a removal finds nothing to reach. *)
LEMMA EndKeeps ==
  ASSUME SiteInv, NEW w \in SiteWorkers, NEW c, Due(w, c),
         NEW result \in {"ok", "failed", "thrown"}, Ends(w, result),
         NEW b, b = direct[w].build, NEW was, was = direct[w].was,
         UNCHANGED <<hostKind, shown, siteLock>>, SiteEvent \/ NoSiteEvent,
         site' \in SiteState, ReleasesOwn',
         siteUpsets' \subseteq Upsets, siteUpsets \subseteq siteUpsets',
         siteUpsets' = {} /\ result = "ok" =>
             /\ direct[w].does \notin {"deploy", "start"}
             /\ direct[w].does = "stop" => Startable(b)',
         siteUpsets' = {} /\ result # "ok" =>
             (direct[w].does \in {"stop", "remove"} => KeptAs(was, b)')
  PROVE  SiteInv'
<1>1. /\ direct' \in [SiteWorkers -> Orders]
      /\ \A x \in SiteWorkers : x # w => direct'[x] = direct[x]
      /\ direct'[w] = [direct[w] EXCEPT !.todo = <<>>, !.result = result]
  BY EndsWith
<1>2. direct[w] \in Orders /\ direct[w].begun
  BY DueFacts
<1>3. /\ direct'[w].does = direct[w].does /\ direct'[w].build = b /\ direct'[w].was = was
      /\ direct'[w].begun = direct[w].begun /\ direct'[w].result = result
      /\ direct'[w].todo = <<>>
  BY <1>1, <1>2 DEF Orders
<1>4. Works(w)
  BY <1>1, <1>2, <1>3, EventCounted DEF Works, SiteInv
<1>5. siteUpsets' = {} => OnCourse(direct[w])'
  BY <1>3, DueFacts DEF OnCourse, StopCourse, RemoveCourse
<1> QED
  BY <1>4, <1>5, SiteWorkKeeps

(* What the host keeps, as long as nobody touches it. *)
LEMMA SiteSame ==
  ASSUME UNCHANGED <<hostKind, site>>
  PROVE  /\ Served' = Served
         /\ \A b : Startable(b)' <=> Startable(b)
         /\ \A status, b : KeptAs(status, b)' <=> KeptAs(status, b)
<1>1. Served' = Served
  BY DEF Served
<1>2. \A b : Startable(b)' <=> Startable(b)
  BY DEF Startable
<1> QED
  BY <1>1, <1>2 DEF KeptAs

(* A command that fails: a stop or a removal that fails has left the host as it was. *)
LEMMA BreakKeeps ==
  ASSUME SiteInv, NEW w \in SiteWorkers, NEW c, Due(w, c),
         NEW result \in {"failed", "thrown"}, Breaks(w, result),
         UNCHANGED <<hostKind, shown, siteLock>>, SiteEvent \/ NoSiteEvent,
         site' \in SiteState, ReleasesOwn',
         c \in {"connect", "halt", "unlink", "discard"} => site' = site
  PROVE  SiteInv'
<1>1. PICK b, was : b = direct[w].build /\ was = direct[w].was
  OBVIOUS
<1>2. /\ Ends(w, result)
      /\ siteUpsets' \subseteq Upsets /\ siteUpsets \subseteq siteUpsets'
      /\ siteUpsets' = {} /\ direct[w].does = "remove" =>
           /\ c \notin {"purge", "wipeData"}
           /\ c \in {"empty", "wipe"} => site' = site
  BY BreaksWith
<1>3. ASSUME siteUpsets' = {}, direct[w].does \in {"stop", "remove"}
      PROVE  KeptAs(was, b)'
  <2>1. siteUpsets = {}
    BY <1>2, <1>3
  <2>2. CASE direct[w].does = "stop"
    <3>1. StopGoesOn(c, Tail(direct[w].todo), b)
      BY <1>1, <2>1, <2>2, DueFacts
    <3>2. Served = Whole(b) /\ site' = site
      BY <3>1 DEF StopGoesOn
    <3> QED
      BY <3>2, ServedStartable, SiteSame DEF KeptAs
  <2>3. CASE direct[w].does = "remove"
    <3>1. RemoveGoesOn(c, Tail(direct[w].todo), was, b)
      BY <1>1, <2>1, <2>3, DueFacts
    <3>2. KeptAs(was, b) /\ site' = site
      BY <1>2, <1>3, <2>3, <3>1 DEF RemoveGoesOn
    <3> QED
      BY <3>2, SiteSame
  <2> QED
    BY <1>3, <2>2, <2>3
<1> QED
  BY <1>1, <1>2, <1>3, EndKeeps

(* Reach: the folder, the link and the container are as they were. *)
LEMMA ReachKeeps ==
  ASSUME SiteInv, NEW w \in SiteWorkers, Reach(w)
  PROVE  SiteInv'
<1>1. PICK b, rest, was : /\ b = direct[w].build /\ rest = Tail(direct[w].todo)
                          /\ was = direct[w].was
  OBVIOUS
<1>2. PICK result \in Unreached(direct[w].does) : Command(w, site, {site}, result)
  BY DEF Reach
<1>3. /\ result \in {"ok", "failed", "thrown"}
      /\ result = "ok" => direct[w].does \notin {"deploy", "start"}
  BY <1>2 DEF Unreached
<1>4. /\ Due(w, "connect") /\ site' = site /\ UNCHANGED <<hostKind, shown, siteLock>>
      /\ site' \in SiteState /\ ReleasesOwn'
  BY <1>2, SiteFacts DEF Reach, Command, SiteInv, ReleasesOwn
<1>5. CASE NoSiteEvent /\ Proceeds(w) /\ UNCHANGED siteUpsets
  <2>1. ASSUME siteUpsets = {}
        PROVE  /\ direct[w].does = "deploy" => DeployCourse(rest, b)
               /\ direct[w].does = "start" => StartCourse(rest, b)
               /\ direct[w].does = "stop" => StopCourse(rest, b)
               /\ direct[w].does = "remove" => RemoveCourse(rest, was, b)
    BY <1>1, <1>4, <2>1, DueFacts
       DEF DeployGoesOn, StartGoesOn, StopGoesOn, RemoveGoesOn, StopCourse
  <2>2. ASSUME siteUpsets = {}
        PROVE  /\ direct[w].does = "deploy" => DeployCourse(rest, b)'
               /\ direct[w].does = "start" => StartCourse(rest, b)'
               /\ direct[w].does = "stop" => StopCourse(rest, b)'
               /\ direct[w].does = "remove" => RemoveCourse(rest, was, b)'
    BY <1>4, <2>1, <2>2, SiteSame DEF DeployCourse, StartCourse, StopCourse, RemoveCourse
  <2> QED
    BY <1>1, <1>4, <1>5, <2>2, SiteFacts, ProceedKeeps DEF SiteInv
<1>6. CASE SiteEvent /\ Breaks(w, result)
  <2>1. CASE result = "ok"
    <3>1. /\ Ends(w, result)
          /\ siteUpsets' \subseteq Upsets /\ siteUpsets \subseteq siteUpsets'
      BY <1>3, <1>4, <1>6, BreaksWith
    <3>2. ASSUME siteUpsets' = {}, direct[w].does = "stop"
          PROVE  Startable(b)'
      BY <1>1, <1>4, <3>1, <3>2, DueFacts, ServedStartable, SiteSame DEF StopGoesOn
    <3> QED
      BY <1>1, <1>3, <1>4, <1>6, <2>1, <3>1, <3>2, EndKeeps
  <2>2. CASE result # "ok"
    BY <1>3, <1>4, <1>6, <2>2, BreakKeeps
  <2> QED
    BY <2>1, <2>2
<1> QED
  BY <1>2, <1>5, <1>6 DEF Command

(* What a removal that failed may have left of a tree is a tree. *)
LEMMA RemainsFacts ==
  ASSUME NEW tree \in Trees, NEW r \in Remains(tree)
  PROVE  r \in Trees
<1>1. tree.build \in Builds \cup {NoBuild}
  BY DEF Trees
<1>2. Part(tree.build) \in Trees /\ NoTree \in Trees
  BY <1>1, TreeFacts
<1> QED
  BY <1>2 DEF Remains

(* Unpack and Stage fill the folder beside the served one. *)
LEMMA StagingKeeps ==
  ASSUME SiteInv, NEW w \in SiteWorkers, Unpack(w) \/ Stage(w)
  PROVE  SiteInv'
<1>1. PICK b, rest, was : /\ b = direct[w].build /\ rest = Tail(direct[w].todo)
                          /\ was = direct[w].was
  OBVIOUS
<1>2. PICK c \in {"unpack", "stage"} :
        /\ Due(w, c) /\ UNCHANGED <<hostKind, shown, siteLock>>
        /\ \/ /\ site' = [site EXCEPT !.staging = Whole(b)] /\ NoSiteEvent /\ Proceeds(w)
              /\ UNCHANGED siteUpsets
           \/ /\ site' \in {site, [site EXCEPT !.staging = Part(b)]} /\ SiteEvent
              /\ Breaks(w, "failed")
           \/ /\ site' = [site EXCEPT !.staging = Part(b)] /\ SiteEvent /\ Proceeds(w)
              /\ Disturb("cutShort")
  BY <1>1 DEF Unpack, Stage, ShellCommand, Command
<1>3. b \in Builds \cup {NoBuild} /\ site \in SiteState
  BY <1>1, <1>2, DueFacts, SiteFacts DEF Orders, SiteInv
<1>4. site' \in SiteState /\ ReleasesOwn'
  <2>1. PICK tree \in Trees : site' = site \/ site' = [site EXCEPT !.staging = tree]
    BY <1>2, <1>3, TreeFacts
  <2> QED
    BY <1>3, <2>1 DEF SiteInv, SiteState, ReleasesOwn
<1>5. CASE site' = [site EXCEPT !.staging = Whole(b)] /\ NoSiteEvent /\ Proceeds(w)
           /\ UNCHANGED siteUpsets
  <2>1. site'.staging = Whole(b)
    BY <1>3, <1>5 DEF SiteState
  <2>2. ASSUME siteUpsets = {}
        PROVE  /\ direct[w].does = "deploy" => DeployCourse(rest, b)'
               /\ direct[w].does \notin {"start", "stop", "remove"}
    BY <1>1, <1>2, <2>1, <2>2, DueFacts
       DEF DeployGoesOn, StartGoesOn, StopGoesOn, RemoveGoesOn, DeployCourse
  <2> QED
    BY <1>1, <1>2, <1>4, <1>5, <2>2, SiteFacts, ProceedKeeps DEF SiteInv
<1>6. CASE SiteEvent /\ Breaks(w, "failed")
  BY <1>2, <1>4, <1>6, BreakKeeps
<1>7. CASE SiteEvent /\ Proceeds(w) /\ Disturb("cutShort")
  BY <1>1, <1>2, <1>4, <1>7, SiteFacts, ProceedKeeps DEF SiteInv, Disturb, Upsets
<1> QED
  BY <1>2, <1>5, <1>6, <1>7

(* Swap and Rename: the folder is what was staged, or what is left of the old one. *)
LEMMA FolderKeeps ==
  ASSUME SiteInv, NEW w \in SiteWorkers, Swap(w) \/ Rename(w)
  PROVE  SiteInv'
<1>1. PICK b, rest, was : /\ b = direct[w].build /\ rest = Tail(direct[w].todo)
                          /\ was = direct[w].was
  OBVIOUS
<1> DEFINE done == [site EXCEPT !.folder = site.staging, !.staging = NoTree]
<1>2. PICK c \in {"swap", "rename"} :
        /\ Due(w, c) /\ UNCHANGED <<hostKind, shown, siteLock>>
        /\ \/ site' = done /\ NoSiteEvent /\ Proceeds(w) /\ UNCHANGED siteUpsets
           \/ /\ site' = site \/ \E r \in Remains(site.folder) : site' = [site EXCEPT !.folder = r]
              /\ SiteEvent \/ NoSiteEvent
              /\ Breaks(w, "failed")
           \/ /\ \E r \in Remains(site.folder) : site' = [site EXCEPT !.folder = r]
              /\ SiteEvent /\ Proceeds(w) /\ Disturb("cutShort")
  <2>1. CASE Swap(w)
    BY <2>1 DEF Swap, Swapped, ShellCommand, Command
  <2>2. CASE Rename(w)
    BY <2>2 DEF Rename, Command, Hopeless, NoSiteEvent
  <2> QED
    BY <2>1, <2>2
<1>3. site \in SiteState
  BY SiteFacts DEF SiteInv
<1>4. site' \in SiteState /\ ReleasesOwn'
  <2>1. PICK tree \in Trees : site' \in {site, done, [site EXCEPT !.folder = tree]}
    BY <1>2, <1>3, TreeFacts, RemainsFacts DEF SiteState
  <2>2. done \in SiteState /\ done.release = site.release
    BY <1>3, TreeFacts DEF SiteState
  <2> QED
    BY <1>3, <2>1, <2>2 DEF SiteInv, SiteState, ReleasesOwn
<1>5. CASE site' = done /\ NoSiteEvent /\ Proceeds(w) /\ UNCHANGED siteUpsets
  <2>1. site'.folder = site.staging
    BY <1>3, <1>5 DEF SiteState
  <2>2. ASSUME siteUpsets = {}
        PROVE  /\ direct[w].does = "deploy" => DeployCourse(rest, b)'
               /\ direct[w].does \notin {"start", "stop", "remove"}
    <3>1. direct[w].does \notin {"start", "stop", "remove"}
      BY <1>2, <2>2, DueFacts DEF StartGoesOn, StopGoesOn, RemoveGoesOn
    <3>2. ASSUME direct[w].does = "deploy" PROVE DeployCourse(rest, b)'
      <4>1. /\ hostKind \in {"shell", "files"} /\ site.staging = Whole(b)
            /\ rest = <<"probe">>
        BY <1>1, <1>2, <2>2, <3>2, DueFacts DEF DeployGoesOn
      <4>2. Served' = Whole(b)
        BY <1>2, <2>1, <4>1, ServedNext
      <4> QED
        BY <4>1, <4>2 DEF DeployCourse
    <3> QED
      BY <3>1, <3>2
  <2> QED
    BY <1>1, <1>2, <1>4, <1>5, <2>2, SiteFacts, ProceedKeeps DEF SiteInv
<1>6. CASE (SiteEvent \/ NoSiteEvent) /\ Breaks(w, "failed")
  BY <1>2, <1>4, <1>6, BreakKeeps
<1>7. CASE SiteEvent /\ Proceeds(w) /\ Disturb("cutShort")
  BY <1>1, <1>2, <1>4, <1>7, SiteFacts, ProceedKeeps DEF SiteInv, Disturb, Upsets
<1> QED
  BY <1>2, <1>5, <1>6, <1>7

(* Empty, Wipe and WipeData: a removal, or the way to a rename, leaves nothing. *)
LEMMA EmptyKeeps ==
  ASSUME SiteInv, NEW w \in SiteWorkers, Empty(w) \/ Wipe(w) \/ WipeData(w)
  PROVE  SiteInv'
<1>1. PICK b, rest, was : /\ b = direct[w].build /\ rest = Tail(direct[w].todo)
                          /\ was = direct[w].was
  OBVIOUS
<1>2. PICK c \in {"empty", "wipe", "wipeData"} :
        /\ Due(w, c) /\ UNCHANGED <<hostKind, shown, siteLock>>
        /\ \/ site' = site
           \/ \E r \in Remains(site.folder) : site' = [site EXCEPT !.folder = r]
           \/ site' = [site EXCEPT !.folder = NoTree]
           \/ c # "empty" /\ site' = [site EXCEPT !.folder = NoTree, !.staging = NoTree]
        /\ \/ NoSiteEvent /\ Proceeds(w) /\ UNCHANGED siteUpsets
           \/ SiteEvent /\ Breaks(w, "failed")
           \/ SiteEvent /\ Proceeds(w) /\ Disturb("cutShort")
  <2>1. CASE Empty(w)
    BY <2>1 DEF Empty, Command
  <2>2. CASE Wipe(w)
    BY <2>2 DEF Wipe, ShellCommand, Command
  <2>3. CASE WipeData(w)
    BY <2>3 DEF WipeData, ShellCommand, Command
  <2> QED
    BY <2>1, <2>2, <2>3
<1>3. site \in SiteState
  BY SiteFacts DEF SiteInv
<1>4. /\ site' \in SiteState /\ ReleasesOwn'
      /\ c = "empty" => site'.staging = site.staging
  <2>1. PICK tree \in Trees :
          \/ site' \in {site, [site EXCEPT !.folder = tree]}
          \/ c # "empty" /\ site' = [site EXCEPT !.folder = tree, !.staging = tree]
    BY <1>2, <1>3, TreeFacts, RemainsFacts DEF SiteState
  <2> QED
    BY <1>3, <2>1 DEF SiteInv, SiteState, ReleasesOwn
<1>5. CASE NoSiteEvent /\ Proceeds(w) /\ UNCHANGED siteUpsets
  <2>1. ASSUME siteUpsets = {}
        PROVE  /\ direct[w].does = "deploy" => DeployCourse(rest, b)'
               /\ direct[w].does \notin {"start", "stop"}
               /\ direct[w].does = "remove" => RemoveCourse(rest, was, b)'
    BY <1>1, <1>2, <1>4, <2>1, DueFacts
       DEF DeployGoesOn, StartGoesOn, StopGoesOn, RemoveGoesOn, DeployCourse, RemoveCourse
  <2> QED
    BY <1>1, <1>2, <1>4, <1>5, <2>1, SiteFacts, ProceedKeeps DEF SiteInv
<1>6. CASE SiteEvent /\ Breaks(w, "failed")
  BY <1>2, <1>4, <1>6, BreakKeeps
<1>7. CASE SiteEvent /\ Proceeds(w) /\ Disturb("cutShort")
  BY <1>1, <1>2, <1>4, <1>7, SiteFacts, ProceedKeeps DEF SiteInv, Disturb, Upsets
<1> QED
  BY <1>2, <1>5, <1>6, <1>7

(* Upload: the release is what was uploaded, under its own name. *)
LEMMA UploadKeeps ==
  ASSUME SiteInv, NEW w \in SiteWorkers, Upload(w)
  PROVE  SiteInv'
<1>1. PICK b, rest, was : /\ b = direct[w].build /\ rest = Tail(direct[w].todo)
                          /\ was = direct[w].was
  OBVIOUS
<1>2. /\ Due(w, "upload") /\ UNCHANGED <<hostKind, shown, siteLock>>
      /\ \/ /\ site' = [site EXCEPT !.release = [site.release EXCEPT ![b] = Whole(b)]]
            /\ NoSiteEvent /\ Proceeds(w) /\ UNCHANGED siteUpsets
         \/ /\ \/ site' = site
               \/ site' = [site EXCEPT !.release = [site.release EXCEPT ![b] = Part(b)]]
            /\ SiteEvent /\ Breaks(w, "failed")
  BY <1>1 DEF Upload, Command
<1>3. site \in SiteState /\ b \in Builds \cup {NoBuild}
  BY <1>1, <1>2, DueFacts, SiteFacts DEF SiteInv, Orders
<1>4. site' \in SiteState /\ ReleasesOwn'
  <2>1. PICK tree \in Trees : /\ tree.whole => tree.build = b
                              /\ \/ site' = site
                                 \/ site' = [site EXCEPT !.release =
                                               [site.release EXCEPT ![b] = tree]]
    BY <1>2, <1>3, TreeFacts
  <2>2. [site.release EXCEPT ![b] = tree] \in [Builds -> Trees]
    BY <1>3, <2>1 DEF SiteState
  <2>3. \A x \in Builds : [site.release EXCEPT ![b] = tree][x].whole
                            => [site.release EXCEPT ![b] = tree][x].build = x
    BY <1>3, <2>1 DEF SiteState, SiteInv, ReleasesOwn
  <2> QED
    BY <1>3, <2>1, <2>2, <2>3 DEF SiteInv, SiteState, ReleasesOwn
<1>5. CASE NoSiteEvent /\ Proceeds(w) /\ UNCHANGED siteUpsets
           /\ site' = [site EXCEPT !.release = [site.release EXCEPT ![b] = Whole(b)]]
  <2>1. b \in Builds => site'.release[b] = Whole(b)
    BY <1>3, <1>5 DEF SiteState
  <2>2. ASSUME siteUpsets = {}
        PROVE  /\ direct[w].does = "deploy" => DeployCourse(rest, b)'
               /\ direct[w].does \notin {"start", "stop", "remove"}
    BY <1>1, <1>2, <2>1, <2>2, DueFacts
       DEF DeployGoesOn, StartGoesOn, StopGoesOn, RemoveGoesOn, DeployCourse
  <2> QED
    BY <1>1, <1>2, <1>4, <1>5, <2>2, SiteFacts, ProceedKeeps DEF SiteInv
<1>6. CASE SiteEvent /\ Breaks(w, "failed")
  BY <1>2, <1>4, <1>6, BreakKeeps
<1> QED
  BY <1>2, <1>5, <1>6

(* Unlink: the releases stay, so that the version can be started again. *)
LEMMA UnlinkKeeps ==
  ASSUME SiteInv, NEW w \in SiteWorkers, Unlink(w)
  PROVE  SiteInv'
<1>1. PICK b, rest, was : /\ b = direct[w].build /\ rest = Tail(direct[w].todo)
                          /\ was = direct[w].was
  OBVIOUS
<1>2. /\ Due(w, "unlink") /\ UNCHANGED <<hostKind, shown, siteLock, siteUpsets>> /\ Proceeds(w)
      /\ SiteEvent \/ NoSiteEvent
      /\ site' = site \/ site' = [site EXCEPT !.link = NoBuild]
  BY DEF Unlink, EasyCommand
<1>3. site \in SiteState
  BY SiteFacts DEF SiteInv
<1>4. /\ site' \in SiteState /\ ReleasesOwn'
      /\ site'.release = site.release /\ site'.box = site.box
  BY <1>2, <1>3 DEF SiteInv, SiteState, ReleasesOwn
<1>5. \A x : Startable(x) => Startable(x)'
  BY <1>2, <1>4 DEF Startable
<1>6. ASSUME siteUpsets = {}
      PROVE  /\ direct[w].does = "deploy" => DeployCourse(rest, b)'
             /\ direct[w].does = "start" => StartCourse(rest, b)'
             /\ direct[w].does = "stop" => StopCourse(rest, b)'
             /\ direct[w].does = "remove" => RemoveCourse(rest, was, b)'
  BY <1>1, <1>2, <1>4, <1>5, <1>6, DueFacts, ServedStartable
     DEF DeployGoesOn, StartGoesOn, StopGoesOn, RemoveGoesOn, DeployCourse, StartCourse,
         StopCourse, RemoveCourse
<1> QED
  BY <1>1, <1>2, <1>4, <1>6, SiteFacts, ProceedKeeps DEF SiteInv

(* Symlink: the link is to the version of the operation, and that release is whole. *)
LEMMA SymlinkKeeps ==
  ASSUME SiteInv, NEW w \in SiteWorkers, Symlink(w)
  PROVE  SiteInv'
<1>1. PICK b, rest, was : /\ b = direct[w].build /\ rest = Tail(direct[w].todo)
                          /\ was = direct[w].was
  OBVIOUS
<1>2. PICK result \in {"failed", "thrown"} :
        /\ Due(w, "symlink") /\ UNCHANGED <<hostKind, shown, siteLock>>
        /\ \/ /\ site' = [site EXCEPT !.link = b] /\ NoSiteEvent /\ Proceeds(w)
              /\ hostKind = "link" /\ UNCHANGED siteUpsets
           \/ site' = site /\ (SiteEvent \/ NoSiteEvent) /\ Breaks(w, result)
  <2>1. PICK result \in {"failed", "thrown"} :
          /\ result = IF direct[w].does = "deploy" THEN "failed" ELSE "thrown"
    OBVIOUS
  <2>2. CASE hostKind = "link" /\ site.link = NoBuild
    BY <1>1, <2>1, <2>2 DEF Symlink, Command
  <2>3. CASE ~(hostKind = "link" /\ site.link = NoBuild)
    BY <2>1, <2>3 DEF Symlink, Hopeless, NoSiteEvent
  <2> QED
    BY <2>2, <2>3
<1>3. site \in SiteState /\ b \in Builds \cup {NoBuild}
  BY <1>1, <1>2, DueFacts, SiteFacts DEF SiteInv, Orders
<1>4. site' \in SiteState /\ ReleasesOwn' /\ site'.release = site.release
  <2>1. site' = site \/ site' = [site EXCEPT !.link = b]
    BY <1>2
  <2>2. site' \in SiteState /\ site'.release = site.release
    BY <1>3, <2>1 DEF SiteState
  <2> QED
    BY <2>2 DEF SiteInv, ReleasesOwn
<1>5. CASE /\ site' = [site EXCEPT !.link = b] /\ NoSiteEvent /\ Proceeds(w)
           /\ hostKind = "link" /\ UNCHANGED siteUpsets
  <2>1. site'.link = b /\ hostKind' = "link"
    BY <1>2, <1>3, <1>5 DEF SiteState
  <2>2. ASSUME siteUpsets = {}, direct[w].does \in {"deploy", "start"}
        PROVE  rest = <<"probe">> /\ Served' = Whole(b)
    <3>1. /\ b \in Builds /\ b # NoBuild /\ site.release[b] = Whole(b) /\ rest = <<"probe">>
      <4>1. b \in Builds /\ b # NoBuild
        BY <1>1, <1>2, <2>2, DueFacts, SiteFacts DEF SiteInv
      <4>2. CASE direct[w].does = "deploy"
        BY <1>1, <1>2, <2>2, <4>1, <4>2, DueFacts DEF DeployGoesOn
      <4>3. CASE direct[w].does = "start"
        BY <1>1, <1>2, <1>5, <2>2, <4>1, <4>3, DueFacts DEF StartGoesOn, Startable
      <4> QED
        BY <2>2, <4>2, <4>3
    <3> QED
      BY <1>4, <2>1, <3>1, ServedNext
  <2>3. ASSUME siteUpsets = {}
        PROVE  /\ direct[w].does = "deploy" => DeployCourse(rest, b)'
               /\ direct[w].does = "start" => StartCourse(rest, b)'
               /\ direct[w].does \notin {"stop", "remove"}
    BY <1>2, <2>2, <2>3, DueFacts DEF StopGoesOn, RemoveGoesOn, DeployCourse, StartCourse
  <2> QED
    BY <1>1, <1>2, <1>4, <1>5, <2>3, SiteFacts, ProceedKeeps DEF SiteInv
<1>6. CASE (SiteEvent \/ NoSiteEvent) /\ Breaks(w, result)
  BY <1>2, <1>4, <1>6, BreakKeeps
<1> QED
  BY <1>2, <1>5, <1>6

(* Purge: no release is left, or parts of releases. *)
LEMMA PurgeKeeps ==
  ASSUME SiteInv, NEW w \in SiteWorkers, Purge(w)
  PROVE  SiteInv'
<1>1. PICK b, rest, was : /\ b = direct[w].build /\ rest = Tail(direct[w].todo)
                          /\ was = direct[w].was
  OBVIOUS
<1> DEFINE parts == [x \in Builds |-> Part(site.release[x].build)]
<1>2. /\ Due(w, "purge") /\ UNCHANGED <<hostKind, shown, siteLock>>
      /\ site' \in {site, [site EXCEPT !.release = EmptySite.release],
                    [site EXCEPT !.release = parts]}
      /\ \/ NoSiteEvent /\ Proceeds(w) /\ UNCHANGED siteUpsets
         \/ SiteEvent /\ Breaks(w, "failed")
  BY DEF Purge, Command
<1>3. site \in SiteState
  BY SiteFacts DEF SiteInv
<1>4. site' \in SiteState /\ ReleasesOwn'
  <2>1. parts \in [Builds -> Trees] /\ \A x \in Builds : ~parts[x].whole
    BY <1>3, TreeFacts DEF SiteState, Trees
  <2>2. /\ EmptySite.release \in [Builds -> Trees]
        /\ \A x \in Builds : ~EmptySite.release[x].whole
    BY TreeFacts DEF SiteState
  <2> HIDE DEF parts
  <2>3. PICK rels \in [Builds -> Trees] :
          /\ site' = site \/ site' = [site EXCEPT !.release = rels]
          /\ \A x \in Builds : ~rels[x].whole
    BY <1>2, <2>1, <2>2
  <2> QED
    BY <1>3, <2>3 DEF SiteInv, SiteState, ReleasesOwn
<1>5. CASE NoSiteEvent /\ Proceeds(w) /\ UNCHANGED siteUpsets
  <2>1. ASSUME siteUpsets = {}
        PROVE  /\ direct[w].does \notin {"deploy", "start", "stop"}
               /\ direct[w].does = "remove" => RemoveCourse(rest, was, b)'
    BY <1>1, <1>2, <2>1, DueFacts
       DEF DeployGoesOn, StartGoesOn, StopGoesOn, RemoveGoesOn, RemoveCourse
  <2> QED
    BY <1>1, <1>2, <1>4, <1>5, <2>1, SiteFacts, ProceedKeeps DEF SiteInv
<1>6. CASE SiteEvent /\ Breaks(w, "failed")
  BY <1>2, <1>4, <1>6, BreakKeeps
<1> QED
  BY <1>2, <1>5, <1>6

(* A change of the container alone. *)
LEMMA BoxType ==
  ASSUME SiteInv, NEW box \in Builds \cup {NoBuild}, NEW up \in BOOLEAN,
         site' = [site EXCEPT !.box = box, !.up = up]
  PROVE  /\ site' \in SiteState /\ ReleasesOwn'
         /\ site'.box = box /\ site'.up = up /\ site'.release = site.release
<1>1. site \in SiteState
  BY SiteFacts DEF SiteInv
<1>2. /\ site' \in SiteState
      /\ site'.box = box /\ site'.up = up /\ site'.release = site.release
  BY <1>1 DEF SiteState
<1> QED
  BY <1>2 DEF SiteInv, ReleasesOwn

(* DropBox: what is removed is removed for good. *)
LEMMA DropBoxKeeps ==
  ASSUME SiteInv, NEW w \in SiteWorkers, DropBox(w)
  PROVE  SiteInv'
<1>1. PICK b, rest, was : /\ b = direct[w].build /\ rest = Tail(direct[w].todo)
                          /\ was = direct[w].was
  OBVIOUS
<1>2. /\ Due(w, "discard") /\ UNCHANGED <<hostKind, shown, siteLock, siteUpsets>> /\ Proceeds(w)
      /\ SiteEvent \/ NoSiteEvent
      /\ site' = site \/ site' = [site EXCEPT !.box = NoBuild, !.up = FALSE]
  BY DEF DropBox, EasyCommand
<1>3. site' \in SiteState /\ ReleasesOwn'
  BY <1>2, SiteFacts, BoxType DEF SiteInv, ReleasesOwn
<1>4. ASSUME siteUpsets = {}
      PROVE  /\ direct[w].does = "deploy" => DeployCourse(rest, b)'
             /\ direct[w].does \notin {"start", "stop"}
             /\ direct[w].does = "remove" => RemoveCourse(rest, was, b)'
  BY <1>1, <1>2, <1>4, DueFacts
     DEF DeployGoesOn, StartGoesOn, StopGoesOn, RemoveGoesOn, DeployCourse, RemoveCourse
<1> QED
  BY <1>1, <1>2, <1>3, <1>4, SiteFacts, ProceedKeeps DEF SiteInv

(* RunBox and Boot: what runs is the version of the operation. *)
LEMMA BootKeeps ==
  ASSUME SiteInv, NEW w \in SiteWorkers, RunBox(w) \/ Boot(w)
  PROVE  SiteInv'
<1>1. PICK b, rest, was : /\ b = direct[w].build /\ rest = Tail(direct[w].todo)
                          /\ was = direct[w].was
  OBVIOUS
<1>2. site \in SiteState /\ direct[w] \in Orders
  BY SiteFacts DEF SiteInv
<1>3. b \in Builds \cup {NoBuild} /\ site.box \in Builds \cup {NoBuild} /\ site.up \in BOOLEAN
  BY <1>1, <1>2 DEF SiteState, Orders
<1>4. PICK c \in {"run", "boot"}, box \in Builds \cup {NoBuild}, up \in BOOLEAN,
           result \in {"failed", "thrown"} :
        /\ Due(w, c) /\ UNCHANGED <<hostKind, shown, siteLock>>
        /\ c = "run" => box = b
        /\ c = "boot" => box = site.box
        /\ \/ /\ up /\ site' = [site EXCEPT !.box = box, !.up = up]
              /\ NoSiteEvent /\ Proceeds(w) /\ UNCHANGED siteUpsets
           \/ /\ site' = site \/ site' = [site EXCEPT !.box = box, !.up = up]
              /\ SiteEvent \/ NoSiteEvent
              /\ Breaks(w, result)
  <2>1. CASE RunBox(w)
    <3>1. Due(w, "run") /\ UNCHANGED <<hostKind, shown, siteLock>>
      BY <2>1 DEF RunBox, Command, Hopeless
    <3>2. CASE site' = [site EXCEPT !.box = b, !.up = TRUE] /\ NoSiteEvent /\ Proceeds(w)
               /\ UNCHANGED siteUpsets
      BY <1>3, <3>1, <3>2
    <3>3. CASE (SiteEvent \/ NoSiteEvent) /\ Breaks(w, "thrown")
               /\ (site' = site \/ site' = [site EXCEPT !.box = b])
      <4>1. [site EXCEPT !.box = b] = [site EXCEPT !.box = b, !.up = site.up]
        BY <1>2 DEF SiteState
      <4> QED
        BY <1>3, <3>1, <3>3, <4>1
    <3> QED
      BY <1>1, <2>1, <3>2, <3>3 DEF RunBox, Command, Hopeless, NoSiteEvent
  <2>2. CASE Boot(w)
    <3>1. Due(w, "boot") /\ UNCHANGED <<hostKind, shown, siteLock>>
      BY <2>2 DEF Boot, Command, Hopeless
    <3>2. CASE site' = [site EXCEPT !.up = TRUE] /\ NoSiteEvent /\ Proceeds(w)
               /\ UNCHANGED siteUpsets
      <4>1. [site EXCEPT !.up = TRUE] = [site EXCEPT !.box = site.box, !.up = TRUE]
        BY <1>2 DEF SiteState
      <4> QED
        BY <1>3, <3>1, <3>2, <4>1
    <3>3. CASE (SiteEvent \/ NoSiteEvent) /\ Breaks(w, "failed") /\ site' = site
      BY <1>3, <3>1, <3>3
    <3> QED
      BY <2>2, <3>2, <3>3 DEF Boot, Command, Hopeless, NoSiteEvent
  <2> QED
    BY <2>1, <2>2
<1>5. site' \in SiteState /\ ReleasesOwn'
  BY <1>2, <1>4, BoxType DEF SiteInv, ReleasesOwn
<1>6. CASE /\ up /\ site' = [site EXCEPT !.box = box, !.up = up]
           /\ NoSiteEvent /\ Proceeds(w) /\ UNCHANGED siteUpsets
  <2>1. site'.box = box /\ site'.up
    BY <1>6, BoxType
  <2>2. ASSUME siteUpsets = {}, direct[w].does \in {"deploy", "start"}
        PROVE  rest = <<"probe">> /\ Served' = Whole(b)
    <3>1. hostKind = "docker" /\ box = b /\ rest = <<"probe">>
      BY <1>1, <1>4, <2>2, DueFacts DEF DeployGoesOn, StartGoesOn, Startable
    <3> QED
      BY <1>4, <2>1, <3>1, ServedNext
  <2>3. ASSUME siteUpsets = {}
        PROVE  /\ direct[w].does = "deploy" => DeployCourse(rest, b)'
               /\ direct[w].does = "start" => StartCourse(rest, b)'
               /\ direct[w].does \notin {"stop", "remove"}
    BY <1>4, <2>2, <2>3, DueFacts DEF StopGoesOn, RemoveGoesOn, DeployCourse, StartCourse
  <2> QED
    BY <1>1, <1>4, <1>5, <1>6, <2>3, SiteFacts, ProceedKeeps DEF SiteInv
<1>7. CASE (SiteEvent \/ NoSiteEvent) /\ Breaks(w, result)
  BY <1>4, <1>5, <1>7, BreakKeeps
<1> QED
  BY <1>4, <1>6, <1>7

(* Halt: the container stays, so that the version can be started again. *)
LEMMA HaltKeeps ==
  ASSUME SiteInv, NEW w \in SiteWorkers, Halt(w)
  PROVE  SiteInv'
<1>1. PICK b, rest, was : /\ b = direct[w].build /\ rest = Tail(direct[w].todo)
                          /\ was = direct[w].was
  OBVIOUS
<1>2. /\ Due(w, "halt") /\ UNCHANGED <<hostKind, shown, siteLock, siteUpsets>> /\ Proceeds(w)
      /\ SiteEvent \/ NoSiteEvent
      /\ site' = site \/ site' = [site EXCEPT !.up = FALSE]
  BY DEF Halt, EasyCommand
<1>3. site \in SiteState
  BY SiteFacts DEF SiteInv
<1>4. /\ site' \in SiteState /\ ReleasesOwn'
      /\ site'.release = site.release /\ site'.box = site.box
  <2>1. /\ site' \in SiteState
        /\ site'.release = site.release /\ site'.box = site.box
    BY <1>2, <1>3 DEF SiteState
  <2> QED
    BY <2>1 DEF SiteInv, ReleasesOwn
<1>5. ASSUME siteUpsets = {}
      PROVE  /\ direct[w].does \notin {"deploy", "start", "remove"}
             /\ direct[w].does = "stop" => StopCourse(rest, b)'
  <2>1. direct[w].does \notin {"deploy", "start", "remove"}
    BY <1>2, <1>5, DueFacts DEF DeployGoesOn, StartGoesOn, RemoveGoesOn
  <2>2. ASSUME direct[w].does = "stop" PROVE rest = <<>> /\ Startable(b)
    BY <1>1, <1>2, <1>5, <2>2, DueFacts, ServedStartable DEF StopGoesOn
  <2>3. Startable(b) => Startable(b)'
    BY <1>2, <1>4 DEF Startable
  <2> QED
    BY <2>1, <2>2, <2>3 DEF StopCourse
<1> QED
  BY <1>1, <1>2, <1>4, <1>5, SiteFacts, ProceedKeeps DEF SiteInv

(* Probe: what answers is what was deployed, since only this operation has touched it. *)
LEMMA ProbeKeeps ==
  ASSUME SiteInv, NEW w \in SiteWorkers, Probe(w)
  PROVE  SiteInv'
<1>1. PICK b, rest, was : /\ b = direct[w].build /\ rest = Tail(direct[w].todo)
                          /\ was = direct[w].was
  OBVIOUS
<1>2. /\ Due(w, "probe") /\ UNCHANGED <<hostKind, shown, siteLock, siteUpsets>>
      /\ SiteEvent \/ NoSiteEvent
      /\ \/ site' = site /\ Proceeds(w)
         \/ site' \in {site, EmptySite} /\ Ends(w, "failed")
  BY DEF Probe, GivenUp
<1>3. site' \in SiteState /\ ReleasesOwn'
  <2>1. CASE site' = site
    BY <2>1, SiteFacts DEF SiteInv, ReleasesOwn
  <2>2. CASE site' = EmptySite
    BY <2>2, TreeFacts DEF ReleasesOwn
  <2> QED
    BY <1>2, <2>1, <2>2
<1>4. ASSUME siteUpsets = {} PROVE direct[w].does \notin {"stop", "remove"}
  BY <1>2, <1>4, DueFacts DEF StopGoesOn, RemoveGoesOn
<1>5. CASE site' = site /\ Proceeds(w)
  <2>1. ASSUME siteUpsets = {}
        PROVE  /\ direct[w].does = "deploy" => DeployCourse(rest, b)
               /\ direct[w].does = "start" => StartCourse(rest, b)
    BY <1>1, <1>2, <2>1, DueFacts DEF DeployGoesOn, StartGoesOn
  <2>2. ASSUME siteUpsets = {}
        PROVE  /\ direct[w].does = "deploy" => DeployCourse(rest, b)'
               /\ direct[w].does = "start" => StartCourse(rest, b)'
    BY <1>2, <1>5, <2>1, <2>2, SiteSame DEF DeployCourse, StartCourse
  <2> QED
    BY <1>1, <1>2, <1>3, <1>4, <1>5, <2>2, SiteFacts, ProceedKeeps DEF SiteInv
<1>6. CASE Ends(w, "failed")
  BY <1>1, <1>2, <1>3, <1>4, <1>6, SiteFacts, EndKeeps DEF SiteInv
<1> QED
  BY <1>2, <1>5, <1>6

(* The commands of every operation on every kind of host. *)
LEMMA CommandsFacts ==
  ASSUME SiteTypeOK
  PROVE  /\ \A does \in {"deploy", "start", "stop", "remove", "undo"} :
              CommandsOf(does) \in Seq(Commands)
         /\ Removing \in Seq(Commands)
         /\ \A b : DeployCourse(CommandsOf("deploy"), b)
         /\ \A b : Startable(b) => StartCourse(CommandsOf("start"), b)
         /\ \A b : Served = Whole(b) => StopCourse(CommandsOf("stop"), b)
         /\ \A status, b : KeptAs(status, b) => RemoveCourse(CommandsOf("remove"), status, b)
<1>1. /\ CommandsOf("deploy") = Deploying /\ CommandsOf("start") = Starting
      /\ CommandsOf("stop") = Stopping /\ CommandsOf("remove") = Removing
      /\ CommandsOf("undo") = Removing
  BY DEF CommandsOf
<1>2. CASE hostKind = "shell"
  <2>1. /\ Deploying = <<"connect", "unpack", "swap", "probe">>
        /\ Starting = <<"connect", "unlink", "symlink", "probe">>
        /\ Stopping = <<"connect", "unlink">>
        /\ Removing = <<"connect", "wipe", "wipeData">>
    BY <1>2 DEF Deploying, Starting, Stopping, Removing
  <2>2. /\ Deploying \in Seq(Commands) /\ Starting \in Seq(Commands)
        /\ Stopping \in Seq(Commands) /\ Removing \in Seq(Commands)
    BY <2>1 DEF Commands
  <2> QED
    BY <1>1, <1>2, <2>1, <2>2 DEF DeployCourse, StartCourse, StopCourse, RemoveCourse
<1>3. CASE hostKind = "files"
  <2>1. /\ Deploying = <<"connect", "stage", "empty", "rename", "probe">>
        /\ Starting = <<"connect", "unlink", "symlink", "probe">>
        /\ Stopping = <<"connect", "unlink">>
        /\ Removing = <<"connect", "empty">>
    BY <1>3 DEF Deploying, Starting, Stopping, Removing
  <2>2. /\ Deploying \in Seq(Commands) /\ Starting \in Seq(Commands)
        /\ Stopping \in Seq(Commands) /\ Removing \in Seq(Commands)
    BY <2>1 DEF Commands
  <2> QED
    BY <1>1, <1>3, <2>1, <2>2 DEF DeployCourse, StartCourse, StopCourse, RemoveCourse
<1>4. CASE hostKind = "link"
  <2>1. /\ Deploying = <<"connect", "upload", "unlink", "symlink", "probe">>
        /\ Starting = <<"connect", "unlink", "symlink", "probe">>
        /\ Stopping = <<"connect", "unlink">>
        /\ Removing = <<"connect", "unlink", "purge">>
    BY <1>4 DEF Deploying, Starting, Stopping, Removing
  <2>2. /\ Deploying \in Seq(Commands) /\ Starting \in Seq(Commands)
        /\ Stopping \in Seq(Commands) /\ Removing \in Seq(Commands)
    BY <2>1 DEF Commands
  <2> QED
    BY <1>1, <1>4, <2>1, <2>2 DEF DeployCourse, StartCourse, StopCourse, RemoveCourse
<1>5. CASE hostKind = "docker"
  <2>1. /\ Deploying = <<"connect", "discard", "run", "probe">>
        /\ Starting = <<"connect", "boot", "probe">>
        /\ Stopping = <<"connect", "halt">>
        /\ Removing = <<"connect", "discard">>
    BY <1>5 DEF Deploying, Starting, Stopping, Removing
  <2>2. /\ Deploying \in Seq(Commands) /\ Starting \in Seq(Commands)
        /\ Stopping \in Seq(Commands) /\ Removing \in Seq(Commands)
    BY <2>1 DEF Commands
  <2> QED
    BY <1>1, <1>5, <2>1, <2>2 DEF DeployCourse, StartCourse, StopCourse, RemoveCourse
<1> QED
  BY <1>2, <1>3, <1>4, <1>5, SiteFacts

(* Nothing that nobody touches changes its course. *)
LEMMA CourseSame ==
  ASSUME UNCHANGED <<hostKind, site>>, NEW x,
         /\ direct'[x].does = direct[x].does /\ direct'[x].build = direct[x].build
         /\ direct'[x].was = direct[x].was /\ direct'[x].todo = direct[x].todo
         /\ direct'[x].result = direct[x].result,
         OnCourse(direct[x])
  PROVE  OnCourse(direct[x])'
<1>1. \A t, b : DeployCourse(t, b) => DeployCourse(t, b)'
  BY SiteSame DEF DeployCourse
<1>2. \A t, b : StartCourse(t, b) => StartCourse(t, b)'
  BY SiteSame DEF StartCourse
<1>3. \A t, b : StopCourse(t, b) => StopCourse(t, b)'
  BY SiteSame DEF StopCourse
<1>4. \A t, status, b : RemoveCourse(t, status, b) => RemoveCourse(t, status, b)'
  BY SiteSame DEF RemoveCourse
<1> QED
  BY <1>1, <1>2, <1>3, <1>4, SiteSame DEF OnCourse

\* What a worker is handed, or the order of a worker that has nothing to do.
NewOrders == [does : {"none", "deploy", "start", "stop", "remove"},
              build : Builds \cup {NoBuild}, was : Statuses, begun : {FALSE},
              todo : {<<>>}, result : {"ok"}, cancelled : BOOLEAN]

(* They are orders, and nobody's order is one of them. *)
LEMMA NewOrderFacts ==
  /\ NewOrders \subseteq Orders
  /\ NoOrder \in NewOrders
  /\ \A cancelled \in BOOLEAN : [NoOrder EXCEPT !.cancelled = cancelled] \in NewOrders
<1>1. <<>> \in Seq(Commands)
  OBVIOUS
<1>2. NewOrders \subseteq Orders
  BY <1>1 DEF NewOrders, Orders
<1>3. /\ NoOrder \in NewOrders
      /\ \A cancelled \in BOOLEAN : [NoOrder EXCEPT !.cancelled = cancelled] \in NewOrders
  BY DEF NoOrder, NewOrders, Statuses
<1> QED
  BY <1>2, <1>3

(* A worker gets an order that it has not begun, or none, and may give up the lock. *)
LEMMA OrderKeeps ==
  ASSUME SiteInv, NEW w \in SiteWorkers, NEW new \in NewOrders, WellAsked(new),
         direct' = [direct EXCEPT ![w] = new],
         UNCHANGED <<hostKind, site>>,
         siteEvents' \in 0 .. MaxSiteEvents,
         siteUpsets' = siteUpsets,
         shown' \in [status : Statuses, build : Builds \cup {NoBuild}],
         \/ UNCHANGED <<shown, siteLock>>
         \/ /\ siteLock = w /\ siteLock' = 0
            /\ siteUpsets = {} => KeptAs(shown'.status, shown'.build)
  PROVE  SiteInv'
<1>1. new \in Orders /\ ~new.begun
  BY NewOrderFacts DEF NewOrders
<1>2. /\ direct \in [SiteWorkers -> Orders] /\ siteLock \in SiteWorkers \cup {0}
      /\ 0 \notin SiteWorkers
  BY SiteFacts DEF SiteInv
<1>3. /\ direct' \in [SiteWorkers -> Orders] /\ direct'[w] = new
      /\ \A x \in SiteWorkers : x # w => direct'[x] = direct[x]
      /\ siteLock' \in SiteWorkers \cup {0}
  BY <1>1, <1>2
<1>4. SiteTypeOK' /\ ReleasesOwn' /\ BegunDoes'
  <2>1. BegunDoes'
    BY <1>1, <1>3 DEF SiteInv, BegunDoes
  <2>2. ReleasesOwn'
    BY DEF SiteInv, ReleasesOwn
  <2>3. SiteTypeOK'
    BY <1>3, SiteFacts DEF SiteInv, SiteTypeOK, SiteState, Orders, Upsets
  <2> QED
    BY <2>1, <2>2, <2>3
<1>5. ASSUME siteUpsets' = {}
      PROVE  OneAtWork' /\ AskedForm' /\ WorkOnCourse' /\ AtRest'
  <2>1. OneAtWork /\ AskedForm /\ WorkOnCourse /\ AtRest
    BY <1>5 DEF SiteInv
  <2>2. \A x \in SiteWorkers : direct'[x].begun => x # w /\ direct[x].begun
    BY <1>1, <1>3
  <2>3. OneAtWork'
    BY <2>1, <2>2 DEF OneAtWork
  <2>4. AskedForm'
    BY <1>1, <1>3, <2>1 DEF AskedForm, WellAsked
  <2>5. ASSUME NEW x \in SiteWorkers, direct'[x].begun
        PROVE  /\ OnCourse(direct[x])'
               /\ direct'[x].does \in {"deploy", "start"} => direct'[x].build \in Builds
               /\ direct'[x].does \in {"start", "stop", "remove"}
                    => shown'.build = direct'[x].build
    <3>1. direct'[x] = direct[x] /\ direct[x].begun /\ siteLock = x /\ x # w
      BY <1>3, <2>1, <2>2, <2>5 DEF OneAtWork
    <3> QED
      BY <2>1, <3>1, CourseSame DEF WorkOnCourse
  <2>6. WorkOnCourse'
    BY <2>5 DEF WorkOnCourse
  <2>7. AtRest'
    BY <1>5, <2>1, SiteSame DEF AtRest
  <2> QED
    BY <2>3, <2>4, <2>6, <2>7
<1> QED
  BY <1>4, <1>5 DEF SiteInv

(* AskDirect: what is asked for was right when the row was read. *)
LEMMA AskKeeps ==
  ASSUME SiteInv, NEW w \in SiteWorkers, AskDirect(w)
  PROVE  SiteInv'
<1>1. PICK does \in {"deploy", "start", "stop", "remove"}, b \in Builds \cup {NoBuild} :
        /\ does = "deploy" => b # NoBuild
        /\ does = "start" => shown.status = "stopped" /\ b # NoBuild
        /\ does = "stop" => shown.status = "running"
        /\ direct' = [direct EXCEPT ![w] = [NoOrder EXCEPT
                          !.does = does, !.build = b, !.was = shown.status]]
  BY DEF AskDirect
<1> DEFINE new == [NoOrder EXCEPT !.does = does, !.build = b, !.was = shown.status]
<1>2. shown.status \in Statuses
  BY SiteFacts DEF SiteInv
<1>3. new \in NewOrders /\ WellAsked(new)
  <2>1. /\ new.does = does /\ new.build = b /\ new.was = shown.status /\ ~new.begun
        /\ new.result = "ok" /\ new \in NewOrders
    BY <1>2, NewOrderFacts DEF NewOrders, NoOrder
  <2> QED
    BY <1>1, <2>1 DEF WellAsked
<1>4. direct' = [direct EXCEPT ![w] = new]
  BY <1>1
<1>5. /\ UNCHANGED <<hostKind, site, shown, siteLock, siteEvents, siteUpsets>>
  BY DEF AskDirect
<1> HIDE DEF new
<1> QED
  BY <1>3, <1>4, <1>5, SiteFacts, OrderKeeps DEF SiteInv

(* What a worker without an order may do. *)
LEMMA NoOrderAsked ==
  ASSUME NEW cancelled \in BOOLEAN
  PROVE  WellAsked(NoOrder) /\ WellAsked([NoOrder EXCEPT !.cancelled = cancelled])
  BY DEF WellAsked, NoOrder

(* BeginDirect: the lock is taken, and the row is the one that was read. *)
LEMMA SiteBeginKeeps ==
  ASSUME SiteInv, NEW w \in SiteWorkers, BeginDirect(w)
  PROVE  SiteInv'
<1>1. /\ direct[w].does # "none" /\ ~direct[w].begun /\ direct[w] \in Orders
      /\ UNCHANGED <<hostKind, site, siteEvents>>
      /\ direct \in [SiteWorkers -> Orders]
  BY SiteFacts DEF BeginDirect, SiteInv
<1>2. CASE siteLock # 0
  BY <1>1, <1>2, SiteFacts, NoOrderAsked, NewOrderFacts, OrderKeeps DEF BeginDirect, SiteInv
<1>3. CASE siteLock = 0
  <2> DEFINE build == IF direct[w].does = "start" THEN shown.build ELSE direct[w].build
             new == [direct[w] EXCEPT !.begun = TRUE, !.todo = CommandsOf(direct[w].does),
                                      !.build = build]
  <2>1. /\ siteLock' = w /\ shown' = [shown EXCEPT !.status = "deploying"]
        /\ direct' = [direct EXCEPT ![w] = new]
        /\ siteUpsets' \subseteq Upsets /\ siteUpsets \subseteq siteUpsets'
        /\ siteUpsets' = {} /\ direct[w].does # "deploy"
             => shown = [status |-> direct[w].was, build |-> direct[w].build]
    BY <1>1, <1>3, SiteFacts DEF BeginDirect, Disturb, SiteInv, Upsets
  <2>2. CommandsOf(direct[w].does) \in Seq(Commands)
    BY <1>1, CommandsFacts DEF SiteInv, Orders
  <2>3. /\ new \in Orders /\ new.begun /\ new.todo = CommandsOf(direct[w].does)
        /\ siteUpsets' = {} => new.build = direct[w].build
        /\ new.does = direct[w].does
        /\ new.was = direct[w].was /\ new.result = direct[w].result
    <3>1. /\ build \in Builds \cup {NoBuild}
          /\ siteUpsets' = {} => build = direct[w].build
      BY <1>1, <2>1, SiteFacts DEF SiteInv, Orders
    <3> HIDE DEF build
    <3> QED
      BY <1>1, <2>2, <3>1 DEF Orders
  <2> HIDE DEF new, build
  <2>4. /\ direct' \in [SiteWorkers -> Orders] /\ direct'[w] = new
        /\ \A x \in SiteWorkers : x # w => direct'[x] = direct[x]
    BY <1>1, <2>1, <2>3
  <2>5. /\ shown' \in [status : Statuses, build : Builds \cup {NoBuild}]
        /\ shown'.build = shown.build
    BY <2>1, SiteFacts DEF SiteInv, Statuses
  <2>6. SiteTypeOK' /\ ReleasesOwn' /\ BegunDoes'
    <3>1. BegunDoes'
      BY <1>1, <2>3, <2>4 DEF SiteInv, BegunDoes
    <3>2. ReleasesOwn'
      BY <1>1 DEF SiteInv, ReleasesOwn
    <3>3. SiteTypeOK'
      BY <1>1, <2>1, <2>4, <2>5, SiteFacts DEF SiteInv, SiteTypeOK, SiteState, Orders, Upsets
    <3> QED
      BY <3>1, <3>2, <3>3
  <2>7. ASSUME siteUpsets' = {}
        PROVE  OneAtWork' /\ AskedForm' /\ WorkOnCourse' /\ AtRest'
    <3>1. siteUpsets = {} /\ OneAtWork /\ AskedForm /\ WorkOnCourse /\ AtRest
      BY <2>1, <2>7 DEF SiteInv
    <3>2. \A x \in SiteWorkers : ~direct[x].begun /\ (x # w => ~direct'[x].begun)
      BY <1>3, <2>4, <3>1, SiteFacts DEF OneAtWork, SiteInv
    <3>3. OneAtWork' /\ AtRest'
      BY <2>1, <3>2, SiteFacts DEF OneAtWork, AtRest, SiteInv
    <3>4. AskedForm'
      BY <2>3, <2>4, <3>1 DEF AskedForm, WellAsked
    <3>5. WellAsked(direct[w]) /\ KeptAs(shown.status, shown.build)
      BY <1>1, <1>3, <3>1 DEF AskedForm, AtRest
    <3>6. /\ new.does = "deploy" => DeployCourse(new.todo, new.build)
          /\ new.does = "start" => StartCourse(new.todo, new.build)
          /\ new.does = "stop" => StopCourse(new.todo, new.build)
          /\ new.does = "remove" => RemoveCourse(new.todo, new.was, new.build)
          /\ new.does # "deploy" => shown.build = new.build
      <4>1. ASSUME direct[w].does # "deploy"
            PROVE  /\ shown.status = direct[w].was /\ shown.build = direct[w].build
                   /\ KeptAs(direct[w].was, direct[w].build)
        BY <2>1, <2>7, <3>5, <4>1
      <4>2. /\ direct[w].does = "start" => Startable(direct[w].build)
            /\ direct[w].does = "stop" => Served = Whole(direct[w].build)
        BY <3>5, <4>1 DEF WellAsked, KeptAs
      <4> QED
        BY <2>3, <2>7, <4>1, <4>2, CommandsFacts DEF SiteInv
    <3>7. OnCourse(direct[w])'
      <4>1. /\ \A t, b : DeployCourse(t, b) => DeployCourse(t, b)'
            /\ \A t, b : StartCourse(t, b) => StartCourse(t, b)'
            /\ \A t, b : StopCourse(t, b) => StopCourse(t, b)'
            /\ \A t, status, b : RemoveCourse(t, status, b) => RemoveCourse(t, status, b)'
        BY <1>1, SiteSame DEF DeployCourse, StartCourse, StopCourse, RemoveCourse
      <4>2. direct'[w] = new /\ new.result = "ok"
        BY <2>3, <2>4, <3>5 DEF WellAsked
      <4> QED
        BY <3>6, <4>1, <4>2 DEF OnCourse
    <3>8. WorkOnCourse'
      BY <2>3, <2>4, <2>5, <2>7, <3>2, <3>5, <3>6, <3>7 DEF WorkOnCourse, WellAsked
    <3> QED
      BY <3>3, <3>4, <3>8
  <2> QED
    BY <2>6, <2>7 DEF SiteInv
<1> QED
  BY <1>2, <1>3

(* TearDownCancelled and CancelDirect change the order of a worker that has begun. *)
LEMMA CancelKeeps ==
  ASSUME SiteInv, NEW w \in SiteWorkers, TearDownCancelled(w) \/ CancelDirect(w)
  PROVE  SiteInv'
<1>1. direct \in [SiteWorkers -> Orders]
  BY SiteFacts DEF SiteInv
<1>2. PICK new \in Orders :
        /\ direct' = [direct EXCEPT ![w] = new]
        /\ new.begun = direct[w].begun
        /\ \/ /\ new.does = direct[w].does /\ new.build = direct[w].build
              /\ new.was = direct[w].was /\ new.todo = direct[w].todo
              /\ new.result = direct[w].result
           \/ new.does = "undo" /\ new.result = "ok" /\ new.begun
  <2>1. CASE TearDownCancelled(w)
    <3> DEFINE new == [direct[w] EXCEPT !.does = "undo", !.todo = Removing, !.result = "ok"]
    <3>1. direct' = [direct EXCEPT ![w] = new] /\ direct[w].begun
      BY <1>1, <2>1 DEF TearDownCancelled, Over
    <3>2. new \in Orders /\ new.does = "undo" /\ new.result = "ok" /\ new.begun = direct[w].begun
      BY <1>1, CommandsFacts DEF SiteInv, Orders
    <3> QED
      BY <3>1, <3>2
  <2>2. CASE CancelDirect(w)
    <3> DEFINE new == [direct[w] EXCEPT !.cancelled = TRUE]
    <3>1. direct' = [direct EXCEPT ![w] = new]
      BY <1>1, <2>2 DEF CancelDirect
    <3>2. /\ new \in Orders /\ new.begun = direct[w].begun
          /\ new.does = direct[w].does /\ new.build = direct[w].build
          /\ new.was = direct[w].was /\ new.todo = direct[w].todo
          /\ new.result = direct[w].result
      BY <1>1 DEF Orders
    <3> QED
      BY <3>1, <3>2
  <2> QED
    BY <2>1, <2>2
<1>3. /\ direct' \in [SiteWorkers -> Orders] /\ direct'[w] = new
      /\ \A x \in SiteWorkers : x # w => direct'[x] = direct[x]
  BY <1>1, <1>2
<1>4. UNCHANGED <<hostKind, site, shown, siteLock, siteUpsets>> /\ siteLock = w
  BY DEF TearDownCancelled, CancelDirect
<1>5. siteEvents' \in 0 .. MaxSiteEvents
  BY EventCounted DEF TearDownCancelled, CancelDirect, SiteInv, NoSiteEvent
<1>6. SiteTypeOK' /\ ReleasesOwn' /\ BegunDoes'
  <2>1. BegunDoes'
    BY <1>2, <1>3 DEF SiteInv, BegunDoes
  <2>2. ReleasesOwn'
    BY <1>4 DEF SiteInv, ReleasesOwn
  <2>3. SiteTypeOK'
    BY <1>3, <1>4, <1>5, SiteFacts DEF SiteInv, SiteTypeOK, SiteState, Orders, Upsets
  <2> QED
    BY <2>1, <2>2, <2>3
<1>7. ASSUME siteUpsets' = {}
      PROVE  OneAtWork' /\ AskedForm' /\ WorkOnCourse' /\ AtRest'
  <2>1. OneAtWork /\ AskedForm /\ WorkOnCourse
    BY <1>4, <1>7 DEF SiteInv
  <2>2. OneAtWork' /\ AskedForm' /\ AtRest'
    BY <1>2, <1>3, <1>4, <2>1, SiteFacts DEF OneAtWork, AskedForm, AtRest, SiteInv, WellAsked
  <2>3. ASSUME direct'[w].begun
        PROVE  /\ OnCourse(direct[w])'
               /\ direct'[w].does \in {"deploy", "start"} => direct'[w].build \in Builds
               /\ direct'[w].does \in {"start", "stop", "remove"}
                    => shown'.build = direct'[w].build
    <3>1. CASE new.does = "undo" /\ new.result = "ok"
      BY <1>3, <3>1 DEF OnCourse
    <3>2. CASE /\ new.does = direct[w].does /\ new.build = direct[w].build
               /\ new.was = direct[w].was /\ new.todo = direct[w].todo
               /\ new.result = direct[w].result
      BY <1>2, <1>3, <1>4, <2>1, <2>3, <3>2, CourseSame DEF WorkOnCourse
    <3> QED
      BY <1>2, <3>1, <3>2
  <2>4. \A x \in SiteWorkers : x # w => ~direct'[x].begun
    BY <1>3, <1>4, <2>1 DEF OneAtWork
  <2>5. WorkOnCourse'
    BY <2>3, <2>4 DEF WorkOnCourse
  <2> QED
    BY <2>2, <2>5
<1> QED
  BY <1>6, <1>7 DEF SiteInv

(* PublishDirect: what is published is what the work has achieved. *)
LEMMA SitePublishKeeps ==
  ASSUME SiteInv, NEW w \in SiteWorkers, PublishDirect(w)
  PROVE  SiteInv'
<1>1. /\ direct[w].begun /\ direct[w].todo = <<>> /\ siteLock = w /\ siteLock' = 0
      /\ shown' = Outcome(direct[w]) /\ direct' = [direct EXCEPT ![w] = NoOrder]
      /\ UNCHANGED <<hostKind, site, siteEvents, siteUpsets>>
      /\ direct[w] \in Orders
      /\ shown \in [status : Statuses, build : Builds \cup {NoBuild}]
  BY SiteFacts DEF PublishDirect, Over, SiteInv
<1>2. direct[w].does # "none"
  BY <1>1 DEF SiteInv, BegunDoes
<1>3. CASE direct[w].result = "ok" /\ direct[w].does = "deploy"
  <2>1. shown' = [status |-> "running", build |-> direct[w].build]
    BY <1>1, <1>3 DEF Outcome
  <2>2. siteUpsets = {} => DeployCourse(<<>>, direct[w].build)
    BY <1>1, <1>3 DEF SiteInv, WorkOnCourse, OnCourse
  <2>3. siteUpsets = {} => KeptAs(shown'.status, shown'.build)
    BY <2>1, <2>2 DEF DeployCourse, KeptAs
  <2>4. shown' \in [status : Statuses, build : Builds \cup {NoBuild}]
    BY <1>1, <2>1 DEF Statuses, Orders
  <2> QED
    BY <1>1, <2>3, <2>4, SiteFacts, NoOrderAsked, NewOrderFacts, OrderKeeps DEF SiteInv
<1>4. CASE direct[w].result = "ok" /\ direct[w].does = "start"
  <2>1. shown' = [shown EXCEPT !.status = "running"]
    BY <1>1, <1>4 DEF Outcome
  <2>2. siteUpsets = {}
          => StartCourse(<<>>, direct[w].build) /\ shown.build = direct[w].build
    BY <1>1, <1>4 DEF SiteInv, WorkOnCourse, OnCourse
  <2>3. siteUpsets = {} => KeptAs(shown'.status, shown'.build)
    BY <1>1, <2>1, <2>2 DEF StartCourse, KeptAs
  <2>4. shown' \in [status : Statuses, build : Builds \cup {NoBuild}]
    BY <1>1, <2>1 DEF Statuses
  <2> QED
    BY <1>1, <2>3, <2>4, SiteFacts, NoOrderAsked, NewOrderFacts, OrderKeeps DEF SiteInv
<1>5. CASE direct[w].result = "ok" /\ direct[w].does = "stop"
  <2>1. shown' = [shown EXCEPT !.status = "stopped"]
    BY <1>1, <1>5 DEF Outcome
  <2>2. siteUpsets = {}
          => StopCourse(<<>>, direct[w].build) /\ shown.build = direct[w].build
    BY <1>1, <1>5 DEF SiteInv, WorkOnCourse, OnCourse
  <2>3. siteUpsets = {} => KeptAs(shown'.status, shown'.build)
    BY <1>1, <2>1, <2>2 DEF StopCourse, KeptAs
  <2>4. shown' \in [status : Statuses, build : Builds \cup {NoBuild}]
    BY <1>1, <2>1 DEF Statuses
  <2> QED
    BY <1>1, <2>3, <2>4, SiteFacts, NoOrderAsked, NewOrderFacts, OrderKeeps DEF SiteInv
<1>6. CASE direct[w].result = "ok" /\ direct[w].does \in {"remove", "undo"}
  <2>1. shown' = [status |-> "empty", build |-> NoBuild]
    BY <1>1, <1>6 DEF Outcome
  <2>2. /\ shown' \in [status : Statuses, build : Builds \cup {NoBuild}]
        /\ KeptAs(shown'.status, shown'.build)
    BY <2>1 DEF KeptAs, Statuses
  <2> QED
    BY <1>1, <2>2, SiteFacts, NoOrderAsked, NewOrderFacts, OrderKeeps DEF SiteInv
<1>7. CASE direct[w].result # "ok" /\ direct[w].does \in {"stop", "remove"}
  <2>1. shown' = [shown EXCEPT !.status = direct[w].was]
    BY <1>1, <1>7 DEF Outcome
  <2>2. siteUpsets = {}
          => KeptAs(direct[w].was, direct[w].build) /\ shown.build = direct[w].build
    BY <1>1, <1>7 DEF SiteInv, WorkOnCourse, OnCourse
  <2>3. siteUpsets = {} => KeptAs(shown'.status, shown'.build)
    BY <1>1, <2>1, <2>2
  <2>4. shown' \in [status : Statuses, build : Builds \cup {NoBuild}]
    BY <1>1, <2>1 DEF Orders
  <2> QED
    BY <1>1, <2>3, <2>4, SiteFacts, NoOrderAsked, NewOrderFacts, OrderKeeps DEF SiteInv
<1>8. CASE direct[w].result # "ok" /\ direct[w].does \notin {"stop", "remove"}
  <2>1. shown' = [shown EXCEPT !.status = "failed"]
    BY <1>1, <1>8 DEF Outcome
  <2>2. /\ shown' \in [status : Statuses, build : Builds \cup {NoBuild}]
        /\ KeptAs(shown'.status, shown'.build)
    BY <1>1, <2>1 DEF KeptAs, Statuses
  <2> QED
    BY <1>1, <2>2, SiteFacts, NoOrderAsked, NewOrderFacts, OrderKeeps DEF SiteInv
<1> QED
  BY <1>1, <1>2, <1>3, <1>4, <1>5, <1>6, <1>7, <1>8 DEF Orders

(* PublishRefusedDirect, DirectDies and RecoverDirect: the work ends without a result. *)
LEMMA AbandonKeeps ==
  ASSUME SiteInv, NEW w \in SiteWorkers,
         PublishRefusedDirect(w) \/ DirectDies(w) \/ RecoverDirect(w)
  PROVE  SiteInv'
<1>1. direct \in [SiteWorkers -> Orders] /\ direct[w].cancelled \in BOOLEAN
  BY SiteFacts DEF SiteInv, Orders
<1>2. CASE PublishRefusedDirect(w)
  BY <1>2, SiteFacts, NoOrderAsked, NewOrderFacts, OrderKeeps DEF PublishRefusedDirect, SiteInv
<1>3. CASE DirectDies(w)
  <2>1. PICK new \in NewOrders : direct' = [direct EXCEPT ![w] = new] /\ WellAsked(new)
    <3> DEFINE dead == [NoOrder EXCEPT !.cancelled = direct[w].cancelled]
    <3>1. /\ dead \in NewOrders /\ WellAsked(dead)
          /\ NoOrder \in NewOrders /\ WellAsked(NoOrder)
      BY <1>1, NoOrderAsked, NewOrderFacts
    <3>2. direct' = [direct EXCEPT ![w] = IF siteLock = w THEN dead ELSE NoOrder]
      BY <1>3 DEF DirectDies
    <3> HIDE DEF dead
    <3> QED
      BY <3>1, <3>2
  <2>2. siteEvents' \in 0 .. MaxSiteEvents
    BY <1>3, EventCounted DEF DirectDies, SiteInv
  <2> QED
    BY <1>3, <2>1, <2>2, SiteFacts, OrderKeeps DEF DirectDies, SiteInv
<1>4. CASE RecoverDirect(w)
  <2>1. /\ siteLock = w /\ siteLock' = 0 /\ UNCHANGED <<hostKind, site>>
        /\ shown' \in [status : Statuses, build : Builds \cup {NoBuild}]
        /\ shown'.status \in {"empty", "failed"}
    BY <1>4, SiteFacts DEF RecoverDirect, SiteInv, Statuses
  <2>2. KeptAs(shown'.status, shown'.build)
    BY <2>1 DEF KeptAs
  <2>3. CASE direct[w].begun
    <3>1. /\ UNCHANGED direct /\ siteUpsets' = siteUpsets \cup {"overtaken"}
          /\ siteEvents' \in 0 .. MaxSiteEvents
      BY <1>4, <2>3, EventCounted DEF RecoverDirect, Disturb, SiteInv
    <3>2. siteUpsets' # {} /\ siteUpsets' \subseteq Upsets
      BY <3>1, SiteFacts DEF SiteInv, Upsets
    <3>3. SiteTypeOK'
      BY <2>1, <3>1, <3>2, SiteFacts DEF SiteInv, SiteTypeOK, SiteState, Orders, Upsets
    <3>4. ReleasesOwn' /\ BegunDoes'
      BY <2>1, <3>1 DEF SiteInv, ReleasesOwn, BegunDoes
    <3> QED
      BY <3>2, <3>3, <3>4 DEF SiteInv
  <2>4. CASE ~direct[w].begun
    <3>1. /\ direct' = [direct EXCEPT ![w] = NoOrder]
          /\ siteEvents' = siteEvents /\ siteUpsets' = siteUpsets
      BY <1>4, <2>4 DEF RecoverDirect
    <3>2. NoOrder \in NewOrders /\ WellAsked(NoOrder)
      BY NoOrderAsked, NewOrderFacts
    <3>3. siteEvents' \in 0 .. MaxSiteEvents
      BY <3>1, SiteFacts DEF SiteInv
    <3> QED
      BY <2>1, <2>2, <3>1, <3>2, <3>3, OrderKeeps
  <2> QED
    BY <2>3, <2>4
<1> QED
  BY <1>2, <1>3, <1>4

(* A host that InitPad deploys to itself: every step of SiteNext preserves the invariant. *)
LEMMA SiteStepKeeps ==
  ASSUME SiteInv, [SiteNext]_siteVars
  PROVE  SiteInv'
<1>1. ASSUME NEW w \in SiteWorkers,
             \/ AskDirect(w) \/ BeginDirect(w) \/ Reach(w)
             \/ Unpack(w) \/ Swap(w) \/ Stage(w) \/ Empty(w) \/ Rename(w) \/ Wipe(w)
             \/ WipeData(w) \/ Upload(w) \/ Unlink(w) \/ Symlink(w) \/ Purge(w)
             \/ DropBox(w) \/ RunBox(w) \/ Halt(w) \/ Boot(w) \/ Probe(w)
             \/ TearDownCancelled(w) \/ PublishDirect(w) \/ PublishRefusedDirect(w)
             \/ CancelDirect(w) \/ DirectDies(w) \/ RecoverDirect(w)
      PROVE  SiteInv'
  BY <1>1, AskKeeps, SiteBeginKeeps, ReachKeeps, StagingKeeps, FolderKeeps, EmptyKeeps, UploadKeeps,
     UnlinkKeeps, SymlinkKeeps, PurgeKeeps, DropBoxKeeps, BootKeeps, HaltKeeps, ProbeKeeps,
     CancelKeeps, SitePublishKeeps, AbandonKeeps
<1>2. CASE UNCHANGED siteVars
  <2>1. /\ UNCHANGED <<hostKind, site>>
        /\ \A x \in SiteWorkers : OnCourse(direct[x]) => OnCourse(direct[x])'
    BY <1>2, CourseSame DEF siteVars
  <2>2. SiteTypeOK' /\ ReleasesOwn' /\ BegunDoes'
    BY <1>2 DEF siteVars, SiteInv, SiteTypeOK, ReleasesOwn, BegunDoes
  <2>3. siteUpsets' = {} => OneAtWork' /\ AskedForm' /\ WorkOnCourse'
    BY <1>2, <2>1 DEF siteVars, SiteInv, OneAtWork, AskedForm, WorkOnCourse, WellAsked
  <2>4. siteUpsets' = {} => AtRest'
    BY <1>2, SiteSame DEF siteVars, SiteInv, AtRest
  <2> QED
    BY <2>2, <2>3, <2>4 DEF SiteInv
<1> QED
  BY <1>1, <1>2 DEF SiteNext

(* As long as nothing of what is excepted happens, one worker at a time is at work, what *)
(* it has achieved matches the commands that are left, and at rest the host matches the  *)
(* row (the providers' deploy, start, stop and teardown under activeOperationId).        *)
THEOREM SiteInvariant == SiteSpec => []SiteInv
<1>1. SiteInit => SiteInv
  <2> SUFFICES ASSUME SiteInit PROVE SiteInv
    OBVIOUS
  <2>1. direct \in [SiteWorkers -> Orders] /\ \A w \in SiteWorkers : direct[w] = NoOrder
    BY NewOrderFacts DEF SiteInit
  <2>2. NoOrder \in NewOrders /\ ~NoOrder.begun /\ WellAsked(NoOrder)
    BY NewOrderFacts, NoOrderAsked DEF NewOrders
  <2>3. SiteTypeOK
    <3>1. site \in SiteState
      BY TreeFacts DEF SiteInit
    <3>2. shown \in [status : Statuses, build : Builds \cup {NoBuild}]
      BY DEF SiteInit, Statuses
    <3>3. siteEvents \in 0 .. MaxSiteEvents
      BY DirectHostAssumption DEF SiteInit
    <3>4. /\ siteUpsets = {} /\ hostKind \in HostKinds /\ siteLock = 0
      BY DEF SiteInit
    <3> QED
      BY <2>1, <3>1, <3>2, <3>3, <3>4 DEF SiteTypeOK, SiteState, Orders
  <2>4. ReleasesOwn /\ BegunDoes
    BY <2>1, <2>2, TreeFacts DEF SiteInit, ReleasesOwn, BegunDoes
  <2>5. OneAtWork /\ AskedForm /\ WorkOnCourse /\ AtRest
    BY <2>1, <2>2 DEF SiteInit, OneAtWork, AskedForm, WorkOnCourse, AtRest, KeptAs
  <2> QED
    BY <2>3, <2>4, <2>5 DEF SiteInv
<1> QED
  BY <1>1, SiteStepKeeps, PTL DEF SiteSpec

(* An environment that is shown as running serves the version that it shows, and all of *)
(* it, on every kind of host (publishResult and recoverInterrupted over the providers).  *)
THEOREM RunningServes == SiteSpec => []RunningIsServed
<1>1. SiteInv => RunningIsServed
  BY DEF SiteInv, AtRest, KeptAs, RunningIsServed, ShownRunning
<1> QED
  BY <1>1, SiteInvariant, PTL

-----------------------------------------------------------------------------
(* ProjectProvisioning *)

\* Where a call that still carries out its attempt can be.
SetterSteps ==
    {"none", "check", "repository", "provision", "provisioned", "record", "project", "insert",
     "bind", "inserted", "unrecord", "unrepository", "unrepository, row kept",
     "secrets", "write", "written", "unsecrets", "unimport", "succeed", "fail"}
EffectStates == Safe \cup Compensable
AttemptStates == {"absent", "running", "succeeded", "failed", "interrupted", "retrying",
                  "retried", "cleaning"}
HelperSteps == {"idle", "retry", "start", "clean", "outside", "row", "finish", "release"}
\* A row of ProvisioningOperation, and a call that helps one.
AttemptState == [status : AttemptStates, bound : Attempts \cup {0}, of : Attempts \cup {0},
                 owner : ProvCalls \cup {0}]
HelperState ==
    {r \in [pc : HelperSteps, of : Attempts \cup {0}, seen : [Effects -> EffectStates],
            bound : Attempts \cup {0}] : r.pc # "idle" => r.of \in Attempts}

\* The rows and the calls are what the code writes.
ProvTypes ==
    /\ setup \in [kind : {"create", "import"}, scm : {"github", "gitea"}]
    /\ repository \in Attempts \cup {0, Somebody}
    /\ secrets \in Attempts \cup {0}
    /\ record \in Attempts \cup {0}
    /\ attempt \in [Attempts -> AttemptState]
    /\ effect \in [Attempts -> [Effects -> EffectStates]]
    /\ setter \in [Attempts -> SetterSteps]
    /\ helper \in [ProvCalls -> HelperState]
    /\ late \subseteq Attempts

\* An attempt follows another only when that one is retried, which is its end.
OneAtATime ==
    \A a \in Attempts :
        /\ attempt[a].status = "absent" =>
             effect[a] = NoEffects /\ \A b \in Attempts : b > a => attempt[b].status = "absent"
        /\ attempt[a].status # "absent" =>
             \A b \in Attempts : b < a => attempt[b].status = "retried"
        /\ attempt[a].status = "retried" => \A k \in Effects : effect[a][k] \in Safe

\* What exists because of an attempt is in its journal, as something to undo.
Journalled ==
    /\ \A a \in Attempts : repository = a => effect[a]["repository"] \notin Safe
    /\ \A a \in Attempts : secrets = a => effect[a]["secrets"] \notin Safe
    /\ \A a \in Attempts : attempt[a].bound # 0 => effect[a]["project"] \notin Safe

\* How far the journal is at each step of the call.
SetterOnCourse(a) ==
    /\ setter[a] # "none" => attempt[a].status = "running"
    /\ setter[a] \in {"check", "repository", "provision", "provisioned", "record", "project",
                      "insert", "bind", "unrepository"} => attempt[a].bound = 0
    /\ setter[a] = "check" => effect[a]["repository"] \in Safe
    /\ setter[a] \in {"provision", "provisioned"} => effect[a]["repository"] = "applying"
    /\ setter[a] = "repository" => effect[a]["repository"] = "planned"
    /\ setter[a] \in {"insert", "bind", "inserted", "secrets", "write", "written", "succeed",
                      "unrecord"} => effect[a]["project"] \notin Safe
    /\ setter[a] = "write" => effect[a]["secrets"] = "applying"

\* A cleanup at work has its attempt to itself; a retry has found nothing left of its own.
HelperOnCourse(h) ==
    LET a == helper[h].of IN
    /\ helper[h].pc # "idle" => setter[a] = "none" /\ attempt[a].status \notin {"absent", "running"}
    /\ helper[h].pc \in {"outside", "row", "finish", "release"} =>
         attempt[a].status = "cleaning" /\ attempt[a].owner = h
    /\ helper[h].pc \in {"retry", "start"} => \A k \in Effects : effect[a][k] \in Safe

\* All of it holds until a call outlasts its lease.
ProvSound ==
    /\ OneAtATime
    /\ Journalled
    /\ \A a \in Attempts : SetterOnCourse(a)
    /\ \A h \in ProvCalls : HelperOnCourse(h)

ProvInv == ProvTypes /\ (late = {} => ProvSound)

USE DEF Effects, Attempts, AttemptState

(* What transitionEffect() does to one effect, and that it touches no other. *)
LEMMA MovedFacts ==
    ASSUME effect \in [Attempts -> [Effects -> EffectStates]],
           NEW a \in Attempts, NEW k \in Effects, NEW from, NEW to \in EffectStates
    PROVE  /\ Moved(a, k, from, to) \in [Attempts -> [Effects -> EffectStates]]
           /\ \A c \in Attempts : c # a => Moved(a, k, from, to)[c] = effect[c]
           /\ \A j \in Effects : j # k => Moved(a, k, from, to)[a][j] = effect[a][j]
           /\ Moved(a, k, from, to)[a][k] = IF effect[a][k] \in from THEN to ELSE effect[a][k]
  BY DEF Moved

(* The journal's helpers: they touch no other effect, and neither a failure nor a failed   *)
(* compensation makes safe what was not.                                                   *)
LEMMA JournalFacts ==
    ASSUME effect \in [Attempts -> [Effects -> EffectStates]],
           NEW a \in Attempts, NEW k \in Effects,
           NEW new,
           new = Compensated(a, k) \/ new = NotCompensated(a, k) \/ new = FailedEffect(a, k)
    PROVE  /\ new \in [Attempts -> [Effects -> EffectStates]]
           /\ \A c \in Attempts : c # a => new[c] = effect[c]
           /\ \A j \in Effects : j # k => new[a][j] = effect[a][j]
           /\ effect[a][k] \notin Safe => new[a][k] \notin Safe \/ new = Compensated(a, k)
           /\ effect[a][k] \in Safe /\ new = NotCompensated(a, k) => new[a][k] \in Safe
           /\ new = Compensated(a, k) => new[a][k] \in Safe
<1>1. {"compensated", "compensation_failed", "failed"} \subseteq EffectStates
  BY DEF EffectStates, Safe, Compensable
<1>2. CASE new = Compensated(a, k)
  <2>1. /\ new \in [Attempts -> [Effects -> EffectStates]]
        /\ \A c \in Attempts : c # a => new[c] = effect[c]
        /\ \A j \in Effects : j # k => new[a][j] = effect[a][j]
        /\ new[a][k] = IF effect[a][k] \in Compensable THEN "compensated" ELSE effect[a][k]
    BY <1>1, <1>2 DEF Compensated, Moved
  <2>2. new[a][k] \in Safe
    BY <2>1 DEF Safe, EffectStates
  <2> QED
    BY <1>2, <2>1, <2>2
<1>3. CASE new = NotCompensated(a, k)
  <2>1. /\ new \in [Attempts -> [Effects -> EffectStates]]
        /\ \A c \in Attempts : c # a => new[c] = effect[c]
        /\ \A j \in Effects : j # k => new[a][j] = effect[a][j]
        /\ new[a][k] = IF effect[a][k] \in Compensable \ {"planned"} THEN "compensation_failed"
                       ELSE effect[a][k]
    BY <1>1, <1>3 DEF NotCompensated, Moved
  <2>2. effect[a][k] \notin Safe <=> new[a][k] \notin Safe
    BY <2>1 DEF Safe, Compensable
  <2>3. new = Compensated(a, k) => new[a][k] \in Safe
    BY <1>1, <2>1 DEF Compensated, Moved, Safe, EffectStates
  <2> QED
    BY <2>1, <2>2, <2>3
<1>4. CASE new = FailedEffect(a, k) /\ new # NotCompensated(a, k)
  <2>1. /\ new \in [Attempts -> [Effects -> EffectStates]]
        /\ \A c \in Attempts : c # a => new[c] = effect[c]
        /\ \A j \in Effects : j # k => new[a][j] = effect[a][j]
        /\ new[a][k] = IF effect[a][k] \in {"planned", "applying"} THEN "failed" ELSE effect[a][k]
    BY <1>1, <1>4 DEF FailedEffect, Moved
  <2>2. effect[a][k] \notin Safe => new[a][k] \notin Safe
    BY <2>1 DEF Safe
  <2>3. new = Compensated(a, k) => new[a][k] \in Safe
    BY <1>1, <2>1 DEF Compensated, Moved, Safe, EffectStates
  <2> QED
    BY <1>4, <2>1, <2>2, <2>3
<1> QED
  BY <1>2, <1>3, <1>4

-----------------------------------------------------------------------------
(* Steps of the call that carries attempt a out *)

\* What a step of create() or importExisting() may do; once no lease has been lost, also to
\* the journal.
SetupStep(a) ==
    /\ setter[a] # "none"
    /\ UNCHANGED <<setup, helper, late>>
    /\ repository' \in {repository, 0, a}
    /\ secrets' \in {secrets, 0, a}
    /\ record' \in {record, 0, a}
    /\ setter' \in [Attempts -> SetterSteps]
    /\ effect' \in [Attempts -> [Effects -> EffectStates]]
    /\ attempt' \in [Attempts -> AttemptState]
    /\ \A c \in Attempts : c # a => /\ setter'[c] = setter[c]
                                    /\ effect'[c] = effect[c]
                                    /\ attempt'[c] = attempt[c]
    /\ attempt'[a].status \in {attempt[a].status, "succeeded", "failed"}
    /\ late = {} =>
         /\ repository' = a => effect'[a]["repository"] \notin Safe
         /\ secrets' = a => effect'[a]["secrets"] \notin Safe
         /\ attempt'[a].bound # 0 => effect'[a]["project"] \notin Safe
         /\ SetterOnCourse(a)'

(* Such a step keeps the invariant: nobody else works on an attempt that its call still    *)
(* carries out.                                                                            *)
LEMMA SetupKeeps ==
    ASSUME ProvInv, NEW a \in Attempts, SetupStep(a)
    PROVE  ProvInv'
<1> USE DEF ProvInv
<1>1. ProvTypes'
  BY DEF ProvTypes, SetupStep
<1>2. SUFFICES ASSUME late = {}
               PROVE  ProvSound'
  BY <1>1 DEF SetupStep
<1>3. ProvSound /\ setter[a] # "none" /\ attempt[a].status = "running" /\ SetterOnCourse(a)'
  BY <1>2 DEF ProvSound, SetterOnCourse, SetupStep
<1>4. \A c \in Attempts : c # a => /\ setter'[c] = setter[c]
                                   /\ effect'[c] = effect[c]
                                   /\ attempt'[c] = attempt[c]
  BY DEF SetupStep
<1>5. attempt'[a].status \in {"running", "succeeded", "failed"}
  BY <1>3 DEF SetupStep
<1>6. OneAtATime'
  <2>1. ASSUME NEW c \in Attempts, attempt'[c].status = "absent"
        PROVE  effect'[c] = NoEffects /\ \A b \in Attempts : b > c => attempt'[b].status = "absent"
    <3>1. c # a /\ attempt[c].status = "absent"
      BY <1>4, <1>5, <2>1
    <3>2. effect[c] = NoEffects /\ \A b \in Attempts : b > c => attempt[b].status = "absent"
      BY <1>3, <3>1 DEF ProvSound, OneAtATime
    <3>3. \A b \in Attempts : b > c => b # a
      BY <1>3, <3>2
    <3> QED
      BY <1>4, <3>1, <3>2, <3>3
  <2>2. ASSUME NEW c \in Attempts, attempt'[c].status # "absent"
        PROVE  \A b \in Attempts : b < c => attempt'[b].status = "retried"
    <3>1. attempt[c].status # "absent"
      BY <1>3, <1>4, <2>2
    <3>2. \A b \in Attempts : b < c => attempt[b].status = "retried"
      BY <1>3, <3>1 DEF ProvSound, OneAtATime
    <3> QED
      BY <1>3, <1>4, <3>2
  <2>3. ASSUME NEW c \in Attempts, attempt'[c].status = "retried"
        PROVE  \A k \in Effects : effect'[c][k] \in Safe
    BY <1>3, <1>4, <1>5, <2>3 DEF ProvSound, OneAtATime
  <2> QED
    BY <2>1, <2>2, <2>3 DEF OneAtATime
<1>7. Journalled'
  <2>1. \A c \in Attempts : repository' = c => effect'[c]["repository"] \notin Safe
    BY <1>2, <1>3, <1>4 DEF SetupStep, ProvSound, Journalled
  <2>2. \A c \in Attempts : secrets' = c => effect'[c]["secrets"] \notin Safe
    BY <1>2, <1>3, <1>4 DEF SetupStep, ProvSound, Journalled
  <2>3. \A c \in Attempts : attempt'[c].bound # 0 => effect'[c]["project"] \notin Safe
    BY <1>2, <1>3, <1>4 DEF SetupStep, ProvSound, Journalled
  <2> QED
    BY <2>1, <2>2, <2>3 DEF Journalled
<1>8. \A c \in Attempts : SetterOnCourse(c)'
  BY <1>3, <1>4 DEF ProvSound, SetterOnCourse
<1>9. \A h \in ProvCalls : HelperOnCourse(h)'
  <2> SUFFICES ASSUME NEW h \in ProvCalls
               PROVE  HelperOnCourse(h)'
    OBVIOUS
  <2>1. helper' = helper /\ HelperOnCourse(h)
    BY <1>3 DEF SetupStep, ProvSound
  <2>2. CASE helper[h].pc = "idle"
    BY <2>1, <2>2 DEF HelperOnCourse
  <2>3. CASE helper[h].pc # "idle"
    <3>1. helper[h].of \in Attempts /\ helper[h].of # a
      BY <1>3, <2>1, <2>3 DEF HelperOnCourse, ProvTypes, HelperState
    <3> QED
      BY <1>4, <2>1, <3>1 DEF HelperOnCourse
  <2> QED
    BY <2>2, <2>3
<1> QED
  BY <1>6, <1>7, <1>8, <1>9 DEF ProvSound

\* What an action takes from the invariant before it: the types, and where the call is in
\* the journal.
CallKnown(a) ==
    /\ effect \in [Attempts -> [Effects -> EffectStates]]
    /\ setter \in [Attempts -> SetterSteps]
    /\ attempt \in [Attempts -> AttemptState]
    /\ a # 0 /\ repository \in Attempts \cup {0, Somebody}
    /\ late = {} => /\ SetterOnCourse(a)
                    /\ repository = a => effect[a]["repository"] \notin Safe
                    /\ secrets = a => effect[a]["secrets"] \notin Safe
                    /\ attempt[a].bound # 0 => effect[a]["project"] \notin Safe

(* That is known of every attempt.                                                         *)
LEMMA CallFacts ==
    ASSUME ProvInv, NEW a \in Attempts
    PROVE  CallKnown(a)
  BY DEF ProvInv, ProvTypes, ProvSound, Journalled, CallKnown

(* The call of an attempt goes to a step; the others stay where they are.                  *)
LEMMA GoesFacts ==
    ASSUME ProvInv, NEW a \in Attempts, NEW pc \in SetterSteps, Goes(a, pc)
    PROVE  /\ setter' \in [Attempts -> SetterSteps] /\ setter'[a] = pc
           /\ \A c \in Attempts : c # a => setter'[c] = setter[c]
  BY CallFacts DEF Goes, CallKnown

(* An effect is written without a look at what it was.                                     *)
LEMMA WrittenFacts ==
    ASSUME effect \in [Attempts -> [Effects -> EffectStates]],
           NEW a \in Attempts, NEW k \in Effects, NEW to \in EffectStates,
           effect' = [effect EXCEPT ![a][k] = to]
    PROVE  /\ effect' \in [Attempts -> [Effects -> EffectStates]]
           /\ \A c \in Attempts : c # a => effect'[c] = effect[c]
           /\ \A j \in Effects : j # k => effect'[a][j] = effect[a][j]
           /\ effect'[a][k] = to
  OBVIOUS

(* Before anything exists outside: the first effect is planned and begun.                  *)
LEMMA PlanningCalls ==
    ASSUME ProvInv, NEW a \in Attempts, PlanFirst(a) \/ BeginRepository(a)
    PROVE  SetupStep(a)
<1> USE DEF SetterSteps
<1>0. CallKnown(a)
  BY CallFacts
<1>t. /\ effect \in [Attempts -> [Effects -> EffectStates]]
      /\ attempt \in [Attempts -> AttemptState]
  BY <1>0 DEF CallKnown
<1>1. {"planned", "applying"} \subseteq EffectStates /\ "applying" \notin Safe
  BY DEF EffectStates, Safe, Compensable
<1>2. CASE PlanFirst(a)
  <2>1. /\ setter[a] = "check" /\ attempt' = attempt
        /\ UNCHANGED <<setup, repository, secrets, record, helper, late>>
    BY <1>2 DEF PlanFirst
  <2>2. CASE effect' = effect /\ Goes(a, "fail")
    <3>1. setter' \in [Attempts -> SetterSteps] /\ setter'[a] = "fail"
          /\ \A c \in Attempts : c # a => setter'[c] = setter[c]
      BY <2>2, GoesFacts
    <3> QED
      BY <1>0, <2>1, <2>2, <3>1 DEF SetupStep, SetterOnCourse, CallKnown
  <2>3. CASE /\ effect' = [effect EXCEPT ![a][FirstEffect] = "planned"]
             /\ Goes(a, IF Creates THEN "repository" ELSE "project")
    <3> DEFINE next == IF Creates THEN "repository" ELSE "project"
    <3>1. next \in SetterSteps /\ FirstEffect \in Effects
      BY DEF FirstEffect
    <3>2. setter' \in [Attempts -> SetterSteps] /\ setter'[a] = next
          /\ \A c \in Attempts : c # a => setter'[c] = setter[c]
      BY <2>3, <3>1, GoesFacts
    <3>3. /\ effect' \in [Attempts -> [Effects -> EffectStates]]
          /\ \A c \in Attempts : c # a => effect'[c] = effect[c]
          /\ \A j \in Effects : j # FirstEffect => effect'[a][j] = effect[a][j]
          /\ effect'[a][FirstEffect] = "planned"
      BY <1>1, <1>t, <2>3, <3>1, WrittenFacts
    <3>4. late = {} => attempt[a].bound = 0 /\ attempt[a].status = "running" /\ repository # a
      BY <1>0, <2>1 DEF SetterOnCourse, CallKnown
    <3>5. CASE Creates
      BY <1>0, <2>1, <3>2, <3>3, <3>4, <3>5 DEF SetupStep, SetterOnCourse, FirstEffect, CallKnown
    <3>6. CASE ~Creates
      BY <1>0, <2>1, <3>2, <3>3, <3>4, <3>6 DEF SetupStep, SetterOnCourse, FirstEffect, CallKnown
    <3> QED
      BY <3>5, <3>6
  <2> QED
    BY <1>2, <2>2, <2>3 DEF PlanFirst
<1>3. CASE BeginRepository(a)
  <2> DEFINE new == Moved(a, "repository", {"planned"}, "applying")
  <2>1. /\ new \in [Attempts -> [Effects -> EffectStates]]
        /\ \A c \in Attempts : c # a => new[c] = effect[c]
        /\ \A j \in Effects : j # "repository" => new[a][j] = effect[a][j]
        /\ new[a]["repository"] = IF effect[a]["repository"] \in {"planned"} THEN "applying"
                                  ELSE effect[a]["repository"]
    BY <1>1, <1>t DEF Moved
  <2> HIDE DEF new
  <2>2. /\ setter[a] = "repository" /\ attempt' = attempt
        /\ UNCHANGED <<setup, repository, secrets, record, helper, late>>
    BY <1>3 DEF BeginRepository
  <2>3. CASE effect' = new /\ Goes(a, "provision")
    <3>1. setter' \in [Attempts -> SetterSteps] /\ setter'[a] = "provision"
          /\ \A c \in Attempts : c # a => setter'[c] = setter[c]
      BY <2>3, GoesFacts
    <3> QED
      BY <1>0, <1>1, <2>1, <2>2, <2>3, <3>1 DEF SetupStep, SetterOnCourse, CallKnown
  <2>4. CASE effect' = effect /\ Goes(a, "fail")
    <3>1. setter' \in [Attempts -> SetterSteps] /\ setter'[a] = "fail"
          /\ \A c \in Attempts : c # a => setter'[c] = setter[c]
      BY <2>4, GoesFacts
    <3> QED
      BY <1>0, <2>2, <2>4, <3>1 DEF SetupStep, SetterOnCourse, CallKnown
  <2> QED
    BY <1>3, <2>3, <2>4 DEF BeginRepository, new
<1> QED
  BY <1>2, <1>3

(* The repository is made, and its effect is completed or failed.                          *)
LEMMA RepositoryCalls ==
    ASSUME ProvInv, NEW a \in Attempts, Provision(a) \/ CompleteRepository(a)
    PROVE  SetupStep(a)
<1> USE DEF SetterSteps
<1>0. CallKnown(a)
  BY CallFacts
<1>t. /\ effect \in [Attempts -> [Effects -> EffectStates]]
      /\ attempt \in [Attempts -> AttemptState]
  BY <1>0 DEF CallKnown
<1>1. CASE Provision(a)
  <2>1. /\ setter[a] = "provision" /\ attempt' = attempt
        /\ UNCHANGED <<setup, secrets, record, helper, late>>
    BY <1>1 DEF Provision
  <2>2. late = {} => effect[a]["repository"] = "applying" /\ attempt[a].bound = 0
                     /\ attempt[a].status = "running"
    BY <1>0, <2>1 DEF SetterOnCourse, CallKnown
  <2>3. CASE repository' = (IF repository = 0 THEN a ELSE repository) /\ Goes(a, "provisioned")
             /\ effect' = effect
    <3>1. setter' \in [Attempts -> SetterSteps] /\ setter'[a] = "provisioned"
          /\ \A c \in Attempts : c # a => setter'[c] = setter[c]
      BY <2>3, GoesFacts
    <3>2. "applying" \notin Safe
      BY DEF Safe
    <3> QED
      BY <1>0, <2>1, <2>2, <2>3, <3>1, <3>2 DEF SetupStep, SetterOnCourse, CallKnown
  <2>4. CASE /\ repository' \in {repository, a}
             /\ effect' = FailedEffect(a, "repository")
             /\ Goes(a, "fail")
    <3>1. setter' \in [Attempts -> SetterSteps] /\ setter'[a] = "fail"
          /\ \A c \in Attempts : c # a => setter'[c] = setter[c]
      BY <2>4, GoesFacts
    <3>2. /\ effect' \in [Attempts -> [Effects -> EffectStates]]
          /\ \A c \in Attempts : c # a => effect'[c] = effect[c]
          /\ \A j \in Effects : j # "repository" => effect'[a][j] = effect[a][j]
          /\ effect[a]["repository"] = "applying" => effect'[a]["repository"] = "failed"
      BY <1>t, <2>4 DEF FailedEffect, Moved, EffectStates, Compensable
    <3>3. "failed" \notin Safe
      BY DEF Safe
    <3> QED
      BY <1>0, <2>1, <2>2, <2>4, <3>1, <3>2, <3>3 DEF SetupStep, SetterOnCourse, CallKnown
  <2> QED
    BY <1>1, <2>3, <2>4 DEF Provision
<1>2. CASE CompleteRepository(a)
  <2> DEFINE next == IF effect[a].repository = "applying" /\ Leased(a) THEN "record"
                     ELSE "unrepository"
  <2>1. /\ setter[a] = "provisioned" /\ attempt' = attempt /\ next \in SetterSteps
        /\ effect' = Moved(a, "repository", {"applying"}, "applied") /\ Goes(a, next)
        /\ UNCHANGED <<setup, repository, secrets, record, helper, late>>
    BY <1>2 DEF CompleteRepository
  <2>2. setter' \in [Attempts -> SetterSteps] /\ setter'[a] = next
        /\ \A c \in Attempts : c # a => setter'[c] = setter[c]
    BY <2>1, GoesFacts
  <2>3. /\ effect' \in [Attempts -> [Effects -> EffectStates]]
        /\ \A c \in Attempts : c # a => effect'[c] = effect[c]
        /\ \A j \in Effects : j # "repository" => effect'[a][j] = effect[a][j]
        /\ effect[a]["repository"] = "applying" => effect'[a]["repository"] = "applied"
    BY <1>t, <2>1 DEF Moved, EffectStates, Compensable
  <2>4. late = {} => effect[a]["repository"] = "applying" /\ attempt[a].bound = 0
                     /\ attempt[a].status = "running"
    BY <1>0, <2>1 DEF SetterOnCourse, CallKnown
  <2>5. "applied" \notin Safe
    BY DEF Safe
  <2>6. next \in {"record", "unrepository"}
    OBVIOUS
  <2> HIDE DEF next
  <2> QED
    BY <1>0, <2>1, <2>2, <2>3, <2>4, <2>5, <2>6 DEF SetupStep, SetterOnCourse, CallKnown
<1> QED
  BY <1>1, <1>2

(* The project row is inserted and bound to its attempt.                                   *)
LEMMA ProjectCalls ==
    ASSUME ProvInv, NEW a \in Attempts,
           BeginProject(a) \/ InsertProject(a) \/ BindProject(a) \/ CompleteProject(a)
    PROVE  SetupStep(a)
<1> USE DEF SetterSteps
<1>0. CallKnown(a)
  BY CallFacts
<1>t. /\ effect \in [Attempts -> [Effects -> EffectStates]]
      /\ attempt \in [Attempts -> AttemptState]
  BY <1>0 DEF CallKnown
<1>1. {"planned", "applying", "applied", "failed"} \subseteq EffectStates
      /\ {"applying", "applied", "failed"} \cap Safe = {}
  BY DEF EffectStates, Safe, Compensable
<1>2. CASE BeginProject(a)
  <2>1. /\ setter[a] \in {"record", "project"} /\ attempt' = attempt
        /\ UNCHANGED <<setup, repository, secrets, record, helper, late>>
    BY <1>2 DEF BeginProject
  <2>2. late = {} => attempt[a].bound = 0 /\ attempt[a].status = "running"
    BY <1>0, <2>1 DEF SetterOnCourse, CallKnown
  <2>3. PICK to \in {"applying", "failed", "planned"}, next \in {"insert", "unrepository", "fail"} :
            /\ effect' = [effect EXCEPT ![a]["project"] = to]
            /\ Goes(a, next)
            /\ next = "insert" => to = "applying"
    BY <1>2 DEF BeginProject
  <2>4. setter' \in [Attempts -> SetterSteps] /\ setter'[a] = next
        /\ \A c \in Attempts : c # a => setter'[c] = setter[c]
    BY <2>3, GoesFacts
  <2>5. /\ effect' \in [Attempts -> [Effects -> EffectStates]]
        /\ \A c \in Attempts : c # a => effect'[c] = effect[c]
        /\ \A j \in Effects : j # "project" => effect'[a][j] = effect[a][j]
        /\ effect'[a]["project"] = to
    BY <1>t, <1>1, <2>3
  <2>6. to = "applying" => to \notin Safe
    BY <1>1
  <2>7. late = {} => /\ repository' = a => effect'[a]["repository"] \notin Safe
                     /\ secrets' = a => effect'[a]["secrets"] \notin Safe
                     /\ attempt'[a].bound = 0 /\ attempt'[a].status = "running"
    BY <1>0, <2>1, <2>2, <2>5 DEF CallKnown
  <2>8. late = {} => SetterOnCourse(a)'
    BY <1>0, <2>3, <2>4, <2>5, <2>6, <2>7 DEF SetterOnCourse, CallKnown
  <2> QED
    BY <1>0, <2>1, <2>4, <2>5, <2>7, <2>8 DEF SetupStep, CallKnown
<1>3. CASE InsertProject(a)
  <2>1. /\ setter[a] = "insert" /\ attempt' = attempt
        /\ record' \in {record, a}
        /\ UNCHANGED <<setup, repository, secrets, helper, late>>
    BY <1>3 DEF InsertProject
  <2>2. late = {} => attempt[a].bound = 0 /\ attempt[a].status = "running"
                     /\ effect[a]["project"] \notin Safe
    BY <1>0, <2>1 DEF SetterOnCourse, CallKnown
  <2>3. PICK next \in {"bind", "unrepository", "fail"} :
            /\ Goes(a, next)
            /\ IF next = "bind" THEN effect' = effect ELSE effect' = FailedEffect(a, "project")
    BY <1>3 DEF InsertProject
  <2>4. setter' \in [Attempts -> SetterSteps] /\ setter'[a] = next
        /\ \A c \in Attempts : c # a => setter'[c] = setter[c]
    BY <2>3, GoesFacts
  <2>5. /\ effect' \in [Attempts -> [Effects -> EffectStates]]
        /\ \A c \in Attempts : c # a => effect'[c] = effect[c]
        /\ \A j \in Effects : j # "project" => effect'[a][j] = effect[a][j]
        /\ next = "bind" => effect'[a] = effect[a]
    <3>1. CASE next = "bind"
      BY <1>t, <2>3, <3>1
    <3>2. CASE next # "bind"
      <4>1. effect' = FailedEffect(a, "project")
        BY <2>3, <3>2
      <4> QED
        BY <1>t, <1>1, <3>2, <4>1 DEF FailedEffect, Moved
    <3> QED
      BY <3>1, <3>2
  <2> QED
    BY <1>0, <2>1, <2>2, <2>3, <2>4, <2>5 DEF SetupStep, SetterOnCourse, CallKnown
<1>4. CASE BindProject(a)
  <2>1. /\ setter[a] = "bind" /\ effect' = effect
        /\ UNCHANGED <<setup, repository, secrets, record, helper, late>>
    BY <1>4 DEF BindProject
  <2>2. late = {} => attempt[a].status = "running" /\ effect[a]["project"] \notin Safe
    BY <1>0, <2>1 DEF SetterOnCourse, CallKnown
  <2>3. PICK next \in {"inserted", "unrecord"} :
            Goes(a, next) /\ attempt' \in {attempt, [attempt EXCEPT ![a].bound = a]}
    BY <1>4 DEF BindProject
  <2>4. setter' \in [Attempts -> SetterSteps] /\ setter'[a] = next
        /\ \A c \in Attempts : c # a => setter'[c] = setter[c]
    BY <2>3, GoesFacts
  <2>5. /\ attempt' \in [Attempts -> AttemptState]
        /\ \A c \in Attempts : c # a => attempt'[c] = attempt[c]
        /\ attempt'[a].status = attempt[a].status
    <3>1. CASE attempt' = attempt
      BY <1>t, <3>1
    <3>2. CASE attempt' = [attempt EXCEPT ![a].bound = a]
      BY <1>t, <3>2
    <3> QED
      BY <2>3, <3>1, <3>2
  <2> QED
    BY <1>0, <2>1, <2>2, <2>3, <2>4, <2>5 DEF SetupStep, SetterOnCourse, CallKnown
<1>5. CASE CompleteProject(a)
  <2>1. /\ setter[a] = "inserted" /\ attempt' = attempt
        /\ effect' = Moved(a, "project", {"applying"}, "applied")
        /\ UNCHANGED <<setup, repository, secrets, record, helper, late>>
    BY <1>5 DEF CompleteProject
  <2>2. late = {} => attempt[a].status = "running" /\ effect[a]["project"] \notin Safe
    BY <1>0, <2>1 DEF SetterOnCourse, CallKnown
  <2>3. PICK next \in {"unrecord", "succeed", "secrets"} : Goes(a, next)
    BY <1>5 DEF CompleteProject
  <2>4. setter' \in [Attempts -> SetterSteps] /\ setter'[a] = next
        /\ \A c \in Attempts : c # a => setter'[c] = setter[c]
    BY <2>3, GoesFacts
  <2>5. /\ effect' \in [Attempts -> [Effects -> EffectStates]]
        /\ \A c \in Attempts : c # a => effect'[c] = effect[c]
        /\ \A j \in Effects : j # "project" => effect'[a][j] = effect[a][j]
        /\ effect[a]["project"] \notin Safe => effect'[a]["project"] \notin Safe
    BY <1>t, <1>1, <2>1 DEF Moved
  <2> QED
    BY <1>0, <2>1, <2>2, <2>3, <2>4, <2>5 DEF SetupStep, SetterOnCourse, CallKnown
<1> QED
  BY <1>2, <1>3, <1>4, <1>5

(* The compensations of create(): the project row, then the repository.                    *)
LEMMA UndoCalls ==
    ASSUME ProvInv, NEW a \in Attempts, UndoProject(a) \/ UndoRepository(a)
    PROVE  SetupStep(a)
<1> USE DEF SetterSteps
<1>0. CallKnown(a)
  BY CallFacts
<1>t. /\ effect \in [Attempts -> [Effects -> EffectStates]]
      /\ attempt \in [Attempts -> AttemptState]
  BY <1>0 DEF CallKnown
<1>1. {"failed", "compensated", "compensation_failed"} \subseteq EffectStates
      /\ "failed" \notin Safe /\ "compensation_failed" \notin Safe
  BY DEF EffectStates, Safe, Compensable
<1>2. CASE UndoProject(a)
  <2> DEFINE failed == IF effect[a].project \in {"planned", "applying"} THEN "failed"
                       ELSE effect[a].project
  <2>1. /\ setter[a] = "unrecord"
        /\ UNCHANGED <<setup, repository, secrets, helper, late>>
    BY <1>2 DEF UndoProject
  <2>2. late = {} => effect[a]["project"] \notin Safe /\ attempt[a].status = "running"
    BY <1>0, <2>1 DEF SetterOnCourse, CallKnown
  <2>3. failed \in EffectStates /\ (late = {} => failed \notin Safe)
    BY <1>t, <1>1, <2>2
  <2>4. \/ /\ record' \in {record, 0}
           /\ attempt' = [attempt EXCEPT ![a].bound = 0]
           /\ effect' = [effect EXCEPT ![a].project = IF Creates THEN failed ELSE "compensated"]
           /\ Goes(a, IF Creates THEN "unrepository" ELSE "fail")
        \/ /\ effect' = [effect EXCEPT ![a].project =
                            IF Creates THEN failed ELSE "compensation_failed"]
           /\ Goes(a, IF Creates THEN "unrepository, row kept" ELSE "fail")
           /\ UNCHANGED <<record, attempt>>
    BY <1>2 DEF UndoProject
  <2> HIDE DEF failed
  <2>5. PICK to \in EffectStates,
             next \in {"unrepository", "unrepository, row kept", "fail"},
             row \in {attempt, [attempt EXCEPT ![a].bound = 0]} :
            /\ record' \in {record, 0}
            /\ attempt' = row
            /\ effect' = [effect EXCEPT ![a]["project"] = to]
            /\ Goes(a, next)
            /\ \/ attempt' = [attempt EXCEPT ![a].bound = 0]
               \/ attempt' = attempt /\ next # "unrepository" /\ (late = {} => to \notin Safe)
    <3>1. CASE Creates
      BY <1>1, <2>3, <2>4, <3>1
    <3>2. CASE ~Creates
      BY <1>1, <2>3, <2>4, <3>2
    <3> QED
      BY <3>1, <3>2
  <2>6. /\ setter' \in [Attempts -> SetterSteps] /\ setter'[a] = next
        /\ \A c \in Attempts : c # a => setter'[c] = setter[c]
    BY <2>5, GoesFacts
  <2>7. /\ effect' \in [Attempts -> [Effects -> EffectStates]]
        /\ \A c \in Attempts : c # a => effect'[c] = effect[c]
        /\ \A j \in Effects : j # "project" => effect'[a][j] = effect[a][j]
        /\ effect'[a]["project"] = to
    BY <1>t, <2>5
  <2>8. /\ attempt' \in [Attempts -> AttemptState]
        /\ \A c \in Attempts : c # a => attempt'[c] = attempt[c]
        /\ attempt'[a].status = attempt[a].status
        /\ \/ attempt'[a].bound = 0
           \/ next # "unrepository" /\ (late = {} => to \notin Safe)
    <3>1. CASE attempt' = [attempt EXCEPT ![a].bound = 0]
      BY <1>t, <3>1
    <3>2. CASE attempt' # [attempt EXCEPT ![a].bound = 0]
      BY <1>t, <2>5, <3>2
    <3> QED
      BY <3>1, <3>2
  <2> QED
    BY <1>0, <2>1, <2>2, <2>5, <2>6, <2>7, <2>8 DEF SetupStep, SetterOnCourse, CallKnown
<1>3. CASE UndoRepository(a)
  <2> DEFINE p == IF setter[a] = "unrepository" THEN Compensated(a, "project")
                  ELSE NotCompensated(a, "project")
  <2>1. /\ setter[a] \in {"unrepository", "unrepository, row kept"} /\ attempt' = attempt
        /\ Goes(a, "fail")
        /\ UNCHANGED <<setup, secrets, record, helper, late>>
    BY <1>3 DEF UndoRepository
  <2>2. PICK new \in {Compensated(a, "repository"), NotCompensated(a, "repository")} :
            /\ effect' = [new EXCEPT ![a]["project"] = p[a]["project"]]
            /\ \/ repository' = 0
               \/ new = NotCompensated(a, "repository") /\ repository' = repository
    <3>1. \/ /\ repository' = 0
             /\ effect' = [Compensated(a, "repository") EXCEPT ![a]["project"] = p[a]["project"]]
          \/ /\ repository' = repository
             /\ effect' = [NotCompensated(a, "repository") EXCEPT ![a]["project"] = p[a]["project"]]
      BY <1>3 DEF UndoRepository
    <3> HIDE DEF p
    <3> QED
      BY <3>1
  <2>3. /\ new \in [Attempts -> [Effects -> EffectStates]]
        /\ \A c \in Attempts : c # a => new[c] = effect[c]
        /\ \A j \in Effects : j # "repository" => new[a][j] = effect[a][j]
    BY <1>t, JournalFacts
  <2>4. new = NotCompensated(a, "repository") /\ effect[a]["repository"] \notin Safe
           => new[a]["repository"] \notin Safe
    <3>1. new = NotCompensated(a, "repository") =>
            new[a]["repository"] = IF effect[a]["repository"] \in Compensable \ {"planned"}
                                   THEN "compensation_failed" ELSE effect[a]["repository"]
      BY <1>t DEF NotCompensated, Moved
    <3> QED
      BY <1>1, <3>1
  <2>5. p[a]["project"] \in EffectStates
    <3>1. p \in {Compensated(a, "project"), NotCompensated(a, "project")}
      OBVIOUS
    <3>2. p \in [Attempts -> [Effects -> EffectStates]]
      BY <1>t, <3>1, JournalFacts
    <3> QED
      BY <3>2
  <2>6. late = {} /\ attempt[a].bound # 0 => p[a]["project"] \notin Safe
    <3>1. late = {} /\ attempt[a].bound # 0 =>
            setter[a] = "unrepository, row kept" /\ effect[a]["project"] \notin Safe
      BY <1>0, <2>1 DEF SetterOnCourse, CallKnown
    <3>2. setter[a] = "unrepository, row kept" =>
            p[a]["project"] = IF effect[a]["project"] \in Compensable \ {"planned"}
                              THEN "compensation_failed" ELSE effect[a]["project"]
      <4>1. NotCompensated(a, "project")[a]["project"] =
              IF effect[a]["project"] \in Compensable \ {"planned"}
              THEN "compensation_failed" ELSE effect[a]["project"]
        BY <1>t DEF NotCompensated, Moved
      <4> QED
        BY <4>1
    <3> QED
      BY <1>1, <3>1, <3>2
  <2> HIDE DEF p
  <2>7. /\ effect' \in [Attempts -> [Effects -> EffectStates]]
        /\ \A c \in Attempts : c # a => effect'[c] = effect[c]
        /\ effect'[a]["secrets"] = effect[a]["secrets"]
        /\ effect'[a]["repository"] = new[a]["repository"]
        /\ effect'[a]["project"] = p[a]["project"]
    BY <2>2, <2>3, <2>5
  <2>8. setter' \in [Attempts -> SetterSteps] /\ setter'[a] = "fail"
        /\ \A c \in Attempts : c # a => setter'[c] = setter[c]
    BY <2>1, GoesFacts
  <2>9. late = {} => attempt[a].status = "running"
    BY <1>0, <2>1 DEF SetterOnCourse, CallKnown
  <2>10. late = {} => SetterOnCourse(a)'
    BY <2>1, <2>8, <2>9 DEF SetterOnCourse
  <2>11. late = {} => /\ repository' = a => effect'[a]["repository"] \notin Safe
                      /\ secrets' = a => effect'[a]["secrets"] \notin Safe
                      /\ attempt'[a].bound # 0 => effect'[a]["project"] \notin Safe
    BY <1>0, <2>1, <2>2, <2>4, <2>6, <2>7 DEF CallKnown
  <2> QED
    BY <1>t, <2>1, <2>2, <2>7, <2>8, <2>10, <2>11 DEF SetupStep
<1> QED
  BY <1>2, <1>3

(* Import: the secrets are planned, written and completed, or undone with the project.     *)
LEMMA SecretCalls ==
    ASSUME ProvInv, NEW a \in Attempts,
           \/ BeginSecrets(a) \/ WriteSecrets(a) \/ CompleteSecrets(a)
           \/ UndoSecrets(a) \/ UndoImport(a)
    PROVE  SetupStep(a)
<1> USE DEF SetterSteps
<1>0. CallKnown(a)
  BY CallFacts
<1>t. /\ effect \in [Attempts -> [Effects -> EffectStates]]
      /\ attempt \in [Attempts -> AttemptState]
  BY <1>0 DEF CallKnown
<1>1. {"planned", "applying", "applied"} \subseteq EffectStates
      /\ "applied" \notin Safe /\ "applying" \notin Safe
  BY DEF EffectStates, Safe, Compensable
<1>2. CASE BeginSecrets(a)
  <2>1. /\ setter[a] = "secrets" /\ attempt' = attempt
        /\ UNCHANGED <<setup, repository, secrets, record, helper, late>>
    BY <1>2 DEF BeginSecrets
  <2>2. late = {} => effect[a]["project"] \notin Safe /\ attempt[a].status = "running"
    BY <1>0, <2>1 DEF SetterOnCourse, CallKnown
  <2>3. PICK to \in {"applying", "planned"}, next \in {"write", "unimport"} :
            /\ effect' = [effect EXCEPT ![a]["secrets"] = to]
            /\ Goes(a, next)
            /\ next = "write" => to = "applying"
            /\ late = {} => to = "applying"
    BY <1>2, <2>2 DEF BeginSecrets, Leased
  <2>4. /\ setter' \in [Attempts -> SetterSteps] /\ setter'[a] = next
        /\ \A c \in Attempts : c # a => setter'[c] = setter[c]
    BY <2>3, GoesFacts
  <2>5. /\ effect' \in [Attempts -> [Effects -> EffectStates]]
        /\ \A c \in Attempts : c # a => effect'[c] = effect[c]
        /\ \A j \in Effects : j # "secrets" => effect'[a][j] = effect[a][j]
        /\ effect'[a]["secrets"] = to
    BY <1>t, <1>1, <2>3
  <2>6. to = "applying" => to \notin Safe
    BY <1>1
  <2>7. late = {} => /\ repository' = a => effect'[a]["repository"] \notin Safe
                     /\ effect'[a]["secrets"] \notin Safe /\ effect'[a]["project"] \notin Safe
                     /\ attempt'[a].status = "running"
    BY <1>0, <2>1, <2>2, <2>3, <2>5, <2>6 DEF CallKnown
  <2>8. late = {} => SetterOnCourse(a)'
    BY <1>0, <2>3, <2>4, <2>5, <2>7 DEF SetterOnCourse, CallKnown
  <2> QED
    BY <1>0, <2>1, <2>4, <2>5, <2>7, <2>8 DEF SetupStep, CallKnown
<1>3. CASE WriteSecrets(a)
  <2>1. /\ setter[a] = "write" /\ attempt' = attempt /\ secrets' = a
        /\ UNCHANGED <<setup, repository, record, helper, late>>
    BY <1>3 DEF WriteSecrets
  <2>2. late = {} => effect[a]["project"] \notin Safe /\ attempt[a].status = "running"
                     /\ effect[a]["secrets"] \notin Safe
    BY <1>0, <1>1, <2>1 DEF SetterOnCourse, CallKnown
  <2>3. CASE Goes(a, "written") /\ effect' = effect
    <3>1. /\ setter' \in [Attempts -> SetterSteps] /\ setter'[a] = "written"
          /\ \A c \in Attempts : c # a => setter'[c] = setter[c]
      BY <2>3, GoesFacts
    <3> QED
      BY <1>0, <2>1, <2>2, <2>3, <3>1 DEF SetupStep, SetterOnCourse, CallKnown
  <2>4. CASE Goes(a, "unsecrets") /\ effect' = FailedEffect(a, "secrets")
    <3>1. /\ setter' \in [Attempts -> SetterSteps] /\ setter'[a] = "unsecrets"
          /\ \A c \in Attempts : c # a => setter'[c] = setter[c]
      BY <2>4, GoesFacts
    <3>2. /\ effect' \in [Attempts -> [Effects -> EffectStates]]
          /\ \A c \in Attempts : c # a => effect'[c] = effect[c]
          /\ \A j \in Effects : j # "secrets" => effect'[a][j] = effect[a][j]
          /\ effect[a]["secrets"] \notin Safe => effect'[a]["secrets"] \notin Safe
      BY <1>t, <2>4 DEF FailedEffect, Moved, EffectStates, Compensable, Safe
    <3> QED
      BY <1>0, <2>1, <2>2, <3>1, <3>2 DEF SetupStep, SetterOnCourse, CallKnown
  <2> QED
    BY <1>3, <2>3, <2>4 DEF WriteSecrets
<1>4. CASE CompleteSecrets(a)
  <2>1. /\ setter[a] = "written" /\ attempt' = attempt
        /\ effect' = Moved(a, "secrets", {"applying"}, "applied")
        /\ UNCHANGED <<setup, repository, secrets, record, helper, late>>
    BY <1>4 DEF CompleteSecrets
  <2>2. late = {} => effect[a]["project"] \notin Safe /\ attempt[a].status = "running"
    BY <1>0, <2>1 DEF SetterOnCourse, CallKnown
  <2>3. PICK next \in {"succeed", "unsecrets"} : Goes(a, next)
    BY <1>4 DEF CompleteSecrets
  <2>4. /\ setter' \in [Attempts -> SetterSteps] /\ setter'[a] = next
        /\ \A c \in Attempts : c # a => setter'[c] = setter[c]
    BY <2>3, GoesFacts
  <2>5. /\ effect' \in [Attempts -> [Effects -> EffectStates]]
        /\ \A c \in Attempts : c # a => effect'[c] = effect[c]
        /\ \A j \in Effects : j # "secrets" => effect'[a][j] = effect[a][j]
        /\ effect[a]["secrets"] \notin Safe => effect'[a]["secrets"] \notin Safe
    BY <1>t, <1>1, <2>1 DEF Moved
  <2> QED
    BY <1>0, <2>1, <2>2, <2>3, <2>4, <2>5 DEF SetupStep, SetterOnCourse, CallKnown
<1>5. CASE UndoSecrets(a)
  <2>1. /\ setter[a] = "unsecrets" /\ attempt' = attempt
        /\ UNCHANGED <<setup, repository, record, helper, late>>
    BY <1>5 DEF UndoSecrets
  <2>2. late = {} => attempt[a].status = "running"
    BY <1>0, <2>1 DEF SetterOnCourse, CallKnown
  <2>3. PICK new \in {Compensated(a, "secrets"), NotCompensated(a, "secrets")},
             next \in {"unimport", "fail"} :
            /\ effect' = new
            /\ Goes(a, next)
            /\ \/ secrets' = 0
               \/ new = NotCompensated(a, "secrets") /\ secrets' = secrets
    <3>1. CASE secrets' = 0 /\ effect' = Compensated(a, "secrets") /\ Goes(a, "unimport")
      BY <3>1
    <3>2. CASE /\ effect' = NotCompensated(a, "secrets")
               /\ Goes(a, "fail") /\ UNCHANGED secrets
      BY <3>2
    <3> QED
      BY <1>5, <3>1, <3>2 DEF UndoSecrets
  <2>4. /\ setter' \in [Attempts -> SetterSteps] /\ setter'[a] = next
        /\ \A c \in Attempts : c # a => setter'[c] = setter[c]
    BY <2>3, GoesFacts
  <2>5. /\ effect' \in [Attempts -> [Effects -> EffectStates]]
        /\ \A c \in Attempts : c # a => effect'[c] = effect[c]
        /\ \A j \in Effects : j # "secrets" => effect'[a][j] = effect[a][j]
    BY <1>t, <2>3, JournalFacts
  <2>6. new = NotCompensated(a, "secrets") /\ effect[a]["secrets"] \notin Safe
           => effect'[a]["secrets"] \notin Safe
    BY <1>t, <2>3 DEF NotCompensated, Moved, Safe
  <2> QED
    BY <1>0, <2>1, <2>2, <2>3, <2>4, <2>5, <2>6 DEF SetupStep, SetterOnCourse, CallKnown
<1>6. CASE UndoImport(a)
  <2>1. /\ setter[a] = "unimport" /\ Goes(a, "fail")
        /\ UNCHANGED <<setup, repository, secrets, helper, late>>
    BY <1>6 DEF UndoImport
  <2>2. late = {} => attempt[a].status = "running"
    BY <1>0, <2>1 DEF SetterOnCourse, CallKnown
  <2>3. /\ setter' \in [Attempts -> SetterSteps] /\ setter'[a] = "fail"
        /\ \A c \in Attempts : c # a => setter'[c] = setter[c]
    BY <2>1, GoesFacts
  <2>4. PICK new \in {Compensated(a, "project"), NotCompensated(a, "project")} :
            /\ effect' = new
            /\ record' \in {record, 0}
            /\ \/ attempt' = [attempt EXCEPT ![a].bound = 0]
               \/ new = NotCompensated(a, "project") /\ attempt' = attempt
    BY <1>6 DEF UndoImport
  <2>5. /\ effect' \in [Attempts -> [Effects -> EffectStates]]
        /\ \A c \in Attempts : c # a => effect'[c] = effect[c]
        /\ \A j \in Effects : j # "project" => effect'[a][j] = effect[a][j]
    BY <1>t, <2>4, JournalFacts
  <2>6. new = NotCompensated(a, "project") /\ effect[a]["project"] \notin Safe
           => effect'[a]["project"] \notin Safe
    BY <1>t, <2>4 DEF NotCompensated, Moved, Safe
  <2>7. /\ attempt' \in [Attempts -> AttemptState]
        /\ \A c \in Attempts : c # a => attempt'[c] = attempt[c]
        /\ attempt'[a].status = attempt[a].status
        /\ \/ attempt'[a].bound = 0
           \/ new = NotCompensated(a, "project") /\ attempt'[a].bound = attempt[a].bound
    <3>1. CASE attempt' = [attempt EXCEPT ![a].bound = 0]
      BY <1>t, <3>1
    <3>2. CASE attempt' # [attempt EXCEPT ![a].bound = 0]
      BY <1>t, <2>4, <3>2
    <3> QED
      BY <3>1, <3>2
  <2> QED
    BY <1>0, <2>1, <2>2, <2>3, <2>4, <2>5, <2>6, <2>7 DEF SetupStep, SetterOnCourse, CallKnown
<1> QED
  BY <1>2, <1>3, <1>4, <1>5, <1>6

(* succeed() and fail(), and a call that dies.                                             *)
LEMMA EndCalls ==
    ASSUME ProvInv, NEW a \in Attempts, EndAttempt(a) \/ AttemptCrash(a)
    PROVE  SetupStep(a)
<1> USE DEF SetterSteps
<1>0. CallKnown(a)
  BY CallFacts
<1>t. /\ effect \in [Attempts -> [Effects -> EffectStates]]
      /\ attempt \in [Attempts -> AttemptState]
  BY <1>0 DEF CallKnown
<1>1. CASE EndAttempt(a)
  <2>1. /\ setter[a] \in {"succeed", "fail"} /\ effect' = effect /\ Goes(a, "none")
        /\ UNCHANGED <<setup, repository, secrets, record, helper, late>>
    BY <1>1 DEF EndAttempt
  <2>2. PICK to \in {"succeeded", "failed"}, bound \in {attempt[a].bound, a} :
            /\ attempt' = [attempt EXCEPT ![a].status = to, ![a].bound = bound]
            /\ bound = attempt[a].bound \/ setter[a] = "succeed"
    BY <1>1 DEF EndAttempt
  <2>3. /\ attempt' \in [Attempts -> AttemptState]
        /\ \A c \in Attempts : c # a => attempt'[c] = attempt[c]
        /\ attempt'[a].status = to /\ attempt'[a].bound = bound
    <3>1. to \in AttemptStates /\ bound \in Attempts \cup {0}
      BY <1>t DEF AttemptStates
    <3> DEFINE row == [attempt[a] EXCEPT !.status = to, !.bound = bound]
    <3>2. row \in AttemptState /\ row.status = to /\ row.bound = bound
      BY <1>t, <3>1
    <3>3. attempt' = [attempt EXCEPT ![a] = row]
      BY <1>t, <2>2
    <3> HIDE DEF row
    <3> QED
      BY <1>t, <3>2, <3>3
  <2>4. /\ setter' \in [Attempts -> SetterSteps] /\ setter'[a] = "none"
        /\ \A c \in Attempts : c # a => setter'[c] = setter[c]
    BY <2>1, GoesFacts
  <2>5. late = {} /\ bound # 0 => effect[a]["project"] \notin Safe
    BY <1>0, <2>2 DEF SetterOnCourse, CallKnown
  <2> QED
    BY <1>0, <2>1, <2>2, <2>3, <2>4, <2>5 DEF SetupStep, SetterOnCourse, CallKnown
<1>2. CASE AttemptCrash(a)
  <2>1. /\ setter[a] # "none" /\ effect' = effect /\ Goes(a, "none") /\ attempt' = attempt
        /\ UNCHANGED <<setup, repository, secrets, record, helper, late>>
    BY <1>2 DEF AttemptCrash
  <2>2. /\ setter' \in [Attempts -> SetterSteps] /\ setter'[a] = "none"
        /\ \A c \in Attempts : c # a => setter'[c] = setter[c]
    BY <2>1, GoesFacts
  <2> QED
    BY <1>0, <2>1, <2>2 DEF SetupStep, SetterOnCourse, CallKnown
<1> QED
  BY <1>1, <1>2

-----------------------------------------------------------------------------
(* Steps beside the call: the recovery, a retry, a cleanup *)

HelperAtWork == {"outside", "row", "finish", "release"}

\* What a recovery or a helper may do to attempt a, once its call has ended.
AsideStep(a) ==
    /\ UNCHANGED <<setup, setter>>
    /\ late \subseteq late' /\ late' \subseteq Attempts
    /\ repository' \in {repository, 0} /\ secrets' \in {secrets, 0} /\ record' \in {record, 0}
    /\ effect' \in [Attempts -> [Effects -> EffectStates]]
    /\ attempt' \in [Attempts -> AttemptState]
    /\ helper' \in [ProvCalls -> HelperState]
    /\ \A c \in Attempts : c # a => effect'[c] = effect[c] /\ attempt'[c] = attempt[c]
    /\ late' = {} =>
         /\ setter[a] = "none"
         /\ attempt[a].status \notin {"absent", "retried"}
         /\ attempt'[a].status \notin {"absent", "running", "retried"}
         /\ \A k \in Effects : effect[a][k] \in Safe => effect'[a][k] \in Safe
         /\ repository' = a => effect'[a]["repository"] \notin Safe
         /\ secrets' = a => effect'[a]["secrets"] \notin Safe
         /\ attempt'[a].bound # 0 => effect'[a]["project"] \notin Safe
         /\ \A h \in ProvCalls :
              \/ HelperOnCourse(h)'
              \/ /\ helper'[h] = helper[h]
                 /\ helper[h].of = a /\ helper[h].pc \in HelperAtWork =>
                      attempt'[a].status = "cleaning" /\ attempt'[a].owner = h

(* Such a step keeps the invariant.                                                        *)
LEMMA AsideKeeps ==
    ASSUME ProvInv, NEW a \in Attempts, AsideStep(a)
    PROVE  ProvInv'
<1> USE DEF ProvInv
<1>1. ProvTypes'
  <2>1. 0 \in Attempts \cup {0}
    OBVIOUS
  <2> QED
    BY <2>1 DEF ProvTypes, AsideStep
<1>2. SUFFICES ASSUME late' = {}
               PROVE  ProvSound'
  BY <1>1
<1>3. late = {} /\ ProvSound
  BY <1>2 DEF AsideStep
<1>4. /\ setter' = setter /\ setter[a] = "none"
      /\ \A c \in Attempts : c # a => effect'[c] = effect[c] /\ attempt'[c] = attempt[c]
      /\ attempt[a].status \notin {"absent", "retried"}
      /\ attempt'[a].status \notin {"absent", "running", "retried"}
  BY <1>2 DEF AsideStep
<1>5. OneAtATime'
  <2>1. ASSUME NEW c \in Attempts, attempt'[c].status = "absent"
        PROVE  effect'[c] = NoEffects /\ \A b \in Attempts : b > c => attempt'[b].status = "absent"
    <3>1. c # a /\ attempt[c].status = "absent"
      BY <1>4, <2>1
    <3>2. effect[c] = NoEffects /\ \A b \in Attempts : b > c => attempt[b].status = "absent"
      BY <1>3, <3>1 DEF ProvSound, OneAtATime
    <3>3. \A b \in Attempts : b > c => b # a
      BY <1>4, <3>2
    <3> QED
      BY <1>4, <3>1, <3>2, <3>3
  <2>2. ASSUME NEW c \in Attempts, attempt'[c].status # "absent"
        PROVE  \A b \in Attempts : b < c => attempt'[b].status = "retried"
    <3>1. attempt[c].status # "absent"
      BY <1>4, <2>2
    <3>2. \A b \in Attempts : b < c => attempt[b].status = "retried"
      BY <1>3, <3>1 DEF ProvSound, OneAtATime
    <3> QED
      BY <1>4, <3>2
  <2>3. ASSUME NEW c \in Attempts, attempt'[c].status = "retried"
        PROVE  \A k \in Effects : effect'[c][k] \in Safe
    BY <1>3, <1>4, <2>3 DEF ProvSound, OneAtATime
  <2> QED
    BY <2>1, <2>2, <2>3 DEF OneAtATime
<1>6. Journalled'
  <2>1. \A c \in Attempts : repository' = c => effect'[c]["repository"] \notin Safe
    BY <1>2, <1>3, <1>4 DEF AsideStep, ProvSound, Journalled
  <2>2. \A c \in Attempts : secrets' = c => effect'[c]["secrets"] \notin Safe
    BY <1>2, <1>3, <1>4 DEF AsideStep, ProvSound, Journalled
  <2>3. \A c \in Attempts : attempt'[c].bound # 0 => effect'[c]["project"] \notin Safe
    BY <1>2, <1>3, <1>4 DEF AsideStep, ProvSound, Journalled
  <2> QED
    BY <2>1, <2>2, <2>3 DEF Journalled
<1>7. \A c \in Attempts : SetterOnCourse(c)'
  <2> SUFFICES ASSUME NEW c \in Attempts
               PROVE  SetterOnCourse(c)'
    OBVIOUS
  <2>1. CASE c = a
    BY <1>4, <2>1 DEF SetterOnCourse
  <2>2. CASE c # a
    BY <1>3, <1>4, <2>2 DEF ProvSound, SetterOnCourse
  <2> QED
    BY <2>1, <2>2
<1>8. \A h \in ProvCalls : HelperOnCourse(h)'
  <2> SUFFICES ASSUME NEW h \in ProvCalls, ~HelperOnCourse(h)'
               PROVE  HelperOnCourse(h)'
    OBVIOUS
  <2>1. /\ helper'[h] = helper[h] /\ HelperOnCourse(h)
        /\ helper[h].of = a /\ helper[h].pc \in HelperAtWork =>
             attempt'[a].status = "cleaning" /\ attempt'[a].owner = h
        /\ \A k \in Effects : effect[a][k] \in Safe => effect'[a][k] \in Safe
    BY <1>2, <1>3 DEF AsideStep, ProvSound
  <2>2. CASE helper[h].of = a
    BY <1>4, <2>1, <2>2 DEF HelperOnCourse, HelperAtWork
  <2>3. CASE helper[h].of # a
    <3>1. helper[h].pc # "idle" => helper[h].of \in Attempts
      BY DEF ProvTypes, HelperState
    <3> QED
      BY <1>4, <2>1, <2>3, <3>1 DEF HelperOnCourse
  <2> QED
    BY <2>2, <2>3
<1> QED
  BY <1>5, <1>6, <1>7, <1>8 DEF ProvSound

\* A step of one helper that changes nothing but what it knows.
ReadStep(h) ==
    /\ UNCHANGED <<setup, repository, secrets, record, attempt, effect, setter, late>>
    /\ helper' \in [ProvCalls -> HelperState]
    /\ \A g \in ProvCalls : g # h => helper'[g] = helper[g]
    /\ late = {} => HelperOnCourse(h)'

(* Such a step keeps the invariant.                                                        *)
LEMMA ReadKeeps ==
    ASSUME ProvInv, NEW h \in ProvCalls, ReadStep(h)
    PROVE  ProvInv'
<1>1. ProvTypes'
  BY DEF ProvInv, ProvTypes, ReadStep
<1>2. SUFFICES ASSUME late = {}
               PROVE  ProvSound'
  BY <1>1 DEF ReadStep, ProvInv
<1>3. ProvSound
  BY <1>2 DEF ProvInv
<1>4. OneAtATime' /\ Journalled'
  BY <1>3 DEF ReadStep, ProvSound, OneAtATime, Journalled
<1>5. \A c \in Attempts : SetterOnCourse(c)'
  BY <1>3 DEF ReadStep, ProvSound, SetterOnCourse
<1>6. \A g \in ProvCalls : HelperOnCourse(g)'
  <2> SUFFICES ASSUME NEW g \in ProvCalls
               PROVE  HelperOnCourse(g)'
    OBVIOUS
  <2>1. CASE g = h
    BY <1>2, <2>1 DEF ReadStep
  <2>2. CASE g # h
    BY <1>3, <2>2 DEF ReadStep, ProvSound, HelperOnCourse
  <2> QED
    BY <2>1, <2>2
<1> QED
  BY <1>4, <1>5, <1>6 DEF ProvSound

\* What a helper takes from the invariant before it.
HelperKnown(h) ==
    /\ effect \in [Attempts -> [Effects -> EffectStates]]
    /\ attempt \in [Attempts -> AttemptState]
    /\ helper \in [ProvCalls -> HelperState]
    /\ late \subseteq Attempts
    /\ late = {} => /\ HelperOnCourse(h)
                    /\ \A a \in Attempts :
                         /\ setter[a] # "none" => attempt[a].status = "running"
                         /\ repository = a => effect[a]["repository"] \notin Safe
                         /\ secrets = a => effect[a]["secrets"] \notin Safe
                         /\ attempt[a].bound # 0 => effect[a]["project"] \notin Safe
                    /\ \A g \in ProvCalls : helper[g].pc \in HelperAtWork =>
                         /\ attempt[helper[g].of].status = "cleaning"
                         /\ attempt[helper[g].of].owner = g

(* That is known of every helper.                                                          *)
LEMMA HelperFacts ==
    ASSUME ProvInv, NEW h \in ProvCalls
    PROVE  HelperKnown(h)
<1>1. ProvTypes
  BY DEF ProvInv
<1>2. ASSUME late = {}
      PROVE  /\ HelperOnCourse(h)
             /\ \A a \in Attempts : /\ setter[a] # "none" => attempt[a].status = "running"
                                    /\ repository = a => effect[a]["repository"] \notin Safe
                                    /\ secrets = a => effect[a]["secrets"] \notin Safe
                                    /\ attempt[a].bound # 0 => effect[a]["project"] \notin Safe
             /\ \A g \in ProvCalls : helper[g].pc \in HelperAtWork =>
                  attempt[helper[g].of].status = "cleaning" /\ attempt[helper[g].of].owner = g
  <2>1. ProvSound
    BY <1>2 DEF ProvInv
  <2>2. \A a \in Attempts : SetterOnCourse(a)
    BY <2>1 DEF ProvSound
  <2>3. \A g \in ProvCalls : HelperOnCourse(g)
    BY <2>1 DEF ProvSound
  <2>4. Journalled
    BY <2>1 DEF ProvSound
  <2> QED
    BY <2>2, <2>3, <2>4 DEF SetterOnCourse, HelperOnCourse, Journalled, HelperAtWork
<1> QED
  BY <1>1, <1>2 DEF ProvTypes, HelperKnown

(* What becomes of one helper.                                                             *)
LEMMA HelpsFacts ==
    ASSUME ProvInv, NEW h \in ProvCalls
    PROVE  /\ helper[h] \in HelperState
           /\ NoHelp \in HelperState
           /\ \A pc \in HelperSteps \ {"idle"} : helper[h].pc # "idle" /\ Helps(h, pc) =>
                /\ helper' \in [ProvCalls -> HelperState]
                /\ \A g \in ProvCalls : g # h => helper'[g] = helper[g]
                /\ helper'[h].pc = pc /\ helper'[h].of = helper[h].of
           /\ \A r \in HelperState : helper' = [helper EXCEPT ![h] = r] =>
                /\ helper' \in [ProvCalls -> HelperState]
                /\ \A g \in ProvCalls : g # h => helper'[g] = helper[g]
                /\ helper'[h] = r
<1>1. helper \in [ProvCalls -> HelperState]
  BY DEF ProvInv, ProvTypes
<1>2. "absent" \in EffectStates
  BY DEF EffectStates, Safe
<1>3. NoHelp \in HelperState
  BY <1>2 DEF NoHelp, NoEffects, HelperState, HelperSteps
<1>4. ASSUME NEW pc \in HelperSteps \ {"idle"}, helper[h].pc # "idle", Helps(h, pc)
      PROVE  /\ helper' \in [ProvCalls -> HelperState]
             /\ \A g \in ProvCalls : g # h => helper'[g] = helper[g]
             /\ helper'[h].pc = pc /\ helper'[h].of = helper[h].of
  <2>1. /\ helper'[h] = [helper[h] EXCEPT !.pc = pc]
        /\ \A g \in ProvCalls : g # h => helper'[g] = helper[g]
    BY <1>1, <1>4 DEF Helps
  <2>2. helper'[h] \in HelperState /\ helper'[h].pc = pc /\ helper'[h].of = helper[h].of
    BY <1>1, <1>4, <2>1 DEF HelperState
  <2>3. helper' = [g \in ProvCalls |-> helper'[g]]
    BY <1>1, <1>4 DEF Helps
  <2> QED
    BY <1>1, <2>1, <2>2, <2>3
<1> QED
  BY <1>1, <1>3, <1>4

(* A helper that only reads, or gives up.                                                  *)
LEMMA ReadSteps ==
    ASSUME ProvInv, NEW h \in ProvCalls,
           \/ \E a \in Attempts : ReadForRetry(h, a) \/ ReadForCleanup(h, a)
           \/ /\ helper' = [helper EXCEPT ![h] = NoHelp]
              /\ UNCHANGED <<setup, repository, secrets, record, attempt, effect, setter, late>>
    PROVE  ReadStep(h)
<1>0. HelperKnown(h)
  BY HelperFacts
<1>1. \A r \in HelperState : helper' = [helper EXCEPT ![h] = r] =>
        /\ helper' \in [ProvCalls -> HelperState]
        /\ \A g \in ProvCalls : g # h => helper'[g] = helper[g]
        /\ helper'[h] = r
  BY HelpsFacts
<1>2. CASE \E a \in Attempts : ReadForRetry(h, a)
  <2>1. PICK a \in Attempts : ReadForRetry(h, a)
    BY <1>2
  <2> DEFINE r == [NoHelp EXCEPT !.pc = "retry", !.of = a]
  <2>2. r \in HelperState /\ r.pc = "retry" /\ r.of = a
    BY HelpsFacts DEF NoHelp, HelperState, HelperSteps
  <2>3. helper' = [helper EXCEPT ![h] = r]
    BY <2>1 DEF ReadForRetry
  <2>4. Ended(a) /\ \A k \in Effects : effect[a][k] \in Safe
    BY <2>1 DEF ReadForRetry, Retryable
  <2> HIDE DEF r
  <2>5. /\ helper' \in [ProvCalls -> HelperState]
        /\ \A g \in ProvCalls : g # h => helper'[g] = helper[g]
        /\ helper'[h].pc = "retry" /\ helper'[h].of = a
    BY <1>1, <2>2, <2>3
  <2>6. UNCHANGED <<setup, repository, secrets, record, attempt, effect, setter, late>>
    BY <2>1 DEF ReadForRetry
  <2>7. late = {} => HelperOnCourse(h)'
    BY <1>0, <2>4, <2>5, <2>6 DEF HelperOnCourse, Ended, HelperKnown
  <2> QED
    BY <2>5, <2>6, <2>7 DEF ReadStep
<1>3. CASE \E a \in Attempts : ReadForCleanup(h, a)
  <2>1. PICK a \in Attempts : ReadForCleanup(h, a)
    BY <1>3
  <2> DEFINE r == [pc |-> "clean", of |-> a, seen |-> effect[a], bound |-> attempt[a].bound]
  <2>2. r \in HelperState /\ r.pc = "clean" /\ r.of = a
    BY <1>0 DEF HelperKnown, HelperState, HelperSteps
  <2>3. helper' = [helper EXCEPT ![h] = r]
    BY <2>1 DEF ReadForCleanup
  <2>4. Ended(a)
    BY <2>1 DEF ReadForCleanup
  <2> HIDE DEF r
  <2>5. /\ helper' \in [ProvCalls -> HelperState]
        /\ \A g \in ProvCalls : g # h => helper'[g] = helper[g]
        /\ helper'[h].pc = "clean" /\ helper'[h].of = a
    BY <1>1, <2>2, <2>3
  <2>6. UNCHANGED <<setup, repository, secrets, record, attempt, effect, setter, late>>
    BY <2>1 DEF ReadForCleanup
  <2>7. late = {} => HelperOnCourse(h)'
    BY <1>0, <2>4, <2>5, <2>6 DEF HelperOnCourse, Ended, HelperKnown
  <2> QED
    BY <2>5, <2>6, <2>7 DEF ReadStep
<1>4. CASE /\ helper' = [helper EXCEPT ![h] = NoHelp]
           /\ UNCHANGED <<setup, repository, secrets, record, attempt, effect, setter, late>>
  <2>1. /\ helper' \in [ProvCalls -> HelperState]
        /\ \A g \in ProvCalls : g # h => helper'[g] = helper[g]
        /\ helper'[h].pc = "idle"
    BY <1>1, <1>4, HelpsFacts DEF NoHelp
  <2> QED
    BY <1>4, <2>1 DEF ReadStep, HelperOnCourse
<1> QED
  BY <1>2, <1>3, <1>4

(* Recovery of an attempt nobody carries out any more.                                     *)
LEMMA StaleSteps ==
    ASSUME ProvInv, NEW a \in Attempts, Interrupt(a) \/ Reconcile(a)
    PROVE  AsideStep(a)
<1>1. ProvTypes /\ (late = {} => ProvSound)
  BY DEF ProvInv
<1>2. CASE Interrupt(a)
  <2>1. /\ UNCHANGED <<setup, repository, secrets, record, effect, setter, helper>>
        /\ attempt' = [attempt EXCEPT ![a].status = "interrupted", ![a].owner = 0]
        /\ attempt[a].status \in {"running", "cleaning", "retrying"}
        /\ late' = late \cup {a} \/ (~Working(a) /\ late' = late)
    BY <1>2 DEF Interrupt
  <2>2. /\ attempt' \in [Attempts -> AttemptState]
        /\ \A c \in Attempts : c # a => attempt'[c] = attempt[c]
        /\ attempt'[a].status = "interrupted" /\ attempt'[a].bound = attempt[a].bound
    <3>1. "interrupted" \in AttemptStates /\ attempt \in [Attempts -> AttemptState]
      BY <1>1 DEF ProvTypes, AttemptStates
    <3> DEFINE row == [attempt[a] EXCEPT !.status = "interrupted", !.owner = 0]
    <3>2. row \in AttemptState /\ row.status = "interrupted" /\ row.bound = attempt[a].bound
      BY <3>1
    <3>3. attempt' = [attempt EXCEPT ![a] = row]
      BY <2>1, <3>1
    <3> HIDE DEF row
    <3> QED
      BY <3>1, <3>2, <3>3
  <2>3. late \subseteq late' /\ late' \subseteq Attempts
    BY <1>1, <2>1 DEF ProvTypes
  <2>4. ASSUME late' = {}
        PROVE  /\ setter[a] = "none" /\ ProvSound
               /\ \A h \in ProvCalls : ~(helper[h].of = a /\ helper[h].pc \in HelperAtWork)
    <3>1. ~Working(a) /\ late = {}
      BY <2>1, <2>4
    <3> QED
      BY <1>1, <3>1 DEF Working, HelperAtWork
  <2> QED
    BY <1>1, <2>1, <2>2, <2>3, <2>4 DEF AsideStep, ProvTypes, ProvSound, Journalled
<1>3. CASE Reconcile(a)
  <2> DEFINE e == [k \in Effects |-> IF effect[a][k] = "applying" THEN "reconciliation_required"
                                     ELSE effect[a][k]]
  <2>1. /\ UNCHANGED <<setup, repository, secrets, record, attempt, setter, helper, late>>
        /\ attempt[a].status = "interrupted"
        /\ effect' = [effect EXCEPT ![a] = e]
    BY <1>3 DEF Reconcile
  <2>2. e \in [Effects -> EffectStates]
        /\ \A k \in Effects : e[k] \in Safe <=> effect[a][k] \in Safe
    <3>1. "reconciliation_required" \in EffectStates /\ "reconciliation_required" \notin Safe
          /\ "applying" \notin Safe
      BY DEF EffectStates, Safe, Compensable
    <3> QED
      BY <1>1, <3>1 DEF ProvTypes
  <2> HIDE DEF e
  <2>3. /\ effect' \in [Attempts -> [Effects -> EffectStates]]
        /\ \A c \in Attempts : c # a => effect'[c] = effect[c]
        /\ \A k \in Effects : effect'[a][k] \in Safe <=> effect[a][k] \in Safe
    BY <1>1, <2>1, <2>2 DEF ProvTypes
  <2>4. ASSUME late = {}
        PROVE  /\ setter[a] = "none" /\ Journalled
               /\ \A h \in ProvCalls : ~(helper[h].of = a /\ helper[h].pc \in HelperAtWork)
    <3>1. SetterOnCourse(a) /\ Journalled /\ \A h \in ProvCalls : HelperOnCourse(h)
      BY <1>1, <2>4 DEF ProvSound
    <3> QED
      BY <2>1, <3>1 DEF SetterOnCourse, HelperOnCourse, HelperAtWork
  <2> QED
    BY <1>1, <2>1, <2>3, <2>4 DEF AsideStep, ProvTypes, Journalled
<1> QED
  BY <1>2, <1>3

(* A helper claims an attempt that has ended, releases it, or ends its cleanup: its row    *)
(* gets another status and another owner.                                                  *)
LEMMA OwnedSteps ==
    ASSUME ProvInv, NEW h \in ProvCalls, NEW a \in Attempts, helper[h].of = a,
           NEW to \in {"retrying", "cleaning", "failed"}, NEW owner \in {h, 0},
           NEW r \in HelperState,
           UNCHANGED <<setup, repository, secrets, record, effect, setter, late>>,
           attempt' = [attempt EXCEPT ![a].status = to, ![a].owner = owner],
           helper' = [helper EXCEPT ![h] = r],
           late = {} =>
             /\ attempt[a].status \in {"failed", "interrupted"}
                \/ (helper[h].pc # "idle" /\ attempt[a].status \in {"retrying", "cleaning"}
                    /\ attempt[a].owner = h)
             /\ \/ r.pc = "idle"
                \/ r.pc = "start" /\ r.of = a /\ to = "retrying" /\ helper[h].pc = "retry"
                \/ r.pc = "outside" /\ r.of = a /\ to = "cleaning" /\ owner = h
    PROVE  AsideStep(a)
<1>0. HelperKnown(h)
  BY HelperFacts
<1>1. /\ helper' \in [ProvCalls -> HelperState]
      /\ \A g \in ProvCalls : g # h => helper'[g] = helper[g]
      /\ helper'[h] = r
  BY HelpsFacts
<1>2. /\ attempt' \in [Attempts -> AttemptState]
      /\ \A c \in Attempts : c # a => attempt'[c] = attempt[c]
      /\ attempt'[a].status = to /\ attempt'[a].owner = owner
      /\ attempt'[a].bound = attempt[a].bound
  <2>1. attempt \in [Attempts -> AttemptState]
    BY <1>0 DEF HelperKnown
  <2>2. to \in AttemptStates /\ owner \in ProvCalls \cup {0}
    BY DEF AttemptStates
  <2> DEFINE row == [attempt[a] EXCEPT !.status = to, !.owner = owner]
  <2>3. /\ row \in AttemptState
        /\ row.status = to /\ row.owner = owner /\ row.bound = attempt[a].bound
    BY <2>1, <2>2
  <2>4. attempt' = [attempt EXCEPT ![a] = row]
    BY <2>1
  <2> HIDE DEF row
  <2>5. attempt'[a] = row /\ \A c \in Attempts : c # a => attempt'[c] = attempt[c]
    BY <2>1, <2>4
  <2>6. attempt' \in [Attempts -> AttemptState]
    <3> HIDE DEF AttemptState
    <3> QED
      BY <2>1, <2>3, <2>4
  <2> QED
    BY <2>3, <2>5, <2>6
<1>3. ASSUME late = {}
      PROVE  /\ setter[a] = "none"
             /\ attempt[a].status \notin {"absent", "retried"}
             /\ HelperOnCourse(h)'
             /\ \A g \in ProvCalls : helper[g].of = a /\ helper[g].pc \in HelperAtWork => g = h
  <2>1. attempt[a].status \notin {"absent", "running", "retried"}
    BY <1>3
  <2>2. setter[a] = "none"
    BY <1>0, <1>3, <2>1 DEF HelperKnown
  <2>3. \A g \in ProvCalls : helper[g].of = a /\ helper[g].pc \in HelperAtWork => g = h
    BY <1>0, <1>3 DEF HelperKnown
  <2>4. helper[h].pc = "retry" => \A k \in Effects : effect[a][k] \in Safe
    BY <1>0, <1>3 DEF HelperKnown, HelperOnCourse
  <2>5. CASE r.pc = "idle"
    BY <1>1, <2>1, <2>2, <2>3, <2>5 DEF HelperOnCourse
  <2>6. CASE r.pc = "start" /\ r.of = a /\ to = "retrying" /\ helper[h].pc = "retry"
    BY <1>1, <1>2, <2>1, <2>2, <2>3, <2>4, <2>6 DEF HelperOnCourse
  <2>7. CASE r.pc = "outside" /\ r.of = a /\ to = "cleaning" /\ owner = h
    BY <1>1, <1>2, <2>1, <2>2, <2>3, <2>7 DEF HelperOnCourse
  <2> QED
    BY <1>3, <2>5, <2>6, <2>7
<1>4. ASSUME late = {}
      PROVE  \A g \in ProvCalls :
               \/ HelperOnCourse(g)'
               \/ /\ helper'[g] = helper[g]
                  /\ helper[g].of = a /\ helper[g].pc \in HelperAtWork =>
                       attempt'[a].status = "cleaning" /\ attempt'[a].owner = g
  BY <1>1, <1>3, <1>4
<1> QED
  BY <1>0, <1>1, <1>2, <1>3, <1>4 DEF AsideStep, HelperKnown

(* The claims of a retry and of a cleanup, and their ends.                                 *)
LEMMA ClaimSteps ==
    ASSUME ProvInv, NEW h \in ProvCalls,
           ClaimRetry(h) \/ ClaimCleanup(h) \/ ReleaseRetry(h) \/ EndCleanup(h) \/ HelperCrash(h)
    PROVE  ReadStep(h) \/ \E a \in Attempts : AsideStep(a)
<1> DEFINE a == helper[h].of
<1>0. /\ helper[h].pc # "idle" /\ a \in Attempts
      /\ helper[h] \in HelperState /\ NoHelp \in HelperState /\ NoHelp.pc = "idle"
      /\ UNCHANGED <<setup, repository, secrets, record, effect, setter, late>>
  <2>1. helper[h].pc # "idle"
    BY DEF ClaimRetry, ClaimCleanup, ReleaseRetry, EndCleanup, HelperCrash
  <2>2. helper[h] \in HelperState /\ NoHelp \in HelperState /\ NoHelp.pc = "idle"
    BY HelpsFacts DEF NoHelp
  <2>3. UNCHANGED <<setup, repository, secrets, record, effect, setter, late>>
    BY DEF ClaimRetry, ClaimCleanup, ReleaseRetry, EndCleanup, HelperCrash
  <2> QED
    BY <2>1, <2>2, <2>3 DEF HelperState
<1>1. CASE helper' = [helper EXCEPT ![h] = NoHelp] /\ attempt' = attempt
  BY <1>0, <1>1, ReadSteps
<1> DEFINE r(pc) == [helper[h] EXCEPT !.pc = pc]
<1>2. \A pc \in {"start", "outside"} : r(pc) \in HelperState /\ r(pc).pc = pc /\ r(pc).of = a
  BY <1>0 DEF HelperState, HelperSteps
<1>3. helper \in [ProvCalls -> HelperState]
  BY HelperFacts DEF HelperKnown
<1>4. CASE ClaimRetry(h) /\ Ended(a)
  <2>1. /\ helper[h].pc = "retry" /\ attempt[a].status \in {"failed", "interrupted"}
        /\ attempt' = [attempt EXCEPT ![a].status = "retrying", ![a].owner = h]
        /\ Helps(h, "start")
    BY <1>4 DEF ClaimRetry, Ended
  <2>2. helper' = [helper EXCEPT ![h] = r("start")]
    BY <1>3, <2>1 DEF Helps
  <2> HIDE DEF r, a
  <2>3. AsideStep(a)
    BY <1>0, <1>2, <2>1, <2>2, OwnedSteps DEF a
  <2> QED
    BY <1>0, <2>3
<1>5. CASE ClaimCleanup(h) /\ Ended(a)
  <2>1. /\ helper[h].pc = "clean" /\ attempt[a].status \in {"failed", "interrupted"}
        /\ attempt' = [attempt EXCEPT ![a].status = "cleaning", ![a].owner = h]
        /\ Helps(h, "outside")
    BY <1>5 DEF ClaimCleanup, Ended
  <2>2. helper' = [helper EXCEPT ![h] = r("outside")]
    BY <1>3, <2>1 DEF Helps
  <2> HIDE DEF r, a
  <2>3. AsideStep(a)
    BY <1>0, <1>2, <2>1, <2>2, OwnedSteps DEF a
  <2> QED
    BY <1>0, <2>3
<1>6. CASE /\ helper' = [helper EXCEPT ![h] = NoHelp]
           /\ attempt' = [attempt EXCEPT ![a].status = "failed", ![a].owner = 0]
           /\ late = {} => attempt[a].status \in {"retrying", "cleaning"} /\ attempt[a].owner = h
  <2> HIDE DEF a
  <2>3. AsideStep(a)
    BY <1>0, <1>6, OwnedSteps DEF a
  <2> QED
    BY <1>0, <2>3
<1>7. CASE ReleaseRetry(h)
  <2>1. CASE StillOurs(h)
    BY <1>6, <1>7, <2>1 DEF ReleaseRetry, StillOurs
  <2>2. CASE ~StillOurs(h)
    BY <1>1, <1>7, <2>2 DEF ReleaseRetry
  <2> QED
    BY <2>1, <2>2
<1>8. CASE EndCleanup(h)
  <2>1. late = {} => attempt[a].status = "cleaning" /\ attempt[a].owner = h
    BY <1>8, HelperFacts DEF HelperKnown, EndCleanup, HelperAtWork
  <2>2. /\ helper' = [helper EXCEPT ![h] = NoHelp]
        /\ \/ attempt' = attempt
           \/ attempt' = [attempt EXCEPT ![a].status = "failed", ![a].owner = 0]
    BY <1>8 DEF EndCleanup
  <2> QED
    BY <1>1, <1>6, <2>1, <2>2
<1>9. CASE HelperCrash(h)
  BY <1>1, <1>9 DEF HelperCrash
<1> QED
  BY <1>1, <1>4, <1>5, <1>7, <1>8, <1>9 DEF ClaimRetry, ClaimCleanup

(* A cleanup undoes what is outside, then the row.                                         *)
LEMMA CleanSteps ==
    ASSUME ProvInv, NEW h \in ProvCalls, CleanOutside(h) \/ CleanRow(h)
    PROVE  \E a \in Attempts : AsideStep(a)
<1> DEFINE a == helper[h].of
<1>0. HelperKnown(h)
  BY HelperFacts
<1>1. /\ helper[h].pc \in {"outside", "row"} /\ a \in Attempts
      /\ UNCHANGED <<setup, setter, late>>
  <2>1. helper[h].pc \in {"outside", "row"} /\ UNCHANGED <<setup, setter, late>>
    BY DEF CleanOutside, CleanRow
  <2> QED
    BY <1>0, <2>1 DEF HelperKnown, HelperState
<1>2. /\ effect \in [Attempts -> [Effects -> EffectStates]]
      /\ attempt \in [Attempts -> AttemptState]
  BY <1>0 DEF HelperKnown
\* What such a step does, told apart by what became of the effect k.
<1>3. PICK k \in Effects, pc \in {"row", "finish", "release"} :
        /\ Helps(h, pc)
        /\ repository' \in {repository, 0} /\ secrets' \in {secrets, 0} /\ record' \in {record, 0}
        /\ attempt' = attempt \/ attempt' = [attempt EXCEPT ![a].bound = 0]
        /\ \/ effect' = effect
           \/ effect' = NotCompensated(a, k)
           \/ /\ effect' = Compensated(a, k)
              /\ \/ k = "repository" /\ repository' = 0
                 \/ k = "secrets" /\ secrets' = 0
                 \/ k = "project" /\ attempt' = [attempt EXCEPT ![a].bound = 0]
  <2>1. CASE CleanOutside(h)
    <3> DEFINE k == IF Creates THEN "repository" ELSE "secrets"
    <3>1. k \in Effects /\ (k = "repository" <=> Creates)
      OBVIOUS
    <3>2. /\ UNCHANGED <<record, attempt>>
          /\ \/ /\ UNCHANGED <<repository, secrets, effect>>
                /\ Helps(h, "row") \/ Helps(h, "release")
             \/ /\ repository' = IF Creates THEN 0 ELSE repository
                /\ secrets' = 0
                /\ effect' = Compensated(a, k)
                /\ Helps(h, IF effect[a][k] \in Compensable THEN "row" ELSE "release")
             \/ /\ effect' = NotCompensated(a, k)
                /\ Helps(h, "release")
                /\ UNCHANGED <<repository, secrets>>
      BY <2>1 DEF CleanOutside
    <3>3. k = "repository" \/ k = "secrets"
      OBVIOUS
    <3> HIDE DEF k, a
    <3>4. \E pc \in {"row", "finish", "release"} : Helps(h, pc)
      <4>1. CASE Helps(h, "row")
        BY <4>1
      <4>2. CASE Helps(h, "release")
        BY <4>2
      <4> QED
        BY <3>2, <4>1, <4>2
    <3>5. /\ repository' \in {repository, 0} /\ secrets' \in {secrets, 0} /\ record' \in {record, 0}
          /\ attempt' = attempt
          /\ \/ effect' = effect
             \/ effect' = NotCompensated(a, k)
             \/ /\ effect' = Compensated(a, k)
                /\ \/ k = "repository" /\ repository' = 0
                   \/ k = "secrets" /\ secrets' = 0
                   \/ k = "project" /\ attempt' = [attempt EXCEPT ![a].bound = 0]
      BY <3>1, <3>2, <3>3
    <3> QED
      BY <3>1, <3>4, <3>5
  <2>2. CASE CleanRow(h)
    <3>1. /\ UNCHANGED <<repository, secrets>>
          /\ \/ /\ record' = 0
                /\ attempt' = [attempt EXCEPT ![a].bound = 0]
                /\ effect' = Compensated(a, "project")
                /\ Helps(h, "finish")
             \/ /\ effect' = NotCompensated(a, "project")
                /\ Helps(h, "release")
                /\ UNCHANGED <<record, attempt>>
             \/ /\ \/ effect' = effect /\ attempt' = attempt
                   \/ /\ effect' = Compensated(a, "project")
                      /\ attempt' = [attempt EXCEPT ![a].bound = 0]
                /\ Helps(h, "finish")
                /\ UNCHANGED record
      BY <2>2 DEF CleanRow
    <3> HIDE DEF a
    <3>2. \E pc \in {"row", "finish", "release"} : Helps(h, pc)
      <4>1. CASE Helps(h, "finish")
        BY <4>1
      <4>2. CASE Helps(h, "release")
        BY <4>2
      <4> QED
        BY <3>1, <4>1, <4>2
    <3> QED
      BY <3>1, <3>2
  <2> QED
    BY <2>1, <2>2
<1> HIDE DEF a
<1>4. /\ effect' \in [Attempts -> [Effects -> EffectStates]]
      /\ \A c \in Attempts : c # a => effect'[c] = effect[c]
      /\ \A j \in Effects : j # k => effect'[a][j] = effect[a][j]
      /\ effect[a][k] \in Safe => effect'[a][k] \in Safe
      /\ effect[a][k] \notin Safe => \/ effect'[a][k] \notin Safe
                                     \/ k = "repository" /\ repository' = 0
                                     \/ k = "secrets" /\ secrets' = 0
                                     \/ /\ k = "project"
                                        /\ attempt' = [attempt EXCEPT ![a].bound = 0]
  <2>1. CASE effect' = effect
    BY <1>1, <1>2, <2>1
  <2>2. CASE effect' = NotCompensated(a, k)
    <3>1. /\ effect' \in [Attempts -> [Effects -> EffectStates]]
          /\ \A c \in Attempts : c # a => effect'[c] = effect[c]
          /\ \A j \in Effects : j # k => effect'[a][j] = effect[a][j]
          /\ effect[a][k] \in Safe => effect'[a][k] \in Safe
          /\ effect[a][k] \notin Safe => effect'[a][k] \notin Safe \/ effect' = Compensated(a, k)
      BY <1>1, <1>2, <2>2, JournalFacts
    <3>2. effect[a][k] \notin Safe => effect'[a][k] \notin Safe
      BY <1>1, <1>2, <2>2 DEF NotCompensated, Moved, Safe
    <3> QED
      BY <3>1, <3>2
  <2>3. CASE /\ effect' = Compensated(a, k)
             /\ \/ k = "repository" /\ repository' = 0
                \/ k = "secrets" /\ secrets' = 0
                \/ k = "project" /\ attempt' = [attempt EXCEPT ![a].bound = 0]
    <3>1. /\ effect' \in [Attempts -> [Effects -> EffectStates]]
          /\ \A c \in Attempts : c # a => effect'[c] = effect[c]
          /\ \A j \in Effects : j # k => effect'[a][j] = effect[a][j]
          /\ effect'[a][k] \in Safe
      <4>1. effect' = Compensated(a, k)
        BY <2>3
      <4> QED
        BY <1>1, <1>2, <4>1, JournalFacts
    <3> QED
      BY <2>3, <3>1
  <2> QED
    BY <1>3, <2>1, <2>2, <2>3
<1>5. /\ attempt' \in [Attempts -> AttemptState]
      /\ \A c \in Attempts : c # a => attempt'[c] = attempt[c]
      /\ attempt'[a].status = attempt[a].status /\ attempt'[a].owner = attempt[a].owner
      /\ attempt'[a].bound \in {attempt[a].bound, 0}
      /\ attempt' = [attempt EXCEPT ![a].bound = 0] => attempt'[a].bound = 0
  <2>1. CASE attempt' = attempt
    BY <1>1, <1>2, <1>3, <2>1
  <2>2. CASE attempt' = [attempt EXCEPT ![a].bound = 0]
    BY <1>1, <1>2, <1>3, <2>2
  <2> QED
    BY <1>3, <2>1, <2>2
<1>6. /\ helper' \in [ProvCalls -> HelperState]
      /\ \A g \in ProvCalls : g # h => helper'[g] = helper[g]
      /\ helper'[h].pc = pc /\ helper'[h].of = a
  <2>1. pc \in HelperSteps \ {"idle"} /\ helper[h].pc # "idle"
    BY <1>1 DEF HelperSteps
  <2> QED
    BY <1>3, <2>1, HelpsFacts DEF a
<1>7. ASSUME late = {}
      PROVE  /\ setter[a] = "none"
             /\ attempt[a].status = "cleaning" /\ attempt[a].owner = h
             /\ HelperOnCourse(h)'
  <2>1. /\ setter[a] = "none" /\ attempt[a].status = "cleaning" /\ attempt[a].owner = h
    BY <1>0, <1>1, <1>7 DEF HelperKnown, HelperOnCourse, a
  <2> QED
    BY <1>1, <1>3, <1>5, <1>6, <2>1 DEF HelperOnCourse
<1>8. ASSUME late = {}
      PROVE  \A g \in ProvCalls :
               \/ HelperOnCourse(g)'
               \/ /\ helper'[g] = helper[g]
                  /\ helper[g].of = a /\ helper[g].pc \in HelperAtWork =>
                       attempt'[a].status = "cleaning" /\ attempt'[a].owner = g
  BY <1>0, <1>5, <1>6, <1>7, <1>8 DEF HelperKnown
<1>9. ASSUME late = {}
      PROVE  /\ \A j \in Effects : effect[a][j] \in Safe => effect'[a][j] \in Safe
             /\ repository' = a => effect'[a]["repository"] \notin Safe
             /\ secrets' = a => effect'[a]["secrets"] \notin Safe
             /\ attempt'[a].bound # 0 => effect'[a]["project"] \notin Safe
  <2>1. /\ repository = a => effect[a]["repository"] \notin Safe
        /\ secrets = a => effect[a]["secrets"] \notin Safe
        /\ attempt[a].bound # 0 => effect[a]["project"] \notin Safe
        /\ a # 0
    BY <1>0, <1>1, <1>9 DEF HelperKnown
  <2>2. /\ repository' = a => repository = a
        /\ secrets' = a => secrets = a
        /\ attempt'[a].bound # 0 => attempt[a].bound # 0
    BY <1>3, <1>5, <2>1
  <2>3. \A j \in Effects : effect[a][j] \in Safe => effect'[a][j] \in Safe
    BY <1>4
  <2>4. CASE k = "repository"
    BY <1>4, <2>1, <2>2, <2>3, <2>4
  <2>5. CASE k = "secrets"
    BY <1>4, <2>1, <2>2, <2>3, <2>5
  <2>6. CASE k = "project"
    BY <1>4, <1>5, <2>1, <2>2, <2>3, <2>6
  <2> QED
    BY <2>3, <2>4, <2>5, <2>6
<1>10. AsideStep(a)
  BY <1>0, <1>1, <1>3, <1>4, <1>5, <1>6, <1>7, <1>8, <1>9 DEF AsideStep, HelperKnown
<1> QED
  BY <1>1, <1>10

(* start() retires the attempt that was claimed and begins the next: by then nothing is    *)
(* left of any attempt.                                                                    *)
LEMMA StartFacts ==
    ASSUME ProvInv, late = {}, NEW h \in ProvCalls, helper[h].pc = "start", StillOurs(h)
    PROVE  /\ \A c \in Attempts : c > helper[h].of => attempt[c].status = "absent"
           /\ \A c \in Attempts : c < helper[h].of => attempt[c].status = "retried"
           /\ \A c \in Attempts, k \in Effects : effect[c][k] \in Safe
           /\ setter[helper[h].of] = "none"
           /\ repository \notin Attempts /\ secrets \notin Attempts
           /\ \A c \in Attempts : attempt[c].bound = 0
<1> DEFINE a == helper[h].of
<1>1. ProvTypes /\ ProvSound /\ HelperOnCourse(h) /\ a \in Attempts
  BY DEF ProvInv, ProvSound, ProvTypes, HelperState
<1>2. attempt[a].status = "retrying"
  BY DEF StillOurs
<1>3. \A k \in Effects : effect[a][k] \in Safe
  BY <1>1 DEF HelperOnCourse
<1>4. setter[a] = "none"
  BY <1>1 DEF HelperOnCourse
<1> HIDE DEF a
<1>5. \A c \in Attempts : c < a => attempt[c].status = "retried"
  BY <1>1, <1>2 DEF ProvSound, OneAtATime
<1>6. \A c \in Attempts : c > a => attempt[c].status = "absent"
  <2> SUFFICES ASSUME NEW c \in Attempts, c > a, attempt[c].status # "absent"
               PROVE  FALSE
    OBVIOUS
  <2>1. \A b \in Attempts : b < c => attempt[b].status = "retried"
    BY <1>1 DEF ProvSound, OneAtATime
  <2>2. a < c
    BY <1>1
  <2> QED
    BY <1>1, <1>2, <2>1, <2>2
<1>7. \A c \in Attempts, k \in Effects : effect[c][k] \in Safe
  <2> SUFFICES ASSUME NEW c \in Attempts, NEW k \in Effects
               PROVE  effect[c][k] \in Safe
    OBVIOUS
  <2>1. CASE c = a
    BY <1>3, <2>1
  <2>2. CASE c < a
    BY <1>1, <1>5, <2>2 DEF ProvSound, OneAtATime
  <2>3. CASE c > a
    <3>1. effect[c] = NoEffects
      BY <1>1, <1>6, <2>3 DEF ProvSound, OneAtATime
    <3> QED
      BY <3>1 DEF NoEffects, Safe
  <2> QED
    BY <1>1, <2>1, <2>2, <2>3
<1>8. Journalled
  BY <1>1 DEF ProvSound
<1>9. /\ repository \notin Attempts /\ secrets \notin Attempts
      /\ \A c \in Attempts : attempt[c].bound = 0
  BY <1>7, <1>8 DEF Journalled
<1> QED
  BY <1>4, <1>5, <1>6, <1>7, <1>9 DEF a

(* So the next attempt starts, and the invariant holds of both.                            *)
LEMMA RetryStartKeeps ==
    ASSUME ProvInv, NEW h \in ProvCalls, StartRetry(h)
    PROVE  ProvInv'
<1> DEFINE a == helper[h].of
<1>1. PICK b \in Attempts :
        /\ attempt[b].status = "absent"
        /\ \A c \in 1..(b - 1) : attempt[c].status # "absent"
        /\ attempt' = [attempt EXCEPT ![a].status = "retried", ![a].owner = 0,
                                      ![b].status = "running", ![b].of = a]
        /\ setter' = [setter EXCEPT ![b] = "check"]
  BY DEF StartRetry
<1>2. /\ helper[h].pc = "start" /\ StillOurs(h) /\ helper' = [helper EXCEPT ![h] = NoHelp]
      /\ UNCHANGED <<setup, repository, secrets, record, effect, late>>
  BY DEF StartRetry
<1>3. ProvTypes /\ a \in Attempts /\ attempt[a].status = "retrying"
  BY <1>2 DEF ProvInv, ProvTypes, HelperState, StillOurs
<1>4. a # b
  BY <1>1, <1>3
<1>5. /\ attempt' \in [Attempts -> AttemptState]
      /\ \A c \in Attempts : c # a /\ c # b => attempt'[c] = attempt[c]
      /\ attempt'[a].status = "retried" /\ attempt'[a].bound = attempt[a].bound
      /\ attempt'[b].status = "running" /\ attempt'[b].bound = attempt[b].bound
  <2>1. attempt \in [Attempts -> AttemptState] /\ {"retried", "running"} \subseteq AttemptStates
    BY <1>3 DEF ProvTypes, AttemptStates
  <2> DEFINE mid == [attempt EXCEPT ![a].status = "retried", ![a].owner = 0]
  <2>2. attempt' = [mid EXCEPT ![b].status = "running", ![b].of = a]
    BY <1>1, <1>4, <2>1
  <2>3. a \in Attempts /\ a # b
    BY <1>3, <1>4
  <2> HIDE DEF a
  <2>4. /\ mid \in [Attempts -> AttemptState]
        /\ \A c \in Attempts : c # a => mid[c] = attempt[c]
        /\ mid[a].status = "retried" /\ mid[a].bound = attempt[a].bound
    BY <2>1, <2>3
  <2> HIDE DEF mid
  <2> DEFINE row == [mid[b] EXCEPT !.status = "running", !.of = a]
  <2>5. row \in AttemptState /\ row.status = "running" /\ row.bound = mid[b].bound
    BY <2>1, <2>3, <2>4
  <2>6. attempt' = [mid EXCEPT ![b] = row]
    BY <2>2, <2>4
  <2> HIDE DEF row
  <2>7. /\ attempt' \in [Attempts -> AttemptState]
        /\ \A c \in Attempts : c # b => attempt'[c] = mid[c]
        /\ attempt'[b].status = "running" /\ attempt'[b].bound = mid[b].bound
    BY <2>4, <2>5, <2>6
  <2> QED
    BY <2>3, <2>4, <2>7
<1>6. /\ setter' \in [Attempts -> SetterSteps]
      /\ \A c \in Attempts : c # b => setter'[c] = setter[c]
      /\ setter'[b] = "check"
  BY <1>1, <1>3 DEF ProvTypes, SetterSteps
<1>7. /\ helper' \in [ProvCalls -> HelperState]
      /\ \A g \in ProvCalls : g # h => helper'[g] = helper[g]
      /\ helper'[h].pc = "idle"
  BY <1>2, HelpsFacts DEF NoHelp
<1>8. ProvTypes'
  BY <1>2, <1>3, <1>5, <1>6, <1>7 DEF ProvTypes
<1>9. ASSUME late = {}
      PROVE  ProvSound'
  <2>1. ProvSound
    BY <1>9 DEF ProvInv
  <2>2. /\ \A c \in Attempts : c > a => attempt[c].status = "absent"
        /\ \A c \in Attempts : c < a => attempt[c].status = "retried"
        /\ \A c \in Attempts, k \in Effects : effect[c][k] \in Safe
        /\ setter[a] = "none"
        /\ repository \notin Attempts /\ secrets \notin Attempts
        /\ \A c \in Attempts : attempt[c].bound = 0
    BY <1>2, <1>9, StartFacts
  <2> HIDE DEF a
  <2>3. b = a + 1
    <3>1. ~(b < a)
      BY <1>1, <2>2
    <3>2. a + 1 \in 1..(b - 1) => attempt[a + 1].status # "absent"
      BY <1>1
    <3>3. a + 1 <= b - 1 => a + 1 \in Attempts
      BY <1>1, <1>3, ProvisioningAssumption
    <3> QED
      BY <1>1, <1>3, <1>4, <2>2, <3>1, <3>2, <3>3
  <2>4. OneAtATime'
    <3>1. \A c \in Attempts : c < a \/ c = a \/ c = b \/ c > b
      BY <1>3, <2>3
    <3>2. \A c \in Attempts : c > b => attempt'[c].status = "absent" /\ effect'[c] = NoEffects
      <4> SUFFICES ASSUME NEW c \in Attempts, c > b
                   PROVE  attempt'[c].status = "absent" /\ effect'[c] = NoEffects
        OBVIOUS
      <4>1. c # a /\ c # b /\ attempt[c].status = "absent"
        BY <1>3, <2>2, <2>3
      <4>2. effect[c] = NoEffects
        BY <2>1, <4>1 DEF ProvSound, OneAtATime
      <4> QED
        BY <1>2, <1>5, <4>1, <4>2
    <3>3. \A c \in Attempts : c < a => attempt'[c].status = "retried"
      BY <1>3, <1>5, <2>2, <2>3
    <3>4. \A c \in Attempts : c < b => attempt'[c].status = "retried"
      BY <1>3, <1>5, <2>3, <3>3
    <3>5. \A c \in Attempts, k \in Effects : effect'[c][k] \in Safe
      BY <1>2, <2>2
    <3>6. \A c \in Attempts : attempt'[c].status = "absent" <=> c > b
      BY <1>3, <1>5, <2>3, <3>1, <3>2, <3>3
    <3>7. \A c \in Attempts : attempt'[c].status # "absent" =>
            \A d \in Attempts : d < c => attempt'[d].status = "retried"
      <4> SUFFICES ASSUME NEW c \in Attempts, ~(c > b), NEW d \in Attempts, d < c
                   PROVE  attempt'[d].status = "retried"
        BY <3>6
      <4>1. d < b
        BY <1>3, <2>3
      <4> QED
        BY <3>4, <4>1
    <3>8. \A c \in Attempts : attempt'[c].status = "absent" =>
            \A d \in Attempts : d > c => attempt'[d].status = "absent"
      <4> SUFFICES ASSUME NEW c \in Attempts, c > b, NEW d \in Attempts, d > c
                   PROVE  attempt'[d].status = "absent"
        BY <3>6
      <4>1. d > b
        BY <1>3, <2>3
      <4> QED
        BY <3>2, <4>1
    <3> QED
      BY <3>2, <3>5, <3>6, <3>7, <3>8 DEF OneAtATime
  <2>5. Journalled'
    BY <1>2, <1>5, <2>2 DEF Journalled
  <2>6. \A c \in Attempts : SetterOnCourse(c)'
    <3> SUFFICES ASSUME NEW c \in Attempts
                 PROVE  SetterOnCourse(c)'
      OBVIOUS
    <3>1. CASE c = b
      BY <1>2, <1>5, <1>6, <2>2, <3>1 DEF SetterOnCourse
    <3>2. CASE c = a
      BY <1>4, <1>6, <2>2, <3>2 DEF SetterOnCourse
    <3>3. CASE c # a /\ c # b
      BY <1>2, <1>5, <1>6, <2>1, <3>3 DEF ProvSound, SetterOnCourse
    <3> QED
      BY <3>1, <3>2, <3>3
  <2>7. \A g \in ProvCalls : HelperOnCourse(g)'
    <3> SUFFICES ASSUME NEW g \in ProvCalls, g # h, helper[g].pc # "idle"
                 PROVE  HelperOnCourse(g)'
      BY <1>7 DEF HelperOnCourse
    <3>1. HelperOnCourse(g) /\ helper'[g] = helper[g] /\ helper[g].of \in Attempts
      BY <1>3, <1>7, <2>1 DEF ProvSound, ProvTypes, HelperState
    <3>2. helper[g].of # b
      BY <1>1, <3>1 DEF HelperOnCourse
    <3>3. CASE helper[g].of = a
      BY <1>2, <1>3, <1>4, <1>5, <1>6, <2>2, <3>1, <3>3 DEF HelperOnCourse
    <3>4. CASE helper[g].of # a
      BY <1>2, <1>5, <1>6, <3>1, <3>2, <3>4 DEF HelperOnCourse
    <3> QED
      BY <3>3, <3>4
  <2> QED
    BY <2>4, <2>5, <2>6, <2>7 DEF ProvSound
<1> QED
  BY <1>2, <1>8, <1>9 DEF ProvInv

(* Every step of a project's setup, its retries and its cleanups keeps the invariant.      *)
LEMMA ProvStepKeeps ==
    ASSUME ProvInv, [ProvNext]_provVars
    PROVE  ProvInv'
<1>1. ASSUME UNCHANGED provVars
      PROVE  ProvInv'
  BY <1>1 DEF provVars, ProvInv, ProvTypes, ProvSound, OneAtATime, Journalled, SetterOnCourse,
              HelperOnCourse
<1>2. ASSUME NEW a \in Attempts,
             \/ PlanFirst(a) \/ BeginRepository(a) \/ Provision(a) \/ CompleteRepository(a)
             \/ BeginProject(a) \/ InsertProject(a) \/ BindProject(a) \/ CompleteProject(a)
             \/ UndoProject(a) \/ UndoRepository(a)
             \/ BeginSecrets(a) \/ WriteSecrets(a) \/ CompleteSecrets(a) \/ UndoSecrets(a)
             \/ UndoImport(a) \/ EndAttempt(a) \/ AttemptCrash(a)
      PROVE  ProvInv'
  <2>1. SetupStep(a)
    BY <1>2, PlanningCalls, RepositoryCalls, ProjectCalls, UndoCalls, SecretCalls, EndCalls
  <2> QED
    BY <2>1, SetupKeeps
<1>3. ASSUME NEW a \in Attempts, Interrupt(a) \/ Reconcile(a)
      PROVE  ProvInv'
  BY <1>3, StaleSteps, AsideKeeps
<1>4. ASSUME NEW h \in ProvCalls, \E a \in Attempts : ReadForRetry(h, a) \/ ReadForCleanup(h, a)
      PROVE  ProvInv'
  BY <1>4, ReadSteps, ReadKeeps
<1>5. ASSUME NEW h \in ProvCalls,
             ClaimRetry(h) \/ ClaimCleanup(h) \/ ReleaseRetry(h) \/ EndCleanup(h) \/ HelperCrash(h)
      PROVE  ProvInv'
  BY <1>5, ClaimSteps, ReadKeeps, AsideKeeps
<1>6. ASSUME NEW h \in ProvCalls, CleanOutside(h) \/ CleanRow(h)
      PROVE  ProvInv'
  BY <1>6, CleanSteps, AsideKeeps
<1>7. ASSUME NEW h \in ProvCalls, StartRetry(h)
      PROVE  ProvInv'
  BY <1>7, RetryStartKeeps
<1>8. ASSUME TakeName
      PROVE  ProvInv'
  <2>1. /\ repository' = Somebody
        /\ UNCHANGED <<setup, secrets, record, attempt, effect, setter, helper, late>>
    BY <1>8 DEF TakeName
  <2>2. Somebody \notin Attempts
    BY ProvisioningAssumption DEF Somebody
  <2> QED
    BY <2>1, <2>2 DEF ProvInv, ProvTypes, ProvSound, OneAtATime, Journalled, SetterOnCourse,
                      HelperOnCourse
<1> QED
  BY <1>1, <1>2, <1>3, <1>4, <1>5, <1>6, <1>7, <1>8 DEF ProvNext

(* For every number of attempts, helpers and failures, as long as no call has outlasted    *)
(* its lease: one attempt at a time; what exists is journalled as something to undo; and   *)
(* who works on an attempt has it to itself (provisioning.service.ts).                     *)
THEOREM ProvisioningInvariant == ProvSpec => []ProvInv
<1>1. ProvInit => ProvInv
  <2> SUFFICES ASSUME ProvInit
               PROVE  ProvInv
    OBVIOUS
  <2>1. 1 \in Attempts /\ Somebody \notin Attempts /\ 0 \notin Attempts
    BY ProvisioningAssumption DEF Somebody
  <2>2. {"absent"} \subseteq EffectStates /\ "absent" \in Safe
    BY DEF EffectStates, Safe
  <2>3. /\ attempt \in [Attempts -> AttemptState]
        /\ \A a \in Attempts : /\ attempt[a].status = IF a = 1 THEN "running" ELSE "absent"
                               /\ attempt[a].bound = 0
    BY <2>1 DEF ProvInit, NoAttempt, AttemptStates
  <2>4. /\ effect \in [Attempts -> [Effects -> EffectStates]]
        /\ \A a \in Attempts : effect[a] = NoEffects /\ \A k \in Effects : effect[a][k] \in Safe
    BY <2>2 DEF ProvInit, NoEffects
  <2>5. /\ setter \in [Attempts -> SetterSteps]
        /\ \A a \in Attempts : setter[a] = IF a = 1 THEN "check" ELSE "none"
    BY DEF ProvInit, SetterSteps
  <2>6. /\ helper \in [ProvCalls -> HelperState]
        /\ \A h \in ProvCalls : helper[h].pc = "idle"
    BY <2>2 DEF ProvInit, NoHelp, NoEffects, HelperState, HelperSteps
  <2>7. /\ setup \in [kind : {"create", "import"}, scm : {"github", "gitea"}]
        /\ repository \in {0, Somebody} /\ secrets = 0 /\ record = 0 /\ late = {}
    BY DEF ProvInit
  <2>8. ProvTypes
    BY <2>3, <2>4, <2>5, <2>6, <2>7 DEF ProvTypes
  <2>9. OneAtATime
    BY <2>3, <2>4 DEF OneAtATime
  <2>10. Journalled
    BY <2>1, <2>3, <2>7 DEF Journalled
  <2>11. \A a \in Attempts : SetterOnCourse(a)
    BY <2>3, <2>4, <2>5 DEF SetterOnCourse
  <2>12. \A h \in ProvCalls : HelperOnCourse(h)
    BY <2>6 DEF HelperOnCourse
  <2> QED
    BY <2>8, <2>9, <2>10, <2>11, <2>12 DEF ProvInv, ProvSound
<1> QED
  BY <1>1, ProvStepKeeps, PTL DEF ProvSpec

(* A retry starts when nothing is left of any earlier attempt: neither its repository nor  *)
(* its secrets, and no project row that an operation is bound to (isRetryable(), start()). *)
THEOREM RetryFindsNothing == ProvSpec => RetryStartsClean
<1>1. ASSUME ProvInv, ProvNext, NEW b \in Attempts,
             attempt[b].status = "absent", attempt'[b].status # "absent", late = {}
      PROVE  /\ repository \notin Attempts /\ secrets \notin Attempts
             /\ record \in Attempts => attempt[record].bound = 0
  <2>1. \E h \in ProvCalls : StartRetry(h)
    <3> SUFFICES ASSUME ~ \E h \in ProvCalls : StartRetry(h)
                 PROVE  attempt'[b].status = "absent"
      BY <1>1
    <3>1. ProvTypes /\ ProvSound
      BY <1>1 DEF ProvInv
    <3>2. setter[b] = "none"
      BY <1>1, <3>1 DEF ProvSound, SetterOnCourse
    <3>3. \A a \in Attempts : SetupStep(a) => attempt'[b] = attempt[b]
      BY <3>2 DEF SetupStep
    <3>4. CASE \E a \in Attempts :
                 \/ PlanFirst(a) \/ BeginRepository(a) \/ Provision(a) \/ CompleteRepository(a)
                 \/ BeginProject(a) \/ InsertProject(a) \/ BindProject(a) \/ CompleteProject(a)
                 \/ UndoProject(a) \/ UndoRepository(a)
                 \/ BeginSecrets(a) \/ WriteSecrets(a) \/ CompleteSecrets(a) \/ UndoSecrets(a)
                 \/ UndoImport(a) \/ EndAttempt(a) \/ AttemptCrash(a)
      BY <1>1, <3>3, <3>4, PlanningCalls, RepositoryCalls, ProjectCalls, UndoCalls, SecretCalls,
         EndCalls
    <3>5. CASE \E a \in Attempts : Interrupt(a) \/ Reconcile(a)
      BY <1>1, <3>1, <3>5 DEF Interrupt, Reconcile, ProvTypes
    <3>6. CASE \E h \in ProvCalls :
                 \/ \E a \in Attempts : ReadForRetry(h, a) \/ ReadForCleanup(h, a)
                 \/ ClaimRetry(h) \/ ReleaseRetry(h) \/ ClaimCleanup(h)
                 \/ CleanOutside(h) \/ CleanRow(h) \/ EndCleanup(h) \/ HelperCrash(h)
      <4>1. \A h \in ProvCalls : ReadStep(h) => attempt'[b].status = "absent"
        BY <1>1 DEF ReadStep
      <4>2. ASSUME NEW a \in Attempts, AsideStep(a), late' = late
            PROVE  attempt'[b].status = "absent"
        BY <1>1, <4>2 DEF AsideStep
      <4>3. late' = late
        BY <3>6 DEF ReadForRetry, ReadForCleanup, ClaimRetry, ReleaseRetry, ClaimCleanup,
                    CleanOutside, CleanRow, EndCleanup, HelperCrash
      <4> QED
        BY <1>1, <3>6, <4>1, <4>2, <4>3, ReadSteps, ClaimSteps, CleanSteps
    <3>7. CASE TakeName
      BY <1>1, <3>7 DEF TakeName
    <3> QED
      BY <1>1, <3>4, <3>5, <3>6, <3>7 DEF ProvNext
  <2>2. PICK h \in ProvCalls : StartRetry(h)
    BY <2>1
  <2>3. helper[h].pc = "start" /\ StillOurs(h)
    BY <2>2 DEF StartRetry
  <2> QED
    BY <1>1, <2>3, StartFacts
<1>2. ProvInv /\ [ProvNext]_provVars =>
        [\A b \in Attempts :
           (attempt[b].status = "absent" /\ attempt'[b].status # "absent" /\ late = {}) =>
             /\ repository \notin Attempts /\ secrets \notin Attempts
             /\ record \in Attempts => attempt[record].bound = 0]_provVars
  BY <1>1
<1> QED
  BY <1>2, ProvisioningInvariant, PTL DEF ProvSpec, RetryStartsClean
-----------------------------------------------------------------------------
(* What an import does to the repository it imports *)

\* The steps of importExisting(): none of them makes or deletes a repository.
ImportSteps ==
    {"none", "check", "project", "insert", "bind", "inserted", "unrecord", "secrets", "write",
     "written", "unsecrets", "unimport", "succeed", "fail"}

ImportInv ==
    ~Creates => repository = Somebody /\ \A a \in Attempts : setter[a] \in ImportSteps

(* Neither the call of an import, nor its recovery, retry or cleanup leads to a step that  *)
(* deletes a repository: only one that creates journals a repository to undo.              *)
LEMMA ImportStep ==
    ASSUME ProvInv, ImportInv, [ProvNext]_provVars
    PROVE  ImportInv' /\ (Creates' <=> Creates)
<1>1. setter \in [Attempts -> SetterSteps] /\ repository \in Attempts \cup {0, Somebody}
  BY DEF ProvInv, ProvTypes
<1>2. Somebody # 0
  BY ProvisioningAssumption DEF Somebody
<1>3. setup' = setup
  <2>1. ASSUME NEW a \in Attempts,
               \/ PlanFirst(a) \/ BeginRepository(a) \/ Provision(a) \/ CompleteRepository(a)
               \/ BeginProject(a) \/ InsertProject(a) \/ BindProject(a) \/ CompleteProject(a)
               \/ UndoProject(a) \/ UndoRepository(a)
               \/ BeginSecrets(a) \/ WriteSecrets(a) \/ CompleteSecrets(a) \/ UndoSecrets(a)
               \/ UndoImport(a) \/ EndAttempt(a) \/ AttemptCrash(a)
        PROVE  setup' = setup
    BY <2>1, PlanningCalls, RepositoryCalls, ProjectCalls, UndoCalls, SecretCalls, EndCalls
       DEF SetupStep
  <2>2. ASSUME NEW a \in Attempts, Interrupt(a) \/ Reconcile(a)
        PROVE  setup' = setup
    BY <2>2 DEF Interrupt, Reconcile
  <2>3. ASSUME NEW h \in ProvCalls,
               \/ \E a \in Attempts : ReadForRetry(h, a) \/ ReadForCleanup(h, a)
               \/ ClaimRetry(h) \/ StartRetry(h) \/ ReleaseRetry(h)
               \/ ClaimCleanup(h) \/ CleanOutside(h) \/ CleanRow(h) \/ EndCleanup(h)
               \/ HelperCrash(h)
        PROVE  setup' = setup
    BY <2>3 DEF ReadForRetry, ReadForCleanup, ClaimRetry, StartRetry, ReleaseRetry, ClaimCleanup,
                CleanOutside, CleanRow, EndCleanup, HelperCrash
  <2>4. CASE TakeName \/ UNCHANGED provVars
    BY <2>4 DEF TakeName, provVars
  <2> QED
    BY <2>1, <2>2, <2>3, <2>4 DEF ProvNext
<1>4. Creates' <=> Creates
  BY <1>3 DEF Creates
<1> SUFFICES ASSUME ~Creates
             PROVE  repository' = Somebody /\ \A a \in Attempts : setter'[a] \in ImportSteps
  BY <1>4 DEF ImportInv
<1>5. repository = Somebody /\ \A a \in Attempts : setter[a] \in ImportSteps
  BY DEF ImportInv
<1>6. ASSUME NEW a \in Attempts, NEW pc \in ImportSteps, Goes(a, pc)
      PROVE  \A c \in Attempts : setter'[c] \in ImportSteps
  BY <1>1, <1>5, <1>6 DEF Goes
<1>7. CASE UNCHANGED provVars
  BY <1>5, <1>7 DEF provVars
<1>8. ASSUME NEW a \in Attempts,
             \/ PlanFirst(a) \/ BeginProject(a) \/ InsertProject(a) \/ BindProject(a)
             \/ CompleteProject(a) \/ UndoProject(a)
             \/ BeginSecrets(a) \/ WriteSecrets(a) \/ CompleteSecrets(a) \/ UndoSecrets(a)
             \/ UndoImport(a) \/ EndAttempt(a) \/ AttemptCrash(a)
      PROVE  repository' = Somebody /\ \A c \in Attempts : setter'[c] \in ImportSteps
  <2>1. repository' = repository
    BY <1>8 DEF PlanFirst, BeginProject, InsertProject, BindProject, CompleteProject,
                UndoProject, BeginSecrets, WriteSecrets, CompleteSecrets, UndoSecrets,
                UndoImport, EndAttempt, AttemptCrash
  <2>2. \E pc \in ImportSteps : Goes(a, pc)
    BY <1>8 DEF PlanFirst, BeginProject, InsertProject, BindProject, CompleteProject,
                UndoProject, BeginSecrets, WriteSecrets, CompleteSecrets, UndoSecrets,
                UndoImport, EndAttempt, AttemptCrash, ImportSteps
  <2> QED
    BY <1>5, <1>6, <2>1, <2>2
<1>9. ASSUME NEW a \in Attempts,
             BeginRepository(a) \/ Provision(a) \/ CompleteRepository(a) \/ UndoRepository(a)
      PROVE  FALSE
  <2>1. setter[a] \in {"repository", "provision", "provisioned", "unrepository",
                       "unrepository, row kept"}
    BY <1>9 DEF BeginRepository, Provision, CompleteRepository, UndoRepository
  <2> QED
    BY <1>5, <2>1 DEF ImportSteps
<1>10. ASSUME NEW a \in Attempts, Interrupt(a) \/ Reconcile(a)
       PROVE  UNCHANGED <<repository, setter>>
  BY <1>10 DEF Interrupt, Reconcile
<1>11. ASSUME NEW h \in ProvCalls, NEW a \in Attempts, ReadForRetry(h, a) \/ ReadForCleanup(h, a)
       PROVE  UNCHANGED <<repository, setter>>
  BY <1>11 DEF ReadForRetry, ReadForCleanup
<1>12. ASSUME NEW h \in ProvCalls,
              \/ ClaimRetry(h) \/ ReleaseRetry(h) \/ ClaimCleanup(h) \/ CleanOutside(h)
              \/ CleanRow(h) \/ EndCleanup(h) \/ HelperCrash(h)
       PROVE  UNCHANGED <<repository, setter>>
  BY <1>12 DEF ClaimRetry, ReleaseRetry, ClaimCleanup, CleanOutside, CleanRow, EndCleanup,
               HelperCrash
<1>13. ASSUME NEW h \in ProvCalls, StartRetry(h)
       PROVE  repository' = Somebody /\ \A c \in Attempts : setter'[c] \in ImportSteps
  <2>1. repository' = repository /\ \E b \in Attempts : Goes(b, "check")
    BY <1>13 DEF StartRetry, Goes
  <2>2. "check" \in ImportSteps
    BY DEF ImportSteps
  <2> QED
    BY <1>5, <1>6, <2>1, <2>2
<1>14. CASE TakeName
  BY <1>2, <1>5, <1>14 DEF TakeName
<1> QED
  BY <1>5, <1>7, <1>8, <1>9, <1>10, <1>11, <1>12, <1>13, <1>14 DEF ProvNext

(* Importing an existing repository never deletes it, whatever fails, crashes, outlasts    *)
(* its lease, is retried or is cleaned up: DeletesOwnRepository, which a new project       *)
(* breaks, holds of every import.                                                          *)
THEOREM ImportsDeleteNothing == ProvSpec /\ ~Creates => DeletesOwnRepository
<1>1. ProvInit => ImportInv
  BY DEF ProvInit, ImportInv, Creates, ImportSteps
<1>2. ProvInv /\ ~Creates /\ ImportInv /\ [ProvNext]_provVars =>
        /\ (~Creates /\ ImportInv)'
        /\ [repository = Somebody => repository' = Somebody]_provVars
  BY ImportStep DEF ImportInv
<1>3. DeletesOwnRepository <=> [][repository = Somebody => repository' = Somebody]_provVars
  BY DEF DeletesOwnRepository
<1> QED
  BY <1>1, <1>2, <1>3, ProvisioningInvariant, PTL DEF ProvSpec
=============================================================================
