------------------------------ MODULE UpdateProofs ------------------------------
(***************************************************************************)
(* Proofs about the two programs that replace themselves: AgentSelfUpdate, *)
(* for every number of attempts and faults, and PlatformUpdate, for every  *)
(* number of updates, failing commands and crashes: what succeeded runs,   *)
(* what an update saved survives, and what a single trouble leaves.        *)
(***************************************************************************)
EXTENDS AgentSelfUpdate, PlatformUpdate, TLAPS

-----------------------------------------------------------------------------
(* AgentSelfUpdate *)

Slots == {"none", "old", "new"}
UpdaterPlaces == {"none", "inspect", "candidate", "stop", "park", "drop", "create", "verify",
                  "clean", "remove", "restore", "succeed", "fail"}

SelfUpdateTypeOK ==
    /\ named \in [agent : Slots, previous : Slots]
    /\ agentUp \in BOOLEAN /\ handed \in BOOLEAN /\ confirmed \in BOOLEAN /\ unparked \in BOOLEAN
    /\ updateJob \in [status : {"queued", "leased", "succeeded", "failed"},
                      attempt : 0 .. MaxUpdateAttempts, lapsed : BOOLEAN]
    /\ agentUpdater \in [UpdateAttempts -> UpdaterPlaces]
    /\ updateFaults \in 0 .. MaxUpdateFaults

\* An updater that has parked an Agent and has not ended.
Replacing(n) == agentUpdater[n] \in {"create", "verify", "clean", "remove", "restore"}

\* The parked Agent is removed after a heartbeat of the new one.
CleanConfirmed == \A n \in UpdateAttempts : agentUpdater[n] = "clean" => confirmed

InPlace ==
    /\ named.agent = "old" /\ named.previous = "none"
    /\ \A n \in UpdateAttempts : ~Replacing(n)

\* The previous name is the lock: whoever finds it taken does not park.
OldParked ==
    /\ named.previous = "old" /\ named.agent # "old"
    /\ \A m, n \in UpdateAttempts : Replacing(m) /\ Replacing(n) => m = n

SelfUpdateInv ==
    /\ SelfUpdateTypeOK
    /\ CleanConfirmed
    /\ confirmed \/ unparked \/ InPlace \/ OldParked

(* A fault is counted within its bound. *)
LEMMA FaultCounted ==
  ASSUME SelfUpdateInv, UpdateFault
  PROVE  updateFaults' \in 0 .. MaxUpdateFaults
  BY UpdateAssumption DEF UpdateFault, SelfUpdateInv, SelfUpdateTypeOK

(* A call of the updater counts its fault and moves only the updater.          *)
LEMMA UpdaterMoves ==
  ASSUME SelfUpdateInv, NEW n \in UpdateAttempts, NEW pc \in UpdaterPlaces,
         Done(n, pc) \/ Failed(n, pc)
  PROVE  /\ agentUpdater' \in [UpdateAttempts -> UpdaterPlaces] /\ agentUpdater'[n] = pc
         /\ \A m \in UpdateAttempts : m # n => agentUpdater'[m] = agentUpdater[m]
         /\ updateFaults' \in 0 .. MaxUpdateFaults
<1>1. updateFaults' \in 0 .. MaxUpdateFaults
  BY FaultCounted DEF Done, Failed, SelfUpdateInv, SelfUpdateTypeOK
<1>2. agentUpdater' = [agentUpdater EXCEPT ![n] = pc]
  BY DEF Done, Failed, UpdaterAt
<1> QED
  BY <1>1, <1>2 DEF SelfUpdateInv, SelfUpdateTypeOK

(* The names stay as they are while no updater has parked in this step.        *)
LEMMA NamesKept ==
  ASSUME SelfUpdateInv, SelfUpdateTypeOK', UNCHANGED named,
         confirmed => confirmed', unparked => unparked', CleanConfirmed',
         \A n \in UpdateAttempts : Replacing(n)' => Replacing(n)
  PROVE  SelfUpdateInv'
<1>1. InPlace => InPlace'
  BY DEF InPlace
<1>2. OldParked => OldParked'
  BY DEF OldParked
<1> QED
  BY <1>1, <1>2 DEF SelfUpdateInv

(* The Agent and its job. *)
LEMMA AgentSideKeeps ==
  ASSUME SelfUpdateInv, HandOver \/ AgentRestarts \/ UpdateLeaseLapses
  PROVE  SelfUpdateInv'
<1>1. UNCHANGED <<named, agentUp, confirmed, unparked>>
  BY DEF HandOver, AgentRestarts, UpdateLeaseLapses
<1>2. /\ agentUpdater' \in [UpdateAttempts -> UpdaterPlaces]
      /\ \A n \in UpdateAttempts :
             agentUpdater'[n] = agentUpdater[n] \/ agentUpdater'[n] = "inspect"
      /\ handed' \in BOOLEAN /\ updateFaults' \in 0 .. MaxUpdateFaults
      /\ updateJob' \in [status : {"queued", "leased", "succeeded", "failed"},
                         attempt : 0 .. MaxUpdateAttempts, lapsed : BOOLEAN]
  <2>1. CASE HandOver
    <3> DEFINE n == updateJob.attempt + 1
    <3>1. n \in 0 .. MaxUpdateAttempts
      BY <2>1, UpdateAssumption DEF HandOver, SelfUpdateInv, SelfUpdateTypeOK
    <3>2. /\ \/ UNCHANGED agentUpdater /\ UNCHANGED handed
             \/ agentUpdater' = [agentUpdater EXCEPT ![n] = "inspect"] /\ handed' = TRUE
          /\ UpdateFault \/ UNCHANGED updateFaults
          /\ \E status \in {"leased", "failed"} :
                updateJob' = [status |-> status, attempt |-> n, lapsed |-> FALSE]
      <4> HIDE DEF n
      <4>1. n = updateJob.attempt + 1
        BY DEF n
      <4> QED
        BY <2>1, <4>1 DEF HandOver
    <3> HIDE DEF n
    <3>3. updateFaults' \in 0 .. MaxUpdateFaults
      BY <3>2, FaultCounted DEF SelfUpdateInv, SelfUpdateTypeOK
    <3>4. /\ agentUpdater' \in [UpdateAttempts -> UpdaterPlaces] /\ handed' \in BOOLEAN
          /\ \A m \in UpdateAttempts :
                agentUpdater'[m] = agentUpdater[m] \/ agentUpdater'[m] = "inspect"
      BY <3>2 DEF SelfUpdateInv, SelfUpdateTypeOK, UpdaterPlaces
    <3> QED
      BY <3>1, <3>2, <3>3, <3>4
  <2>2. CASE AgentRestarts
    <3>1. /\ UpdateFault /\ handed' = FALSE /\ UNCHANGED <<updateJob, agentUpdater>>
      BY <2>2 DEF AgentRestarts
    <3> QED
      BY <3>1, FaultCounted DEF SelfUpdateInv, SelfUpdateTypeOK
  <2>3. CASE UpdateLeaseLapses
    <3>1. /\ UpdateFault /\ UNCHANGED <<handed, agentUpdater>>
          /\ updateJob' = [updateJob EXCEPT !.lapsed = TRUE]
      BY <2>3 DEF UpdateLeaseLapses
    <3>2. updateJob' \in [status : {"queued", "leased", "succeeded", "failed"},
                          attempt : 0 .. MaxUpdateAttempts, lapsed : BOOLEAN]
      BY <3>1 DEF SelfUpdateInv, SelfUpdateTypeOK
    <3> QED
      BY <3>1, <3>2, FaultCounted DEF SelfUpdateInv, SelfUpdateTypeOK
  <2> QED
    BY <2>1, <2>2, <2>3
<1>3. SelfUpdateTypeOK'
  BY <1>1, <1>2 DEF SelfUpdateInv, SelfUpdateTypeOK
<1>4. CleanConfirmed' /\ \A n \in UpdateAttempts : Replacing(n)' => Replacing(n)
  BY <1>1, <1>2 DEF SelfUpdateInv, CleanConfirmed, Replacing
<1> QED
  BY <1>1, <1>3, <1>4, NamesKept

(* The steps of an updater that leave the names alone: the preflight, the stop *)
(* of the Agent, the heartbeat of the new one, the report and a crash.         *)
LEMMA QuietStepKeeps ==
  ASSUME SelfUpdateInv, NEW n \in UpdateAttempts,
         \/ Preflight(n) \/ StopAgent(n) \/ VerifyReplacement(n)
         \/ ReportUpdate(n) \/ UpdaterCrash(n)
  PROVE  SelfUpdateInv'
<1>1. UNCHANGED <<named, unparked>>
  BY DEF Preflight, StopAgent, VerifyReplacement, ReportUpdate, UpdaterCrash
<1>2. PICK pc \in UpdaterPlaces :
         /\ UpdaterAt(n, pc) /\ (UNCHANGED updateFaults \/ UpdateFault)
         /\ pc \in {"none", "candidate", "stop", "park", "drop", "fail", "remove", "clean"}
         /\ pc = "remove" => agentUpdater[n] = "verify"
         /\ pc = "clean" => agentUpdater[n] = "verify" /\ confirmed'
  <2>1. CASE Preflight(n)
    BY <2>1 DEF Preflight, Done, Failed, UpdaterPlaces
  <2>2. CASE StopAgent(n)
    BY <2>2 DEF StopAgent, Done, Failed, UpdaterPlaces
  <2>3. CASE VerifyReplacement(n)
    BY <2>3 DEF VerifyReplacement, Done, Failed, UpdaterPlaces
  <2>4. CASE ReportUpdate(n) \/ UpdaterCrash(n)
    BY <2>4 DEF ReportUpdate, UpdaterCrash, Failed, UpdaterPlaces
  <2> QED
    BY <2>1, <2>2, <2>3, <2>4
<1>3. /\ agentUpdater' \in [UpdateAttempts -> UpdaterPlaces] /\ agentUpdater'[n] = pc
      /\ \A m \in UpdateAttempts : m # n => agentUpdater'[m] = agentUpdater[m]
      /\ updateFaults' \in 0 .. MaxUpdateFaults
  BY <1>2, UpdaterMoves DEF Done, Failed
<1>4. /\ agentUp' \in BOOLEAN /\ handed' \in BOOLEAN /\ confirmed' \in BOOLEAN
      /\ confirmed => confirmed'
      /\ updateJob' \in [status : {"queued", "leased", "succeeded", "failed"},
                         attempt : 0 .. MaxUpdateAttempts, lapsed : BOOLEAN]
  <2>1. CASE Preflight(n) \/ UpdaterCrash(n)
    BY <2>1 DEF Preflight, UpdaterCrash, SelfUpdateInv, SelfUpdateTypeOK
  <2>2. CASE StopAgent(n)
    BY <2>2 DEF StopAgent, SelfUpdateInv, SelfUpdateTypeOK
  <2>3. CASE VerifyReplacement(n)
    BY <2>3 DEF VerifyReplacement, SelfUpdateInv, SelfUpdateTypeOK
  <2>4. CASE ReportUpdate(n)
    <3>1. PICK status \in {"succeeded", "failed"} :
             updateJob' = [updateJob EXCEPT !.status = status] \/ updateJob' = updateJob
      BY <2>4 DEF ReportUpdate
    <3> QED
      BY <2>4, <3>1 DEF ReportUpdate, SelfUpdateInv, SelfUpdateTypeOK
  <2> QED
    BY <2>1, <2>2, <2>3, <2>4
<1>5. SelfUpdateTypeOK'
  BY <1>1, <1>3, <1>4 DEF SelfUpdateInv, SelfUpdateTypeOK
<1>6. \A m \in UpdateAttempts : Replacing(m)' => Replacing(m)
  BY <1>2, <1>3 DEF Replacing
<1>7. CleanConfirmed'
  BY <1>2, <1>3, <1>4 DEF SelfUpdateInv, CleanConfirmed
<1> QED
  BY <1>1, <1>4, <1>5, <1>6, <1>7, NamesKept

(* The steps that change what the names hold.                                  *)
LEMMA NamingStepKeeps ==
  ASSUME SelfUpdateInv, NEW n \in UpdateAttempts,
         \/ ParkAgent(n) \/ StartReplacement(n) \/ RemovePrevious(n)
         \/ RollBack(n) \/ RestoreAgent(n)
  PROVE  SelfUpdateInv'
<1>1. UNCHANGED <<updateJob, confirmed>>
  BY DEF ParkAgent, StartReplacement, RemovePrevious, RollBack, RestoreAgent
<1>2. PICK pc \in UpdaterPlaces :
         /\ Done(n, pc) \/ Failed(n, pc)
         /\ pc \in {"create", "drop", "verify", "remove", "succeed", "fail", "restore"}
         /\ pc = "create" => agentUpdater[n] = "park"
         /\ pc \in {"verify", "remove", "restore"} => Replacing(n)
  <2>1. CASE ParkAgent(n)
    BY <2>1 DEF ParkAgent, UpdaterPlaces
  <2>2. CASE StartReplacement(n)
    BY <2>2 DEF StartReplacement, Replacing, UpdaterPlaces
  <2>3. CASE RemovePrevious(n)
    BY <2>3 DEF RemovePrevious, Replacing, UpdaterPlaces
  <2>4. CASE RollBack(n)
    BY <2>4 DEF RollBack, Replacing, UpdaterPlaces
  <2>5. CASE RestoreAgent(n)
    BY <2>5 DEF RestoreAgent, UpdaterPlaces
  <2> QED
    BY <2>1, <2>2, <2>3, <2>4, <2>5
<1>3. /\ agentUpdater' \in [UpdateAttempts -> UpdaterPlaces] /\ agentUpdater'[n] = pc
      /\ \A m \in UpdateAttempts : m # n => agentUpdater'[m] = agentUpdater[m]
      /\ updateFaults' \in 0 .. MaxUpdateFaults
  BY <1>2, UpdaterMoves
<1>4. named' \in [agent : Slots, previous : Slots]
  <2>1. named \in [agent : Slots, previous : Slots]
    BY DEF SelfUpdateInv, SelfUpdateTypeOK
  <2>2. CASE ParkAgent(n)
    BY <2>1, <2>2 DEF ParkAgent, Slots
  <2>3. CASE StartReplacement(n)
    BY <2>1, <2>3 DEF StartReplacement, Slots
  <2>4. CASE RemovePrevious(n)
    BY <2>1, <2>4 DEF RemovePrevious, Slots
  <2>5. CASE RollBack(n)
    BY <2>1, <2>5 DEF RollBack, Slots
  <2>6. CASE RestoreAgent(n)
    BY <2>1, <2>6 DEF RestoreAgent, Slots
  <2> QED
    BY <2>2, <2>3, <2>4, <2>5, <2>6
<1>5. agentUp' \in BOOLEAN /\ handed' \in BOOLEAN /\ unparked' \in BOOLEAN /\ (unparked => unparked')
  BY DEF ParkAgent, StartReplacement, RemovePrevious, RollBack, RestoreAgent,
         SelfUpdateInv, SelfUpdateTypeOK
<1>6. SelfUpdateTypeOK'
  BY <1>1, <1>3, <1>4, <1>5 DEF SelfUpdateInv, SelfUpdateTypeOK
<1>7. CleanConfirmed'
  BY <1>1, <1>2, <1>3 DEF SelfUpdateInv, CleanConfirmed
<1>8. ASSUME ~confirmed, ~unparked'
      PROVE  (InPlace \/ OldParked)'
  <2>1. InPlace \/ OldParked
    BY <1>5, <1>8 DEF SelfUpdateInv
  <2>2. agentUpdater[n] # "clean"
    BY <1>8 DEF SelfUpdateInv, CleanConfirmed
  <2>3. ASSUME UNCHANGED named, Replacing(n)' => Replacing(n)
        PROVE  (InPlace \/ OldParked)'
    <3>1. \A m \in UpdateAttempts : Replacing(m)' => Replacing(m)
      BY <1>3, <2>3 DEF Replacing
    <3>2. InPlace => InPlace'
      BY <2>3, <3>1 DEF InPlace
    <3>3. OldParked => OldParked'
      BY <2>3, <3>1 DEF OldParked
    <3> QED
      BY <2>1, <3>2, <3>3
  <2>4. \A m \in UpdateAttempts : m # n => (Replacing(m)' <=> Replacing(m))
    BY <1>3 DEF Replacing
  <2>5. CASE ParkAgent(n)
    <3>1. agentUpdater[n] = "park" /\ ~Replacing(n)
      BY <2>5 DEF ParkAgent, Replacing
    <3>2. CASE UNCHANGED named /\ pc = "drop"
      <4>1. ~Replacing(n)'
        BY <1>3, <3>2 DEF Replacing
      <4> QED
        BY <2>3, <3>2, <4>1
    <3>3. CASE /\ named.agent # "none" /\ named.previous = "none"
               /\ named' = [agent |-> "none", previous |-> named.agent]
      <4>1. InPlace
        BY <2>1, <3>3 DEF OldParked
      <4>2. named'.previous = "old" /\ named'.agent = "none"
        BY <3>3, <4>1 DEF InPlace
      <4>3. \A m \in UpdateAttempts : Replacing(m)' => m = n
        BY <2>4, <4>1 DEF InPlace
      <4> QED
        BY <4>2, <4>3 DEF OldParked
    <3> QED
      <4>1. \/ UNCHANGED named /\ UpdaterAt(n, "drop")
            \/ /\ named.agent # "none" /\ named.previous = "none"
               /\ named' = [agent |-> "none", previous |-> named.agent]
        BY <2>5 DEF ParkAgent, Done, Failed
      <4>2. UpdaterAt(n, "drop") => pc = "drop"
        BY <1>3 DEF UpdaterAt, SelfUpdateInv, SelfUpdateTypeOK
      <4> QED
        BY <3>2, <3>3, <4>1, <4>2
  <2>6. CASE Replacing(n) /\ ~RestoreAgent(n)
    <3>1. OldParked
      BY <2>1, <2>6 DEF InPlace
    <3>2. named' = named \/ \E slot \in {"none", "new"} : named' = [named EXCEPT !.agent = slot]
      BY <2>2, <2>6 DEF ParkAgent, StartReplacement, RemovePrevious, RollBack, Replacing
    <3>3. named'.previous = "old" /\ named'.agent # "old"
      BY <3>1, <3>2 DEF OldParked, SelfUpdateInv, SelfUpdateTypeOK
    <3>4. \A m \in UpdateAttempts : Replacing(m)' => Replacing(m)
      BY <2>4, <2>6
    <3> QED
      BY <3>1, <3>3, <3>4 DEF OldParked
  <2>7. CASE RestoreAgent(n)
    <3>1. Replacing(n) /\ OldParked
      BY <2>1, <2>7 DEF RestoreAgent, Replacing, InPlace
    <3>2. \A m \in UpdateAttempts : ~Replacing(m)'
      <4>1. UpdaterAt(n, "fail")
        BY <2>7 DEF RestoreAgent, Done, Failed
      <4>2. agentUpdater'[n] = "fail"
        BY <4>1 DEF UpdaterAt, SelfUpdateInv, SelfUpdateTypeOK
      <4> QED
        BY <2>4, <3>1, <4>2 DEF OldParked, Replacing
    <3>3. UNCHANGED named \/ named' = [agent |-> named.previous, previous |-> "none"]
      BY <2>7 DEF RestoreAgent
    <3>4. CASE UNCHANGED named
      BY <3>1, <3>2, <3>4 DEF OldParked
    <3>5. CASE named' = [agent |-> named.previous, previous |-> "none"]
      BY <3>1, <3>2, <3>5 DEF OldParked, InPlace
    <3> QED
      BY <3>3, <3>4, <3>5
  <2>8. ~(agentUpdater[n] = "drop" /\ RollBack(n))
    BY <1>8 DEF RollBack
  <2> QED
    BY <2>2, <2>5, <2>6, <2>7, <2>8 DEF StartReplacement, RemovePrevious, RollBack, Replacing
<1> QED
  BY <1>1, <1>6, <1>7, <1>8 DEF SelfUpdateInv

(* Every step of a self-update keeps the invariant. *)
LEMMA SelfUpdateStepKeeps ==
  ASSUME SelfUpdateInv, [UpdateNext]_updateVars
  PROVE  SelfUpdateInv'
<1>1. CASE UNCHANGED updateVars
  BY <1>1 DEF updateVars, SelfUpdateInv, SelfUpdateTypeOK, CleanConfirmed, InPlace, OldParked,
              Replacing
<1>2. ASSUME NEW n \in UpdateAttempts,
             \/ Preflight(n) \/ StopAgent(n) \/ ParkAgent(n) \/ StartReplacement(n)
             \/ VerifyReplacement(n) \/ RemovePrevious(n) \/ RollBack(n) \/ RestoreAgent(n)
             \/ ReportUpdate(n) \/ UpdaterCrash(n)
      PROVE  SelfUpdateInv'
  BY <1>2, QuietStepKeeps, NamingStepKeeps, Zenon
<1> QED
  BY <1>1, <1>2, AgentSideKeeps, Zenon DEF UpdateNext

(* The inductive invariant of AgentSelfUpdate. *)
THEOREM SelfUpdateInvariant == UpdateSpec => []SelfUpdateInv
<1>1. ASSUME UpdateInit  PROVE SelfUpdateInv
  <2>1. \A n \in UpdateAttempts : agentUpdater[n] = "none"
    BY <1>1 DEF UpdateInit
  <2>2. named.agent = "old" /\ named.previous = "none"
    BY <1>1 DEF UpdateInit
  <2>3. updateJob \in [status : {"queued", "leased", "succeeded", "failed"},
                      attempt : 0 .. MaxUpdateAttempts, lapsed : BOOLEAN]
    BY <1>1, UpdateAssumption DEF UpdateInit
  <2>4. SelfUpdateTypeOK
    <3>1. named \in [agent : Slots, previous : Slots]
      BY <1>1 DEF UpdateInit, Slots
    <3>2. agentUpdater \in [UpdateAttempts -> UpdaterPlaces]
      BY <1>1 DEF UpdateInit, UpdaterPlaces
    <3>3. updateFaults \in 0 .. MaxUpdateFaults
      BY <1>1, UpdateAssumption DEF UpdateInit
    <3>4. agentUp = TRUE /\ handed = FALSE /\ confirmed = FALSE /\ unparked = FALSE
      BY <1>1 DEF UpdateInit
    <3> QED
      BY <2>3, <3>1, <3>2, <3>3, <3>4 DEF SelfUpdateTypeOK
  <2> QED
    BY <2>1, <2>2, <2>4 DEF SelfUpdateInv, CleanConfirmed, InPlace, Replacing
<1>2. SelfUpdateInv /\ [UpdateNext]_updateVars => SelfUpdateInv'
  BY SelfUpdateStepKeeps
<1> QED
  BY <1>1, <1>2, PTL DEF UpdateSpec

(* The old Agent is gone only after the new one has sent its heartbeat, or     *)
(* after an updater gave up before it had parked it.                           *)
THEOREM OldAgentKeptInDoubt == UpdateSpec => []OldAgentOutlivesDoubt
<1>1. SelfUpdateInv => OldAgentOutlivesDoubt
  BY DEF SelfUpdateInv, OldAgentOutlivesDoubt, OldAgentKept, InPlace, OldParked
<1> QED
  BY <1>1, SelfUpdateInvariant, PTL

-----------------------------------------------------------------------------
(* PlatformUpdate: types *)

Helper == [at: UpdaterSteps, service: Services, had: BOOLEAN, prepared: BOOLEAN,
           read: SupervisorStates, known: BOOLEAN]
PlatformRecoverySteps == {"off", "load", "look", "restore", "up", "record", "supervisor", "tidy",
                  "failed"}
Recovery == [at: PlatformRecoverySteps, id: 0 .. MaxPlatformUpdates, read: SupervisorStates,
             had: BOOLEAN]
UpdateStatuses == {"none", "accepted", "running", "succeeded", "failed", "rolled-back"}
Operation == [id: 0 .. MaxPlatformUpdates, stage: Stages, status: UpdateStatuses]

Recovering == recovery.at # "off"
Requesting == supervisor \in {"checking", "launching"}

PlatformTypes ==
    /\ override \in Releases \cup {NoFile}
    /\ previous \in [Updates -> Releases \cup {NoFile}]
    /\ lock \in BOOLEAN /\ overlap \in BOOLEAN
    /\ plans \subseteq Updates
    /\ state \in SupervisorStates /\ held \in SupervisorStates
    /\ runs \in [Services -> Releases]
    /\ supervisor \in {"down", "serving", "checking", "launching"}
    /\ updater \in [Updates -> Helper]
    /\ recovery \in Recovery
    /\ commandFaults \in 0 .. MaxCommandFaults /\ hostCrashes \in 0 .. MaxHostCrashes
    /\ Requesting => held.op.id \in Updates
    /\ Recovering => recovery.id \in Updates
    /\ Unfinished(state) => state.op.id \in Updates

(* Updates and releases are numbers. *)
LEMMA UpdateNumbers ==
  ASSUME NEW n \in Updates
  PROVE  /\ n \in Int /\ n \in 0 .. MaxPlatformUpdates /\ n + 1 \in Releases /\ n + 1 > 0
         /\ NoFile \in Int /\ NoFile < 0 /\ NoFile \notin Releases
         /\ \A r \in Releases : r \in Int /\ r >= 0
  BY PlatformUpdatesAssumption DEF Updates, Releases, NoFile

(* The states by the names of their parts. *)
LEMMA StateRecords == SupervisorStates = [current: Releases, images: BOOLEAN, op: Operation]
  BY DEF SupervisorStates, Operation, UpdateStatuses

(* The state with an operation of its own. *)
LEMMA StateWithOperation ==
  ASSUME NEW st \in SupervisorStates, NEW n \in 0 .. MaxPlatformUpdates,
         NEW status \in UpdateStatuses, NEW stage \in Stages, NEW new,
         new = [st EXCEPT !.op = [id |-> n, status |-> status, stage |-> stage]]
  PROVE  /\ new \in SupervisorStates
         /\ new.current = st.current /\ new.images = st.images
         /\ new.op.id = n /\ new.op.status = status /\ new.op.stage = stage
<1>1. st \in [current: Releases, images: BOOLEAN, op: Operation]
  BY StateRecords
<1>2. PICK op : op = [id |-> n, status |-> status, stage |-> stage]
  OBVIOUS
<1>3. op \in Operation /\ op.id = n /\ op.status = status /\ op.stage = stage
  BY <1>2 DEF Operation
<1>4. new = [st EXCEPT !.op = op]
  BY <1>2
<1>5. /\ new \in [current: Releases, images: BOOLEAN, op: Operation]
      /\ new.current = st.current /\ new.images = st.images /\ new.op = op
  BY <1>1, <1>3, <1>4
<1> QED
  BY <1>3, <1>5, StateRecords

(* One helper moves. *)
LEMMA HelperMoves ==
  ASSUME updater \in [Updates -> Helper], NEW n \in Updates, NEW new \in Helper,
         updater' = [updater EXCEPT ![n] = new]
  PROVE  /\ updater' \in [Updates -> Helper] /\ updater'[n] = new
         /\ \A m \in Updates : m # n => updater'[m] = updater[m]
  OBVIOUS

(* One helper takes its next step and changes nothing else of its own. *)
LEMMA HelperGoes ==
  ASSUME updater \in [Updates -> Helper], NEW n \in Updates, NEW step \in UpdaterSteps,
         GoesTo(n, step)
  PROVE  /\ updater' \in [Updates -> Helper]
         /\ updater'[n].at = step /\ updater'[n].service = updater[n].service
         /\ updater'[n].had = updater[n].had /\ updater'[n].known = updater[n].known
         /\ updater'[n].prepared = updater[n].prepared /\ updater'[n].read = updater[n].read
         /\ \A m \in Updates : m # n => updater'[m] = updater[m]
<1>1. PICK new : new = [updater[n] EXCEPT !.at = step]
  OBVIOUS
<1>2. updater[n] \in Helper
  OBVIOUS
<1>3. /\ new \in Helper /\ new.at = step /\ new.service = updater[n].service
      /\ new.had = updater[n].had /\ new.known = updater[n].known
      /\ new.prepared = updater[n].prepared /\ new.read = updater[n].read
  BY <1>1, <1>2 DEF Helper
<1>4. updater' = [updater EXCEPT ![n] = new]
  BY <1>1 DEF GoesTo
<1> QED
  BY <1>3, <1>4, HelperMoves

(* The recovery takes its next step and keeps what it has read. *)
LEMMA RecoveryMoves ==
  ASSUME recovery \in Recovery, NEW step \in PlatformRecoverySteps, NEW had \in BOOLEAN,
         \/ RecoveryGoes(step) /\ had = recovery.had
         \/ recovery' = [recovery EXCEPT !.at = step, !.had = had]
  PROVE  /\ recovery' \in Recovery /\ recovery'.at = step /\ recovery'.had = had
         /\ recovery'.id = recovery.id /\ recovery'.read = recovery.read
  BY DEF RecoveryGoes, Recovery

(* A helper that has not started, and a recovery that has not. *)
LEMMA NothingStarted ==
  /\ Fresh \in SupervisorStates /\ Fresh.op.status = "none" /\ Fresh.op.id = 0
  /\ Fresh.op.stage = "ended" /\ Fresh.current = 0 /\ ~Fresh.images
  /\ NoUpdater \in Helper /\ NoUpdater.at = "off" /\ ~NoUpdater.known /\ ~NoUpdater.prepared
  /\ NoRecovery \in Recovery /\ NoRecovery.at = "off"
<1>1. NoUpdate \in Operation /\ NoUpdate.id = 0 /\ NoUpdate.status = "none"
      /\ NoUpdate.stage = "ended"
  BY PlatformUpdatesAssumption DEF NoUpdate, Operation, UpdateStatuses, Stages
<1>2. 0 \in Releases
  BY PlatformUpdatesAssumption DEF Releases
<1>3. /\ Fresh \in [current: Releases, images: BOOLEAN, op: Operation]
      /\ Fresh.op = NoUpdate /\ Fresh.current = 0 /\ ~Fresh.images
  BY <1>1, <1>2 DEF Fresh
<1>4. Fresh \in SupervisorStates
  BY <1>3, StateRecords
<1>5. /\ NoUpdater \in Helper /\ NoUpdater.at = "off" /\ ~NoUpdater.known
      /\ ~NoUpdater.prepared
  BY <1>4 DEF NoUpdater, Helper, UpdaterSteps, Services
<1>6. NoRecovery \in Recovery /\ NoRecovery.at = "off"
  BY <1>4, PlatformUpdatesAssumption DEF NoRecovery, Recovery, PlatformRecoverySteps
<1> QED
  BY <1>1, <1>3, <1>4, <1>5, <1>6

(* A fault or a crash is counted within its bound. *)
LEMMA TroubleCounted ==
  ASSUME PlatformTypes
  PROVE  /\ CommandFails => commandFaults' \in 0 .. MaxCommandFaults
         /\ HostCrashes => hostCrashes' \in 0 .. MaxHostCrashes
  BY PlatformUpdatesAssumption DEF PlatformTypes, CommandFails, HostCrashes

(* Compose switches the services it is given to one release. *)
LEMMA ComposeUp ==
  ASSUME PlatformTypes, NEW services \in SUBSET Services, NEW release \in Releases,
         Up(services, release)
  PROVE  /\ runs' \in [Services -> Releases]
         /\ \A s \in Services : runs'[s] = IF s \in services THEN release ELSE runs[s]
         /\ supervisor' \in {supervisor, "down"}
         /\ supervisor' \in {"down", "serving", "checking", "launching"}
         /\ "supervisor" \notin services => supervisor' = supervisor
  BY DEF Up, PlatformTypes, Services

(* A command that fails has switched some of them, or none. *)
LEMMA ComposeUpPartly ==
  ASSUME PlatformTypes, NEW services \in SUBSET Services, NEW release \in Releases,
         UpPartly(services, release)
  PROVE  /\ runs' \in [Services -> Releases]
         /\ supervisor' \in {supervisor, "down"}
         /\ supervisor' \in {"down", "serving", "checking", "launching"}
         /\ "supervisor" \notin services => supervisor' = supervisor
<1>1. PICK replaced \in SUBSET services : Up(replaced, release)
  BY DEF UpPartly
<1>2. replaced \in SUBSET Services
  OBVIOUS
<1> QED
  BY <1>1, <1>2, ComposeUp

(* What Compose runs is a release. *)
LEMMA ComposedRelease ==
  ASSUME PlatformTypes, NEW withOverride \in BOOLEAN
  PROVE  /\ Composed(withOverride) \in Releases
         /\ withOverride /\ override # NoFile => Composed(withOverride) = override
  BY PlatformUpdatesAssumption DEF Composed, PlatformTypes, Releases

-----------------------------------------------------------------------------
(* PlatformUpdate: the inductive invariant, until an update overlaps another *)

ChangedStages == {"switching", "api", "web", "supervisor"}
MidSteps == {"prepare", "pull", "write", "stage", "up", "wait", "finish"}

\* The helper works on the update that the state names.
InCourse(n) ==
    \/ updater[n].at \in MidSteps
    \/ updater[n].at = "read" /\ n \in plans
    \/ updater[n].at \in {"restore", "record"} /\ updater[n].known

\* Nothing will remove the lock.
Blocked ==
    /\ lock /\ ~Recovering /\ (supervisor = "down" => ~Unfinished(state))
    /\ \A m \in Updates : ~AtWork(m)

\* Updates are numbered as they are requested; one is requested when none is under way.
RequestsSound ==
    /\ state.op.id <= held.op.id
    /\ \A n \in Updates : Alive(n) \/ previous[n] # NoFile => n <= held.op.id
    /\ Recovering => recovery.id <= held.op.id /\ ~Alive(recovery.id)
    /\ Requesting => /\ held.op.status = "accepted" /\ held.op.stage = "accepted"
                     /\ ~Alive(held.op.id) /\ previous[held.op.id] = NoFile
                     /\ Recovering => recovery.id # held.op.id
    /\ supervisor = "checking" => ~Unfinished(state)
    /\ supervisor = "launching" => (state.op.id = held.op.id /\ Unfinished(state)) \/ Blocked

\* One helper at a time is at work; who waits for the lock with a plan will work or be refused.
HelpersSound ==
    /\ \A m, n \in Updates : AtWork(m) /\ AtWork(n) => m = n
    /\ \A n \in Updates : updater[n].prepared => updater[n].known
    /\ \A n \in Updates : updater[n].at \in {"off", "lock", "read"} => ~updater[n].known
    /\ \A n \in Updates : updater[n].at = "lock" /\ n \in plans =>
           \/ state.op.id = n /\ Unfinished(state) /\ ~Requesting
           \/ Blocked
    /\ \A n \in Updates : updater[n].at = "downgrade" =>
           /\ ~Recovering /\ state.op.status # "succeeded"
           /\ supervisor = "down" => ~Unfinished(state)

\* A helper in its course has the state, the files and the services to itself.
CourseSound(n) ==
    /\ lock /\ ~Recovering /\ ~Requesting
    /\ state.op.id = n /\ Unfinished(state)
    /\ updater[n].at # "read" =>
           /\ updater[n].known /\ updater[n].read.op.id = n
           /\ updater[n].read.images = state.images
           /\ state.images => updater[n].had /\ (updater[n].prepared => previous[n] > 0)
    /\ updater[n].at \in {"stage", "up", "wait", "finish"} => override = n + 1
    /\ updater[n].at \in {"stage", "up", "wait"} =>
           /\ updater[n].service # "api" => runs["api"] = n + 1
           /\ updater[n].service = "supervisor" => runs["web"] = n + 1
    /\ updater[n].at = "wait" => runs[updater[n].service] = n + 1
    /\ updater[n].at = "finish" => \A s \in Services : runs[s] = n + 1

CoursesSound == \A n \in Updates : InCourse(n) => CourseSound(n)

RecoverySound ==
    /\ recovery.at \in {"look", "restore", "up", "record"} =>
           state = recovery.read /\ Unfinished(state)
    /\ recovery.at \in {"look", "restore", "up", "record", "supervisor", "failed"} =>
           /\ recovery.read.op.id = recovery.id
           /\ recovery.read.images => override > 0
           /\ Changed => lock /\ \A m \in Updates : ~AtWork(m)
    /\ recovery.at \in {"restore", "up", "supervisor", "failed"} => Changed
    /\ recovery.at \notin {"off", "tidy", "failed"} => supervisor # "down"
    /\ recovery.at \in {"supervisor", "tidy"} => state.op.stage \notin ChangedStages
    /\ recovery.at = "supervisor" => state.op.status # "succeeded"

StateSound ==
    /\ state.op.stage \in ChangedStages =>
           lock /\ \A m \in Updates : AtWork(m) => InCourse(m)
    /\ state.images => override > 0
    /\ Requesting /\ held.images => override > 0
    /\ Unfinished(state) /\ state.images /\ previous[state.op.id] # NoFile =>
           previous[state.op.id] > 0
    /\ state.op.status = "succeeded" =>
           override = state.current /\ \A s \in Services : runs[s] = state.current

PlatformSound == RequestsSound /\ HelpersSound /\ CoursesSound /\ RecoverySound /\ StateSound

PlatformInv == PlatformTypes /\ (~overlap => PlatformSound)

(* While a helper is in its course nothing else is going on. *)
LEMMA CourseAlone ==
  ASSUME PlatformTypes, PlatformSound, NEW n \in Updates, InCourse(n)
  PROVE  /\ AtWork(n) /\ Alive(n) /\ CourseSound(n) /\ ~Blocked
         /\ \A m \in Updates : m # n => ~AtWork(m)
         /\ \A m \in Updates : ~(updater[m].at = "lock" /\ m \in plans)
<1>1. AtWork(n) /\ Alive(n)
  BY DEF InCourse, MidSteps, AtWork, Alive
<1>2. CourseSound(n) /\ ~Blocked
  BY <1>1 DEF PlatformSound, CoursesSound, Blocked
<1>3. \A m \in Updates : m # n => ~AtWork(m)
  BY <1>1 DEF PlatformSound, HelpersSound
<1>4. \A m \in Updates : ~(updater[m].at = "lock" /\ m \in plans)
  BY <1>1, <1>2 DEF PlatformSound, HelpersSound, CourseSound, AtWork
<1> QED
  BY <1>1, <1>2, <1>3, <1>4

(* A step of a helper that stays in its course. *)
LEMMA CourseStep ==
  ASSUME PlatformTypes, PlatformSound, NEW n \in Updates, InCourse(n),
         \A m \in Updates : m # n => updater'[m] = updater[m],
         InCourse(n)', updater'[n].at # "read", CourseSound(n)',
         updater'[n].prepared => updater'[n].known,
         lock' = lock, plans' = plans, recovery' = recovery, held' = held,
         supervisor' \in {supervisor, "down"},
         state'.images = state.images, state.images => override' > 0,
         \A m \in Updates : m # n => previous'[m] = previous[m],
         previous'[n] = previous[n] \/ (state.images => previous'[n] > 0)
  PROVE  PlatformSound'
<1> USE DEF PlatformSound
<1>1. /\ AtWork(n) /\ Alive(n) /\ CourseSound(n) /\ ~Blocked
      /\ \A m \in Updates : m # n => ~AtWork(m)
      /\ \A m \in Updates : ~(updater[m].at = "lock" /\ m \in plans)
  BY CourseAlone
<1>2. /\ AtWork(n)' /\ updater'[n].at \notin {"off", "lock", "read", "downgrade"}
      /\ updater'[n].at # "read"
      /\ \A m \in Updates : m # n => ~AtWork(m)' /\ ~InCourse(m)'
  BY <1>1 DEF InCourse, MidSteps, AtWork
<1>3. /\ lock' /\ ~Recovering' /\ ~Recovering /\ ~Requesting' /\ ~Requesting
      /\ state'.op.id = n /\ Unfinished(state)'
      /\ state.op.id = n /\ Unfinished(state)
  BY <1>1 DEF CourseSound
<1>4. RequestsSound'
  BY <1>1, <1>2, <1>3 DEF RequestsSound, Alive, AtWork, Recovering, Requesting
<1>5. HelpersSound'
  BY <1>1, <1>2, <1>3 DEF HelpersSound, Alive, AtWork, Recovering, Requesting
<1>6. CoursesSound'
  BY <1>2 DEF CoursesSound
<1>7. RecoverySound'
  BY <1>3 DEF RecoverySound, Recovering
<1>8. StateSound'
  BY <1>1, <1>2, <1>3 DEF StateSound, Unfinished
<1> QED
  BY <1>4, <1>5, <1>6, <1>7, <1>8

(* The Supervisor keeps the types. *)
LEMMA SupervisorTypes ==
  ASSUME PlatformTypes
  PROVE  /\ \A n \in Updates : LoadRequest(n) => PlatformTypes'
         /\ RefuseRequest \/ AcceptUpdate \/ LaunchHelper \/ SupervisorStarts => PlatformTypes'
<1> USE DEF PlatformTypes, Requesting, Recovering, Unfinished, files
<1>1. ASSUME NEW n \in Updates, LoadRequest(n) PROVE PlatformTypes'
  <2>1. held' \in SupervisorStates /\ held'.op.id = n
    BY <1>1, UpdateNumbers, StateWithOperation DEF LoadRequest, UpdateStatuses, Stages
  <2> QED
    BY <1>1, <2>1 DEF LoadRequest
<1>2. ASSUME RefuseRequest PROVE PlatformTypes'
  BY <1>2 DEF RefuseRequest
<1>3. ASSUME AcceptUpdate PROVE PlatformTypes'
  BY <1>3 DEF AcceptUpdate
<1>4. ASSUME LaunchHelper PROVE PlatformTypes'
  <2>1. held.op.id \in Updates
    BY <1>4 DEF LaunchHelper
  <2>2. GoesTo(held.op.id, "lock") => updater' \in [Updates -> Helper]
    BY <2>1, HelperGoes DEF UpdaterSteps
  <2>3. updater' \in [Updates -> Helper]
    BY <1>4, <2>2 DEF LaunchHelper
  <2>4. commandFaults' \in 0 .. MaxCommandFaults
    BY <1>4, TroubleCounted DEF LaunchHelper
  <2>5. state' \in SupervisorStates /\ (Unfinished(state)' => state'.op.id \in Updates)
    <3>1. CASE UNCHANGED state
      BY <3>1
    <3>2. CASE state' = [held EXCEPT !.op.status = "failed", !.op.stage = "ended"]
      <4>1. state' \in SupervisorStates /\ state'.op.status = "failed"
        BY <3>2 DEF SupervisorStates, Stages
      <4> QED
        BY <4>1
    <3> QED
      BY <1>4, <3>1, <3>2 DEF LaunchHelper
  <2> QED
    BY <1>4, <2>3, <2>4, <2>5 DEF LaunchHelper
<1>5. ASSUME SupervisorStarts PROVE PlatformTypes'
  <2>1. ASSUME Unfinished(state), NEW new,
               new = [NoRecovery EXCEPT !.at = "load", !.id = state.op.id]
        PROVE  new \in Recovery /\ new.id = state.op.id
    BY <2>1, NothingStarted, UpdateNumbers DEF Recovery, PlatformRecoverySteps
  <2>2. recovery' \in Recovery /\ (Recovering' => recovery'.id \in Updates)
    BY <1>5, <2>1 DEF SupervisorStarts
  <2> QED
    BY <1>5, <2>2 DEF SupervisorStarts
<1> QED
  BY <1>1, <1>2, <1>3, <1>4, <1>5

(* The update helper keeps the types. *)
LEMMA UpdaterTypes ==
  ASSUME PlatformTypes, NEW n \in Updates,
         \/ TakeLock(n) \/ ReadPlan(n) \/ Prepare(n) \/ Pull(n) \/ WriteOverride(n)
         \/ MarkStage(n) \/ SwitchService(n) \/ AwaitService(n) \/ FinishUpdate(n)
         \/ RestoreOverride(n) \/ RecordRollback(n) \/ Downgrade(n) \/ Tidy(n)
         \/ UpdaterDies(n)
  PROVE  PlatformTypes'
<1> USE DEF PlatformTypes, Requesting, Recovering, Unfinished, files, At
<1>1. /\ n \in 0 .. MaxPlatformUpdates /\ n + 1 \in Releases
      /\ updater[n] \in Helper /\ updater[n].read \in SupervisorStates
      /\ updater[n].service \in Services
      /\ updater[n].had \in BOOLEAN /\ updater[n].prepared \in BOOLEAN
      /\ updater[n].known \in BOOLEAN
  BY UpdateNumbers DEF Helper
<1>2. CommandFails => commandFaults' \in 0 .. MaxCommandFaults
  BY TroubleCounted
<1>3. \A step \in UpdaterSteps : GoesTo(n, step) => updater' \in [Updates -> Helper]
  BY HelperGoes
<1>4. /\ "off" \in UpdaterSteps /\ "read" \in UpdaterSteps /\ "restore" \in UpdaterSteps
      /\ "write" \in UpdaterSteps /\ "up" \in UpdaterSteps /\ "wait" \in UpdaterSteps
      /\ "tidy" \in UpdaterSteps /\ "finish" \in UpdaterSteps
      /\ "record" \in UpdaterSteps /\ "downgrade" \in UpdaterSteps
  BY DEF UpdaterSteps
<1>6. \A stage \in Stages : SaveStage(n, stage) =>
          state' \in SupervisorStates /\ state'.op.id = n
  <2> SUFFICES ASSUME NEW stage \in Stages, SaveStage(n, stage)
               PROVE  state' \in SupervisorStates /\ state'.op.id = n
    OBVIOUS
  <2> QED
    BY <1>1, StateWithOperation DEF SaveStage, UpdateStatuses
<1>7. "switching" \in Stages /\ "early" \in Stages /\ "ended" \in Stages
      /\ updater[n].service \in Stages
  BY <1>1 DEF Stages, Services
<1>8. CASE TakeLock(n)
  BY <1>3, <1>4, <1>8 DEF TakeLock
<1>9. CASE ReadPlan(n)
  <2>1. CASE n \in plans /\ state.op.id = n
    <3>1. PICK new : /\ new = [updater[n] EXCEPT !.at = "prepare", !.had = override # NoFile,
                                                 !.read = state, !.known = TRUE]
                     /\ updater' = [updater EXCEPT ![n] = new]
      BY <1>9, <2>1 DEF ReadPlan
    <3>2. new \in Helper
      BY <1>1, <3>1 DEF Helper, UpdaterSteps
    <3>3. updater' \in [Updates -> Helper]
      BY <3>1, <3>2, HelperMoves
    <3>4. state' = [state EXCEPT !.op.status = "running", !.op.stage = "early"]
      BY <1>9, <2>1 DEF ReadPlan
    <3>5. state' \in SupervisorStates /\ state'.op.id = n
      BY <2>1, <3>4 DEF SupervisorStates, Stages
    <3> QED
      BY <1>9, <3>3, <3>5 DEF ReadPlan
  <2>2. CASE ~(n \in plans /\ state.op.id = n)
    <3>1. PICK new : /\ new = [updater[n] EXCEPT !.at = "restore", !.read = state,
                                                 !.known = n \in plans]
                     /\ updater' = [updater EXCEPT ![n] = new]
      BY <1>9, <2>2 DEF ReadPlan
    <3>2. new \in Helper
      <4>1. PICK known \in BOOLEAN : (n \in plans) = known
        <5>1. (n \in plans) = TRUE \/ (n \in plans) = FALSE
          OBVIOUS
        <5> QED
          BY <5>1
      <4>2. new = [updater[n] EXCEPT !.at = "restore", !.read = state, !.known = known]
        BY <3>1, <4>1, Zenon
      <4> QED
        BY <1>1, <4>2 DEF Helper, UpdaterSteps
    <3>3. updater' \in [Updates -> Helper]
      BY <3>1, <3>2, HelperMoves
    <3> QED
      BY <1>9, <2>2, <3>3 DEF ReadPlan
  <2> QED
    BY <2>1, <2>2
<1>10. CASE Prepare(n)
  <2>1. previous' \in [Updates -> Releases \cup {NoFile}]
    BY <1>10 DEF Prepare
  <2>2. updater' \in [Updates -> Helper]
    <3>1. CASE updater' = [updater EXCEPT ![n] = [@ EXCEPT !.at = "pull", !.prepared = TRUE]]
      <4>1. PICK new : /\ new = [updater[n] EXCEPT !.at = "pull", !.prepared = TRUE]
                       /\ updater' = [updater EXCEPT ![n] = new]
        BY <3>1
      <4>2. new \in Helper
        BY <1>1, <4>1 DEF Helper, UpdaterSteps
      <4> QED
        BY <4>1, <4>2, HelperMoves
    <3>2. CASE GoesTo(n, "restore")
      BY <1>3, <1>4, <3>2
    <3> QED
      BY <1>10, <3>1, <3>2 DEF Prepare
  <2> QED
    BY <1>2, <1>10, <2>1, <2>2 DEF Prepare
<1>11. CASE Pull(n)
  <2>1. updater' \in [Updates -> Helper]
    BY <1>3, <1>4, <1>11 DEF Pull
  <2>2. state' \in SupervisorStates /\ (Unfinished(state)' => state'.op.id \in Updates)
    BY <1>6, <1>7, <1>11 DEF Pull
  <2> QED
    BY <1>2, <1>11, <2>1, <2>2 DEF Pull
<1>12. CASE WriteOverride(n)
  <2>1. PICK new : /\ new = [updater[n] EXCEPT !.at = "stage", !.service = "api"]
                   /\ updater' = [updater EXCEPT ![n] = new]
    BY <1>12 DEF WriteOverride
  <2>2. new \in Helper
    BY <1>1, <2>1 DEF Helper, UpdaterSteps, Services
  <2>3. updater' \in [Updates -> Helper]
    BY <2>1, <2>2, HelperMoves
  <2> QED
    BY <1>1, <1>12, <2>3 DEF WriteOverride
<1>13. CASE MarkStage(n)
  BY <1>3, <1>4, <1>6, <1>7, <1>13 DEF MarkStage
<1>14. CASE SwitchService(n)
  <2>1. updater' \in [Updates -> Helper]
    BY <1>3, <1>4, <1>14 DEF SwitchService
  <2>2. runs' \in [Services -> Releases] /\ supervisor' \in {supervisor, "down"}
        /\ supervisor' \in {"down", "serving", "checking", "launching"}
    <3>1. Composed(TRUE) \in Releases /\ {updater[n].service} \in SUBSET Services
      BY <1>1, ComposedRelease
    <3>2. CASE Up({updater[n].service}, Composed(TRUE))
      BY <3>1, <3>2, ComposeUp
    <3>3. CASE UpPartly({updater[n].service}, Composed(TRUE))
      BY <3>1, <3>3, ComposeUpPartly
    <3> QED
      BY <1>14, <3>2, <3>3 DEF SwitchService
  <2> QED
    BY <1>2, <1>14, <2>1, <2>2 DEF SwitchService
<1>15. CASE AwaitService(n)
  <2>1. updater' \in [Updates -> Helper]
    <3>1. CASE GoesTo(n, "restore") \/ GoesTo(n, "finish")
      BY <1>3, <1>4, <3>1
    <3>2. CASE ~(GoesTo(n, "restore") \/ GoesTo(n, "finish"))
      <4>1. PICK new : /\ new = [updater[n] EXCEPT !.at = "stage",
                                       !.service = NextService(updater[n].service)]
                       /\ updater' = [updater EXCEPT ![n] = new]
        BY <1>15, <3>2 DEF AwaitService
      <4>2. new \in Helper
        BY <1>1, <4>1 DEF Helper, UpdaterSteps, NextService, Services
      <4> QED
        BY <4>1, <4>2, HelperMoves
    <3> QED
      BY <3>1, <3>2
  <2> QED
    BY <1>2, <1>15, <2>1 DEF AwaitService
<1>16. CASE FinishUpdate(n)
  <2>1. updater' \in [Updates -> Helper]
    BY <1>3, <1>4, <1>16 DEF FinishUpdate
  <2>2. state' \in SupervisorStates /\ state'.op.id = n
    BY <1>1, <1>16 DEF FinishUpdate, SupervisorStates, Stages
  <2> QED
    BY <1>16, <2>1, <2>2 DEF FinishUpdate
<1>17. CASE RestoreOverride(n)
  BY <1>3, <1>4, <1>17 DEF RestoreOverride
<1>18. CASE RecordRollback(n)
  <2>1. updater' \in [Updates -> Helper]
    BY <1>3, <1>4, <1>18 DEF RecordRollback
  <2>2. state' \in SupervisorStates /\ (Unfinished(state)' => state'.op.id \in Updates)
    <3>1. CASE updater[n].known
      <4>1. state' = [updater[n].read EXCEPT !.op.status = "rolled-back", !.op.stage = "ended"]
        BY <1>18, <3>1 DEF RecordRollback
      <4>2. state' \in SupervisorStates /\ state'.op.status = "rolled-back"
        BY <1>1, <4>1 DEF SupervisorStates, Stages
      <4> QED
        BY <4>2
    <3>2. CASE ~updater[n].known
      BY <1>18, <3>2 DEF RecordRollback
    <3> QED
      BY <3>1, <3>2
  <2> QED
    BY <1>18, <2>1, <2>2 DEF RecordRollback
<1>19. CASE Downgrade(n)
  <2>1. updater' \in [Updates -> Helper]
    BY <1>3, <1>4, <1>19 DEF Downgrade
  <2>2. runs' \in [Services -> Releases] /\ supervisor' \in {supervisor, "down"}
        /\ supervisor' \in {"down", "serving", "checking", "launching"}
    <3>1. Composed(updater[n].had) \in Releases
      BY <1>1, ComposedRelease
    <3>2. CASE Up(Services, Composed(updater[n].had))
      BY <3>1, <3>2, ComposeUp
    <3>3. CASE UpPartly(Services, Composed(updater[n].had))
      BY <3>1, <3>3, ComposeUpPartly
    <3> QED
      BY <1>19, <3>2, <3>3 DEF Downgrade
  <2> QED
    BY <1>2, <1>19, <2>1, <2>2 DEF Downgrade
<1>20. CASE Tidy(n)
  <2>1. updater' \in [Updates -> Helper]
    BY <1>20, NothingStarted DEF Tidy
  <2>2. previous' \in [Updates -> Releases \cup {NoFile}]
    BY <1>20 DEF Tidy
  <2> QED
    BY <1>20, <2>1, <2>2 DEF Tidy
<1>21. CASE UpdaterDies(n)
  <2>1. updater' \in [Updates -> Helper]
    BY <1>21, NothingStarted DEF UpdaterDies
  <2> QED
    BY <1>21, <2>1, TroubleCounted DEF UpdaterDies
<1> QED
  BY <1>8, <1>9, <1>10, <1>11, <1>12, <1>13, <1>14, <1>15, <1>16, <1>17, <1>18, <1>19, <1>20,
     <1>21

(* The recovery helper and a restart of the host keep the types. *)
LEMMA RecoveryTypes ==
  ASSUME PlatformTypes,
         \/ RecoveryLoads \/ RecoveryLooks \/ RecoveryRestores \/ RecoverySwitches
         \/ RecoveryRecords \/ RecoverySwitchesSupervisor \/ RecoveryTidies \/ RecoveryFails
         \/ HostRestarts
  PROVE  PlatformTypes'
<1> USE DEF PlatformTypes, Requesting, Recovering, Unfinished, files, RecoveryAt
<1>1. /\ recovery.at \in PlatformRecoverySteps /\ recovery.id \in 0 .. MaxPlatformUpdates
      /\ recovery.read \in SupervisorStates /\ recovery.had \in BOOLEAN
  BY DEF Recovery
<1>2. CommandFails => commandFaults' \in 0 .. MaxCommandFaults
  BY TroubleCounted
<1>3. \A step \in PlatformRecoverySteps, had \in BOOLEAN :
          \/ RecoveryGoes(step) /\ had = recovery.had
          \/ recovery' = [recovery EXCEPT !.at = step, !.had = had]
          => recovery' \in Recovery /\ recovery'.id = recovery.id
  BY RecoveryMoves
<1>4. \A step \in PlatformRecoverySteps :
          RecoveryGoes(step) => recovery' \in Recovery /\ recovery'.id = recovery.id
  BY <1>1, <1>3
<1>5. /\ "restore" \in PlatformRecoverySteps /\ "up" \in PlatformRecoverySteps /\ "record" \in PlatformRecoverySteps
      /\ "supervisor" \in PlatformRecoverySteps /\ "tidy" \in PlatformRecoverySteps
      /\ "failed" \in PlatformRecoverySteps
  BY DEF PlatformRecoverySteps
<1>6. NoRecovery \in Recovery /\ NoRecovery.at = "off"
  BY NothingStarted
<1>7. CASE RecoveryLoads
  <2>1. ASSUME NEW new, new = [recovery EXCEPT !.at = "look", !.read = state]
        PROVE  new \in Recovery /\ new.id = recovery.id
    BY <2>1 DEF Recovery, PlatformRecoverySteps
  <2> QED
    BY <1>6, <1>7, <2>1 DEF RecoveryLoads
<1>8. CASE RecoveryLooks
  <2>1. ASSUME NEW step \in PlatformRecoverySteps, NEW new, new = [recovery EXCEPT !.at = step]
        PROVE  new \in Recovery /\ new.id = recovery.id
    BY <2>1 DEF Recovery
  <2> QED
    BY <1>5, <1>6, <1>8, <2>1 DEF RecoveryLooks
<1>9. CASE RecoveryRestores
  <2>1. recovery' \in Recovery /\ recovery'.id = recovery.id
    BY <1>3, <1>4, <1>5, <1>9 DEF RecoveryRestores
  <2>2. override' \in Releases \cup {NoFile}
        /\ previous' \in [Updates -> Releases \cup {NoFile}]
    BY <1>9 DEF RecoveryRestores
  <2> QED
    BY <1>9, <2>1, <2>2 DEF RecoveryRestores
<1>10. CASE RecoverySwitches
  <2>1. recovery' \in Recovery /\ recovery'.id = recovery.id
    BY <1>4, <1>5, <1>10 DEF RecoverySwitches
  <2>2. runs' \in [Services -> Releases] /\ supervisor' = supervisor
    <3>1. Composed(recovery.had) \in Releases
      BY <1>1, ComposedRelease
    <3>2. {"api", "web"} \in SUBSET Services
      BY DEF Services
    <3>3. CASE Up({"api", "web"}, Composed(recovery.had))
      BY <3>1, <3>2, <3>3, ComposeUp
    <3>4. CASE UpPartly({"api", "web"}, Composed(recovery.had))
      BY <3>1, <3>2, <3>4, ComposeUpPartly
    <3> QED
      BY <1>10, <3>3, <3>4 DEF RecoverySwitches
  <2> QED
    BY <1>2, <1>10, <2>1, <2>2 DEF RecoverySwitches
<1>11. CASE RecoveryRecords
  <2>1. recovery' \in Recovery /\ recovery'.id = recovery.id
    BY <1>4, <1>5, <1>11 DEF RecoveryRecords
  <2>2. state' \in SupervisorStates /\ state'.op.status \in {"rolled-back", "failed"}
    BY <1>1, <1>11 DEF RecoveryRecords, SupervisorStates, Stages
  <2> QED
    BY <1>11, <2>1, <2>2 DEF RecoveryRecords
<1>12. CASE RecoverySwitchesSupervisor
  <2>1. recovery' \in Recovery /\ recovery'.id = recovery.id
    BY <1>4, <1>5, <1>12 DEF RecoverySwitchesSupervisor
  <2>2. runs' \in [Services -> Releases] /\ supervisor' \in {supervisor, "down"}
        /\ supervisor' \in {"down", "serving", "checking", "launching"}
    <3>1. \A b \in BOOLEAN : Composed(b) \in Releases
      BY ComposedRelease
    <3>2. Composed(previous[recovery.id] # NoFile) \in Releases
          /\ {"supervisor"} \in SUBSET Services
      BY <3>1 DEF Services
    <3>3. CASE Up({"supervisor"}, Composed(previous[recovery.id] # NoFile))
      BY <3>2, <3>3, ComposeUp
    <3>4. CASE UpPartly({"supervisor"}, Composed(previous[recovery.id] # NoFile))
      BY <3>2, <3>4, ComposeUpPartly
    <3> QED
      BY <1>12, <3>3, <3>4 DEF RecoverySwitchesSupervisor
  <2> QED
    BY <1>2, <1>12, <2>1, <2>2 DEF RecoverySwitchesSupervisor
<1>13. CASE RecoveryTidies
  <2>1. previous' \in [Updates -> Releases \cup {NoFile}]
    BY <1>13 DEF RecoveryTidies
  <2> QED
    BY <1>6, <1>13, <2>1 DEF RecoveryTidies
<1>14. CASE RecoveryFails
  <2>1. state' \in SupervisorStates /\ state'.op.status = "failed"
    BY <1>1, <1>14 DEF RecoveryFails, SupervisorStates, Stages
  <2> QED
    BY <1>6, <1>14, <2>1 DEF RecoveryFails
<1>15. CASE HostRestarts
  BY <1>6, <1>15, NothingStarted, TroubleCounted DEF HostRestarts
<1> QED
  BY <1>7, <1>8, <1>9, <1>10, <1>11, <1>12, <1>13, <1>14, <1>15

(* Every step keeps the types. *)
LEMMA PlatformTypesKept ==
  ASSUME PlatformTypes, [PlatformNext]_platformVars
  PROVE  PlatformTypes'
<1>1. CASE PlatformNext
  BY <1>1, SupervisorTypes, UpdaterTypes, RecoveryTypes DEF PlatformNext
<1>2. CASE UNCHANGED platformVars
  BY <1>2 DEF platformVars, PlatformTypes, Requesting, Recovering, Unfinished
<1> QED
  BY <1>1, <1>2

(* The first state has the types. *)
LEMMA PlatformTypesInit ==
  ASSUME PlatformInit
  PROVE  PlatformTypes
<1>1. /\ override \in Releases \cup {NoFile}
      /\ previous \in [Updates -> Releases \cup {NoFile}]
      /\ 0 \in Releases /\ 1 \in Releases
  BY PlatformUpdatesAssumption DEF PlatformInit, Releases
<1>2. PICK release \in Releases : state = [Fresh EXCEPT !.current = release]
  BY <1>1 DEF PlatformInit
<1>3. Fresh \in [current: Releases, images: BOOLEAN, op: Operation]
  BY NothingStarted, StateRecords
<1>4. /\ state \in [current: Releases, images: BOOLEAN, op: Operation]
      /\ state.op = Fresh.op /\ state.current = release /\ state.images = Fresh.images
  BY <1>2, <1>3
<1>5. state \in SupervisorStates /\ state.op.status = "none" /\ state.current \in Releases
  BY <1>4, NothingStarted, StateRecords
<1>6. runs \in [Services -> Releases]
  BY <1>5 DEF PlatformInit
<1>7. updater \in [Updates -> Helper] /\ recovery \in Recovery /\ recovery.at = "off"
  BY NothingStarted DEF PlatformInit
<1>8. held \in SupervisorStates /\ supervisor = "serving" /\ ~lock /\ ~overlap
  BY NothingStarted DEF PlatformInit
<1>9. commandFaults \in 0 .. MaxCommandFaults /\ hostCrashes \in 0 .. MaxHostCrashes
      /\ plans \subseteq Updates
  BY PlatformUpdatesAssumption DEF PlatformInit
<1>10. lock \in BOOLEAN /\ overlap \in BOOLEAN
  BY DEF PlatformInit
<1> QED
  BY <1>1, <1>5, <1>6, <1>7, <1>8, <1>9, <1>10
     DEF PlatformTypes, Requesting, Recovering, Unfinished

(* The state while a helper saves a stage. *)
LEMMA StageSaved ==
  ASSUME PlatformTypes, NEW n \in Updates, NEW stage \in Stages, SaveStage(n, stage)
  PROVE  /\ state'.op.id = n /\ state'.op.status = "running" /\ state'.op.stage = stage
         /\ state'.current = state.current /\ state'.images = state.images
         /\ Unfinished(state)'
<1>1. n \in 0 .. MaxPlatformUpdates /\ "running" \in UpdateStatuses /\ state \in SupervisorStates
  BY UpdateNumbers DEF UpdateStatuses, PlatformTypes
<1> QED
  BY <1>1, StateWithOperation DEF SaveStage, Unfinished

(* The helper reads its plan and its state. *)
LEMMA CourseStarts ==
  ASSUME PlatformTypes, PlatformSound, NEW n \in Updates, ReadPlan(n), InCourse(n)
  PROVE  PlatformSound'
<1>1. /\ CourseSound(n) /\ updater[n].at = "read" /\ n \in plans /\ state.op.id = n
      /\ ~updater[n].prepared
  BY DEF InCourse, MidSteps, ReadPlan, At, PlatformSound, CoursesSound, CourseSound,
         HelpersSound
<1>2. updater[n] \in Helper /\ updater \in [Updates -> Helper]
  BY DEF PlatformTypes
<1>3. PICK new : /\ new = [updater[n] EXCEPT !.at = "prepare", !.had = override # NoFile,
                                             !.read = state, !.known = TRUE]
                 /\ updater' = [updater EXCEPT ![n] = new]
  BY <1>1 DEF ReadPlan
<1>4. /\ new.at = "prepare" /\ (override # NoFile => new.had) /\ new.read = state
      /\ new.known /\ new.prepared = updater[n].prepared
  BY <1>2, <1>3 DEF Helper
<1>5. updater'[n] = new /\ \A m \in Updates : m # n => updater'[m] = updater[m]
  BY <1>2, <1>3
<1>6. state' = [state EXCEPT !.op.status = "running", !.op.stage = "early"]
  BY <1>1 DEF ReadPlan
<1>7. /\ state'.op.id = n /\ state'.op.status = "running" /\ state'.images = state.images
  BY <1>1, <1>6 DEF PlatformTypes, SupervisorStates
<1>8. UNCHANGED <<held, override, previous, lock, plans, runs, supervisor, recovery>>
  BY DEF ReadPlan, files
<1>9. state.images => override > 0 /\ new.had
  BY <1>4, UpdateNumbers DEF PlatformSound, StateSound
<1>10. CourseSound(n)'
  BY <1>1, <1>4, <1>5, <1>7, <1>8, <1>9
     DEF CourseSound, Unfinished, Recovering, Requesting
<1>11. InCourse(n)'
  BY <1>4, <1>5 DEF InCourse, MidSteps
<1> QED
  BY <1>1, <1>4, <1>5, <1>7, <1>8, <1>9, <1>10, <1>11, CourseStep

(* A command fails, and the helper turns to its handler. *)
LEMMA CourseGivesUp ==
  ASSUME PlatformTypes, PlatformSound, NEW n \in Updates, updater[n].at \in MidSteps,
         GoesTo(n, "restore"), UNCHANGED <<held, files, state, recovery>>,
         supervisor' \in {supervisor, "down"}
  PROVE  PlatformSound'
<1>1. InCourse(n) /\ CourseSound(n) /\ updater[n].known /\ updater[n].at # "read"
  BY DEF InCourse, MidSteps, PlatformSound, CoursesSound, CourseSound
<1>2. /\ updater'[n].at = "restore"
      /\ updater'[n].had = updater[n].had /\ updater'[n].known = updater[n].known
      /\ updater'[n].prepared = updater[n].prepared /\ updater'[n].read = updater[n].read
      /\ \A m \in Updates : m # n => updater'[m] = updater[m]
  BY HelperGoes DEF UpdaterSteps, PlatformTypes
<1>3. UNCHANGED <<held, override, previous, lock, plans, state, recovery>>
  BY DEF files
<1>4. CourseSound(n)' /\ InCourse(n)'
  BY <1>1, <1>2, <1>3 DEF CourseSound, InCourse, Unfinished, Recovering, Requesting
<1>5. state.images => override > 0
  BY DEF PlatformSound, StateSound
<1> QED
  BY <1>1, <1>2, <1>3, <1>4, <1>5, CourseStep

(* The override is saved, or the helper fails before. *)
LEMMA CoursePrepares ==
  ASSUME PlatformTypes, PlatformSound, NEW n \in Updates, Prepare(n)
  PROVE  PlatformSound'
<1>1. updater[n].at = "prepare" /\ InCourse(n)
  BY DEF Prepare, At, InCourse, MidSteps
<1>2. CourseSound(n) /\ updater[n].known
  BY <1>1 DEF PlatformSound, CoursesSound, CourseSound
<1>3. updater[n] \in Helper /\ updater \in [Updates -> Helper]
      /\ previous \in [Updates -> Releases \cup {NoFile}]
  BY DEF PlatformTypes
<1>4. UNCHANGED <<held, override, lock, plans, state, runs, supervisor, recovery>>
  BY DEF Prepare
<1>5. state.images => override > 0 /\ updater[n].had
  BY <1>1, <1>2 DEF PlatformSound, StateSound, CourseSound
<1>6. CASE /\ updater' = [updater EXCEPT ![n] = [@ EXCEPT !.at = "pull", !.prepared = TRUE]]
           /\ previous' = [previous EXCEPT ![n] = IF updater[n].had THEN override ELSE @]
  <2>1. PICK new : /\ new = [updater[n] EXCEPT !.at = "pull", !.prepared = TRUE]
                   /\ updater' = [updater EXCEPT ![n] = new]
    BY <1>6
  <2>2. /\ new.at = "pull" /\ new.prepared /\ new.known = updater[n].known
        /\ new.had = updater[n].had /\ new.read = updater[n].read
    BY <1>3, <2>1 DEF Helper
  <2>3. updater'[n] = new /\ \A m \in Updates : m # n => updater'[m] = updater[m]
    BY <1>3, <2>1
  <2>4. /\ \A m \in Updates : m # n => previous'[m] = previous[m]
        /\ state.images => previous'[n] > 0
    BY <1>3, <1>5, <1>6
  <2>5. CourseSound(n)' /\ InCourse(n)'
    BY <1>1, <1>2, <1>4, <1>5, <2>2, <2>3, <2>4
       DEF CourseSound, InCourse, MidSteps, Unfinished, Recovering, Requesting
  <2> QED
    BY <1>1, <1>2, <1>4, <1>5, <2>2, <2>3, <2>4, <2>5, CourseStep
<1>7. CASE GoesTo(n, "restore") /\ UNCHANGED previous
  BY <1>1, <1>4, <1>7, CourseGivesUp DEF MidSteps, files
<1> QED
  BY <1>6, <1>7 DEF Prepare

(* The backup and the images, then the stage of the switch. *)
LEMMA CoursePulls ==
  ASSUME PlatformTypes, PlatformSound, NEW n \in Updates, Pull(n)
  PROVE  PlatformSound'
<1>1. updater[n].at = "pull" /\ InCourse(n) /\ updater[n].at \in MidSteps
  BY DEF Pull, At, InCourse, MidSteps
<1>2. CourseSound(n) /\ updater[n].known
  BY <1>1 DEF PlatformSound, CoursesSound, CourseSound
<1>3. UNCHANGED <<held, override, previous, lock, plans, runs, supervisor, recovery>>
  BY DEF Pull, files
<1>4. CASE GoesTo(n, "restore") /\ UNCHANGED state
  BY <1>1, <1>3, <1>4, CourseGivesUp DEF files
<1>5. CASE GoesTo(n, "write") /\ SaveStage(n, "switching")
  <2>1. /\ updater'[n].at = "write"
        /\ updater'[n].had = updater[n].had /\ updater'[n].known = updater[n].known
        /\ updater'[n].prepared = updater[n].prepared /\ updater'[n].read = updater[n].read
        /\ \A m \in Updates : m # n => updater'[m] = updater[m]
    BY <1>5, HelperGoes DEF UpdaterSteps, PlatformTypes
  <2>2. state'.op.id = n /\ state'.images = state.images /\ Unfinished(state)'
    BY <1>5, StageSaved DEF Stages
  <2>3. CourseSound(n)' /\ InCourse(n)'
    BY <1>1, <1>2, <1>3, <2>1, <2>2
       DEF CourseSound, InCourse, MidSteps, Recovering, Requesting
  <2>4. state.images => override > 0
    BY DEF PlatformSound, StateSound
  <2> QED
    BY <1>1, <1>2, <1>3, <2>1, <2>2, <2>3, <2>4, CourseStep
<1> QED
  BY <1>4, <1>5 DEF Pull

(* The override names the new release. *)
LEMMA CourseWrites ==
  ASSUME PlatformTypes, PlatformSound, NEW n \in Updates, WriteOverride(n)
  PROVE  PlatformSound'
<1>1. updater[n].at = "write" /\ InCourse(n)
  BY DEF WriteOverride, At, InCourse, MidSteps
<1>2. CourseSound(n) /\ updater[n].known
  BY <1>1 DEF PlatformSound, CoursesSound, CourseSound
<1>3. UNCHANGED <<held, state, previous, lock, plans, runs, supervisor, recovery>>
      /\ override' = n + 1
  BY DEF WriteOverride
<1>4. updater[n] \in Helper /\ updater \in [Updates -> Helper]
  BY DEF PlatformTypes
<1>5. PICK new : /\ new = [updater[n] EXCEPT !.at = "stage", !.service = "api"]
                 /\ updater' = [updater EXCEPT ![n] = new]
  BY DEF WriteOverride
<1>6. /\ new.at = "stage" /\ new.service = "api" /\ new.had = updater[n].had
      /\ new.known = updater[n].known /\ new.prepared = updater[n].prepared
      /\ new.read = updater[n].read
  BY <1>4, <1>5 DEF Helper
<1>7. updater'[n] = new /\ \A m \in Updates : m # n => updater'[m] = updater[m]
  BY <1>4, <1>5
<1>8. CourseSound(n)' /\ InCourse(n)'
  BY <1>1, <1>2, <1>3, <1>6, <1>7
     DEF CourseSound, InCourse, MidSteps, Unfinished, Recovering, Requesting
<1>9. override' > 0
  BY <1>3, UpdateNumbers
<1> QED
  BY <1>1, <1>2, <1>3, <1>6, <1>7, <1>8, <1>9, CourseStep

(* The stage names the service that is switched next. *)
LEMMA CourseMarks ==
  ASSUME PlatformTypes, PlatformSound, NEW n \in Updates, MarkStage(n)
  PROVE  PlatformSound'
<1>1. updater[n].at = "stage" /\ InCourse(n)
  BY DEF MarkStage, At, InCourse, MidSteps
<1>2. CourseSound(n) /\ updater[n].known
  BY <1>1 DEF PlatformSound, CoursesSound, CourseSound
<1>3. UNCHANGED <<held, override, previous, lock, plans, runs, supervisor, recovery>>
  BY DEF MarkStage, files
<1>4. /\ updater'[n].at = "up" /\ updater'[n].service = updater[n].service
      /\ updater'[n].had = updater[n].had /\ updater'[n].known = updater[n].known
      /\ updater'[n].prepared = updater[n].prepared /\ updater'[n].read = updater[n].read
      /\ \A m \in Updates : m # n => updater'[m] = updater[m]
  BY HelperGoes DEF MarkStage, UpdaterSteps, PlatformTypes
<1>5. updater[n].service \in Stages
  BY DEF PlatformTypes, Helper, Services, Stages
<1>6. state'.op.id = n /\ state'.images = state.images /\ Unfinished(state)'
  BY <1>5, StageSaved DEF MarkStage
<1>7. CourseSound(n)' /\ InCourse(n)'
  BY <1>1, <1>2, <1>3, <1>4, <1>6
     DEF CourseSound, InCourse, MidSteps, Recovering, Requesting
<1>8. state.images => override > 0
  BY DEF PlatformSound, StateSound
<1> QED
  BY <1>1, <1>2, <1>3, <1>4, <1>6, <1>7, <1>8, CourseStep

(* Compose switches one service to the new release. *)
LEMMA CourseSwitches ==
  ASSUME PlatformTypes, PlatformSound, NEW n \in Updates, SwitchService(n)
  PROVE  PlatformSound'
<1>1. updater[n].at = "up" /\ InCourse(n) /\ updater[n].at \in MidSteps
  BY DEF SwitchService, At, InCourse, MidSteps
<1>2. CourseSound(n) /\ updater[n].known /\ updater[n].service \in Services
  BY <1>1 DEF PlatformSound, CoursesSound, CourseSound, PlatformTypes, Helper
<1>3. UNCHANGED <<held, state, override, previous, lock, plans, recovery>>
  BY DEF SwitchService, files
<1>4. CASE GoesTo(n, "restore") /\ UpPartly({updater[n].service}, Composed(TRUE))
  <2>1. {updater[n].service} \in SUBSET Services /\ Composed(TRUE) \in Releases
    BY <1>2, ComposedRelease
  <2>2. supervisor' \in {supervisor, "down"}
    BY <1>4, <2>1, ComposeUpPartly
  <2> QED
    BY <1>1, <1>3, <1>4, <2>2, CourseGivesUp DEF files
<1>5. CASE Up({updater[n].service}, Composed(TRUE)) /\ GoesTo(n, "wait")
  <2>1. /\ updater'[n].at = "wait" /\ updater'[n].service = updater[n].service
        /\ updater'[n].had = updater[n].had /\ updater'[n].known = updater[n].known
        /\ updater'[n].prepared = updater[n].prepared /\ updater'[n].read = updater[n].read
        /\ \A m \in Updates : m # n => updater'[m] = updater[m]
    BY <1>5, HelperGoes DEF UpdaterSteps, PlatformTypes
  <2>2. Composed(TRUE) = n + 1 /\ Composed(TRUE) \in Releases
    BY <1>1, <1>2, UpdateNumbers, ComposedRelease DEF CourseSound
  <2>3. /\ \A s \in Services : runs'[s] = IF s = updater[n].service THEN n + 1 ELSE runs[s]
        /\ supervisor' \in {supervisor, "down"}
    <3>1. {updater[n].service} \in SUBSET Services
      BY <1>2
    <3>2. /\ \A s \in Services : runs'[s] = IF s \in {updater[n].service} THEN Composed(TRUE)
                                                                          ELSE runs[s]
          /\ supervisor' \in {supervisor, "down"}
      BY <1>5, <2>2, <3>1, ComposeUp
    <3> QED
      BY <2>2, <3>2
  <2>4. CourseSound(n)' /\ InCourse(n)'
    BY <1>1, <1>2, <1>3, <2>1, <2>3
       DEF CourseSound, InCourse, MidSteps, Unfinished, Recovering, Requesting, Services
  <2>5. state.images => override > 0
    BY DEF PlatformSound, StateSound
  <2> QED
    BY <1>1, <1>2, <1>3, <2>1, <2>3, <2>4, <2>5, CourseStep
<1> QED
  BY <1>4, <1>5 DEF SwitchService

(* A service is awaited; the last one ends the switch. *)
LEMMA CourseAwaits ==
  ASSUME PlatformTypes, PlatformSound, NEW n \in Updates, AwaitService(n)
  PROVE  PlatformSound'
<1>1. updater[n].at = "wait" /\ InCourse(n) /\ updater[n].at \in MidSteps
  BY DEF AwaitService, At, InCourse, MidSteps
<1>2. CourseSound(n) /\ updater[n].known /\ updater[n].service \in Services
  BY <1>1 DEF PlatformSound, CoursesSound, CourseSound, PlatformTypes, Helper
<1>3. UNCHANGED <<held, state, override, previous, lock, plans, runs, supervisor, recovery>>
  BY DEF AwaitService, files
<1>4. CASE GoesTo(n, "restore")
  BY <1>1, <1>3, <1>4, CourseGivesUp DEF files
<1>5. state.images => override > 0
  BY DEF PlatformSound, StateSound
<1>6. CASE updater[n].service = "supervisor" /\ GoesTo(n, "finish")
  <2>1. /\ updater'[n].at = "finish" /\ updater'[n].service = updater[n].service
        /\ updater'[n].had = updater[n].had /\ updater'[n].known = updater[n].known
        /\ updater'[n].prepared = updater[n].prepared /\ updater'[n].read = updater[n].read
        /\ \A m \in Updates : m # n => updater'[m] = updater[m]
    BY <1>6, HelperGoes DEF UpdaterSteps, PlatformTypes
  <2>2. CourseSound(n)' /\ InCourse(n)'
    BY <1>1, <1>2, <1>3, <1>6, <2>1
       DEF CourseSound, InCourse, MidSteps, Unfinished, Recovering, Requesting, Services
  <2> QED
    BY <1>1, <1>2, <1>3, <1>5, <2>1, <2>2, CourseStep
<1>7. CASE /\ updater[n].service # "supervisor"
           /\ updater' = [updater EXCEPT
                  ![n] = [@ EXCEPT !.at = "stage", !.service = NextService(updater[n].service)]]
  <2>1. PICK new : /\ new = [updater[n] EXCEPT !.at = "stage",
                                   !.service = NextService(updater[n].service)]
                   /\ updater' = [updater EXCEPT ![n] = new]
    BY <1>7
  <2>2. updater[n] \in Helper /\ updater \in [Updates -> Helper]
    BY DEF PlatformTypes
  <2>3. /\ new.at = "stage" /\ new.service = NextService(updater[n].service)
        /\ new.had = updater[n].had /\ new.known = updater[n].known
        /\ new.prepared = updater[n].prepared /\ new.read = updater[n].read
    BY <2>1, <2>2 DEF Helper
  <2>4. updater'[n] = new /\ \A m \in Updates : m # n => updater'[m] = updater[m]
    BY <2>1, <2>2
  <2>5. CourseSound(n)' /\ InCourse(n)'
    BY <1>1, <1>2, <1>3, <1>7, <2>3, <2>4
       DEF CourseSound, InCourse, MidSteps, Unfinished, Recovering, Requesting, Services,
           NextService
  <2> QED
    BY <1>1, <1>2, <1>3, <1>5, <2>3, <2>4, <2>5, CourseStep
<1> QED
  BY <1>4, <1>6, <1>7 DEF AwaitService

(* The handler puts the saved override back. *)
LEMMA CourseRestores ==
  ASSUME PlatformTypes, PlatformSound, NEW n \in Updates, RestoreOverride(n),
         updater[n].known
  PROVE  PlatformSound'
<1>1. updater[n].at = "restore" /\ InCourse(n)
  BY DEF RestoreOverride, At, InCourse
<1>2. CourseSound(n)
  BY <1>1 DEF PlatformSound, CoursesSound
<1>3. UNCHANGED <<held, state, previous, lock, plans, runs, supervisor, recovery>>
  BY DEF RestoreOverride
<1>4. /\ updater'[n].at = "record" /\ updater'[n].service = updater[n].service
      /\ updater'[n].had = updater[n].had /\ updater'[n].known = updater[n].known
      /\ updater'[n].prepared = updater[n].prepared /\ updater'[n].read = updater[n].read
      /\ \A m \in Updates : m # n => updater'[m] = updater[m]
  BY HelperGoes DEF RestoreOverride, UpdaterSteps, PlatformTypes
<1>5. state.images => override' > 0
  <2> SUFFICES ASSUME state.images PROVE override' > 0
    OBVIOUS
  <2>1. override > 0 /\ updater[n].had /\ (updater[n].prepared => previous[n] > 0)
    BY <1>1, <1>2 DEF PlatformSound, StateSound, CourseSound
  <2> QED
    BY <2>1 DEF RestoreOverride
<1>6. CourseSound(n)' /\ InCourse(n)'
  BY <1>1, <1>2, <1>3, <1>4
     DEF CourseSound, InCourse, MidSteps, Unfinished, Recovering, Requesting
<1> QED
  BY <1>1, <1>2, <1>3, <1>4, <1>5, <1>6, CourseStep

(* The end of a course is recorded. *)
LEMMA CourseEnds ==
  ASSUME PlatformTypes, PlatformSound, NEW n \in Updates, InCourse(n),
         \A m \in Updates : m # n => updater'[m] = updater[m],
         updater'[n].at \in {"downgrade", "tidy"},
         updater'[n].prepared => updater'[n].known,
         UNCHANGED <<held, override, previous, lock, plans, runs, supervisor, recovery>>,
         state'.op.id = n, state'.op.stage = "ended",
         state'.op.status \in {"succeeded", "rolled-back"},
         state'.images => override > 0,
         updater'[n].at = "downgrade" => state'.op.status = "rolled-back",
         state'.op.status = "succeeded" =>
             override = state'.current /\ \A s \in Services : runs[s] = state'.current
  PROVE  PlatformSound'
<1> USE DEF PlatformSound
<1>1. /\ AtWork(n) /\ Alive(n) /\ CourseSound(n) /\ ~Blocked
      /\ \A m \in Updates : m # n => ~AtWork(m)
      /\ \A m \in Updates : ~(updater[m].at = "lock" /\ m \in plans)
  BY CourseAlone
<1>2. /\ \A m \in Updates : m # n => ~AtWork(m)' /\ ~InCourse(m)' /\ (Alive(m)' <=> Alive(m))
      /\ ~InCourse(n)' /\ AtWork(n)' /\ Alive(n)' /\ updater'[n].at # "lock"
  BY <1>1 DEF InCourse, MidSteps, AtWork, Alive
<1>3. /\ ~Recovering' /\ ~Recovering /\ ~Requesting' /\ ~Requesting
      /\ ~Unfinished(state)' /\ state.op.id = n
  BY <1>1 DEF CourseSound, Recovering, Requesting, Unfinished
<1>4. RequestsSound'
  BY <1>1, <1>2, <1>3 DEF RequestsSound, Alive, AtWork, Recovering, Requesting
<1>5. HelpersSound'
  BY <1>1, <1>2, <1>3 DEF HelpersSound, AtWork, Recovering, Requesting
<1>6. CoursesSound'
  BY <1>2 DEF CoursesSound
<1>7. RecoverySound'
  BY <1>3 DEF RecoverySound, Recovering
<1>8. StateSound'
  BY <1>3 DEF StateSound, ChangedStages, Requesting
<1> QED
  BY <1>4, <1>5, <1>6, <1>7, <1>8

(* The update has succeeded. *)
LEMMA CourseFinishes ==
  ASSUME PlatformTypes, PlatformSound, NEW n \in Updates, FinishUpdate(n)
  PROVE  PlatformSound'
<1>1. updater[n].at = "finish" /\ InCourse(n)
  BY DEF FinishUpdate, At, InCourse, MidSteps
<1>2. CourseSound(n) /\ updater[n].known
  BY <1>1 DEF PlatformSound, CoursesSound, CourseSound
<1>3. UNCHANGED <<held, override, previous, lock, plans, runs, supervisor, recovery>>
  BY DEF FinishUpdate, files
<1>4. /\ updater'[n].at = "tidy" /\ updater'[n].known = updater[n].known
      /\ \A m \in Updates : m # n => updater'[m] = updater[m]
  BY HelperGoes DEF FinishUpdate, UpdaterSteps, PlatformTypes
<1>5. /\ state'.op.id = n /\ state'.op.stage = "ended" /\ state'.op.status = "succeeded"
      /\ state'.current = n + 1
  BY DEF FinishUpdate
<1>6. override = n + 1 /\ (\A s \in Services : runs[s] = n + 1) /\ override > 0
  BY <1>1, <1>2, UpdateNumbers DEF CourseSound
<1> QED
  BY <1>1, <1>2, <1>3, <1>4, <1>5, <1>6, CourseEnds

(* The update is rolled back. *)
LEMMA CourseRollsBack ==
  ASSUME PlatformTypes, PlatformSound, NEW n \in Updates, RecordRollback(n),
         updater[n].known
  PROVE  PlatformSound'
<1>1. updater[n].at = "record" /\ InCourse(n)
  BY DEF RecordRollback, At, InCourse
<1>2. CourseSound(n) /\ updater[n].read.op.id = n /\ updater[n].read.images = state.images
  BY <1>1 DEF PlatformSound, CoursesSound, CourseSound
<1>3. UNCHANGED <<held, override, previous, lock, plans, runs, supervisor, recovery>>
  BY DEF RecordRollback, files
<1>4. /\ updater'[n].at = "downgrade" /\ updater'[n].known = updater[n].known
      /\ \A m \in Updates : m # n => updater'[m] = updater[m]
  BY <1>2, HelperGoes DEF RecordRollback, UpdaterSteps, PlatformTypes
<1>5. updater[n].read \in SupervisorStates
  BY DEF PlatformTypes, Helper
<1>6. state' = [updater[n].read EXCEPT !.op.status = "rolled-back", !.op.stage = "ended"]
  BY DEF RecordRollback
<1>7. /\ state'.op.id = n /\ state'.op.stage = "ended" /\ state'.op.status = "rolled-back"
      /\ state'.images = state.images
  BY <1>2, <1>5, <1>6 DEF SupervisorStates
<1>8. state.images => override > 0
  BY DEF PlatformSound, StateSound
<1> QED
  BY <1>1, <1>2, <1>3, <1>4, <1>7, <1>8, CourseEnds

(* A helper that is at work on no update of the state leaves everything else alone. *)
LEMMA IdleStep ==
  ASSUME PlatformTypes, PlatformSound, NEW n \in Updates, AtWork(n), ~InCourse(n),
         \A m \in Updates : m # n => updater'[m] = updater[m],
         updater'[n].at \in {"restore", "record", "tidy"}, ~updater'[n].known,
         updater'[n].prepared = updater[n].prepared, ~updater[n].prepared,
         UNCHANGED <<held, files, state, runs, supervisor, recovery>>
  PROVE  PlatformSound'
<1> USE DEF PlatformSound
<1>1. UNCHANGED <<held, override, previous, lock, plans, state, runs, supervisor, recovery>>
  BY DEF files
<1>2. /\ AtWork(n)' /\ ~InCourse(n)' /\ Alive(n)' /\ Alive(n) /\ ~updater'[n].prepared
      /\ updater'[n].at \notin {"off", "lock", "read", "downgrade"}
  BY DEF AtWork, InCourse, MidSteps, Alive
<1>3. \A m \in Updates : m # n => ~AtWork(m) /\ ~AtWork(m)' /\ ~InCourse(m)'
                                  /\ (Alive(m)' <=> Alive(m))
  BY <1>1 DEF AtWork, Alive, InCourse, HelpersSound, MidSteps
<1>4. /\ ~Blocked /\ \A m \in Updates : Alive(m)' <=> Alive(m)
      /\ Requesting => held.op.id \in Updates
      /\ Recovering => recovery.id \in Updates
  BY <1>2, <1>3 DEF Blocked, PlatformTypes
<1>5. RequestsSound'
  BY <1>1, <1>4 DEF RequestsSound, Recovering, Requesting, Unfinished
<1>6. HelpersSound'
  BY <1>1, <1>2, <1>3, <1>4 DEF HelpersSound, AtWork, Recovering, Requesting, Unfinished
<1>7. CoursesSound'
  BY <1>2, <1>3 DEF CoursesSound
<1>8. RecoverySound'
  BY <1>1, <1>2 DEF RecoverySound, Changed, Unfinished
<1>9. StateSound'
  BY <1>1, <1>2, <1>3 DEF StateSound, Requesting, Unfinished
<1> QED
  BY <1>5, <1>6, <1>7, <1>8, <1>9

(* The steps of such a helper: it has no plan to read, and nothing to put back or to record. *)
LEMMA IdleSteps ==
  ASSUME PlatformTypes, PlatformSound, NEW n \in Updates,
         \/ ReadPlan(n) /\ ~InCourse(n)
         \/ RestoreOverride(n) /\ ~updater[n].known
         \/ RecordRollback(n) /\ ~updater[n].known
  PROVE  PlatformSound'
<1>1. updater[n] \in Helper /\ updater \in [Updates -> Helper]
  BY DEF PlatformTypes
<1>2. ~updater[n].known /\ ~updater[n].prepared
  BY DEF PlatformSound, HelpersSound, ReadPlan, At
<1>3. CASE ReadPlan(n) /\ ~InCourse(n)
  <2>1. updater[n].at = "read" /\ n \notin plans /\ AtWork(n)
    BY <1>3 DEF ReadPlan, At, InCourse, AtWork
  <2>2. PICK new : /\ new = [updater[n] EXCEPT !.at = "restore", !.read = state,
                                               !.known = n \in plans]
                   /\ updater' = [updater EXCEPT ![n] = new]
    BY <1>3, <2>1 DEF ReadPlan
  <2>3. (n \in plans) = FALSE
    BY <2>1
  <2>4. new = [updater[n] EXCEPT !.at = "restore", !.read = state, !.known = FALSE]
    BY <2>2, <2>3, Zenon
  <2>5. new.at = "restore" /\ ~new.known /\ new.prepared = updater[n].prepared
    BY <1>1, <2>4 DEF Helper
  <2>6. updater'[n] = new /\ \A m \in Updates : m # n => updater'[m] = updater[m]
    BY <1>1, <2>2
  <2>7. UNCHANGED <<held, files, state, runs, supervisor, recovery>>
    BY <1>3, <2>1 DEF ReadPlan
  <2> QED
    BY <1>2, <1>3, <2>1, <2>5, <2>6, <2>7, IdleStep
<1>4. CASE RestoreOverride(n)
  <2>1. updater[n].at = "restore" /\ AtWork(n) /\ ~InCourse(n)
    BY <1>2, <1>4 DEF RestoreOverride, At, AtWork, InCourse, MidSteps
  <2>2. /\ updater'[n].at = "record" /\ updater'[n].known = updater[n].known
        /\ updater'[n].prepared = updater[n].prepared
        /\ \A m \in Updates : m # n => updater'[m] = updater[m]
    BY <1>1, <1>4, HelperGoes DEF RestoreOverride, UpdaterSteps
  <2>3. UNCHANGED <<held, files, state, runs, supervisor, recovery>>
    BY <1>2, <1>4 DEF RestoreOverride, files
  <2> QED
    BY <1>2, <2>1, <2>2, <2>3, IdleStep
<1>5. CASE RecordRollback(n)
  <2>1. updater[n].at = "record" /\ AtWork(n) /\ ~InCourse(n)
    BY <1>2, <1>5 DEF RecordRollback, At, AtWork, InCourse, MidSteps
  <2>2. /\ updater'[n].at = "tidy" /\ updater'[n].known = updater[n].known
        /\ updater'[n].prepared = updater[n].prepared
        /\ \A m \in Updates : m # n => updater'[m] = updater[m]
    BY <1>1, <1>2, <1>5, HelperGoes DEF RecordRollback, UpdaterSteps
  <2>3. UNCHANGED <<held, files, state, runs, supervisor, recovery>>
    BY <1>2, <1>5 DEF RecordRollback
  <2> QED
    BY <1>2, <2>1, <2>2, <2>3, IdleStep
<1> QED
  BY <1>3, <1>4, <1>5

(* The services go back to what ran before; the state is not that of a success. *)
LEMMA DowngradeKeeps ==
  ASSUME PlatformTypes, PlatformSound, NEW n \in Updates, Downgrade(n)
  PROVE  PlatformSound'
<1> USE DEF PlatformSound
<1>1. updater[n].at = "downgrade" /\ AtWork(n) /\ Alive(n) /\ ~InCourse(n) /\ ~Blocked
  BY DEF Downgrade, At, AtWork, Alive, InCourse, MidSteps, Blocked
<1>2. ~Recovering /\ state.op.status # "succeeded" /\ state.op.stage \notin ChangedStages
  BY <1>1 DEF HelpersSound, StateSound
<1>3. UNCHANGED <<held, override, previous, lock, plans, state, recovery>>
  BY DEF Downgrade, files
<1>4. supervisor' \in {supervisor, "down"}
  <2>1. updater[n].had \in BOOLEAN
    BY DEF PlatformTypes, Helper
  <2>2. Composed(updater[n].had) \in Releases
    BY <2>1, ComposedRelease
  <2>3. CASE Up(Services, Composed(updater[n].had))
    BY <2>2, <2>3, ComposeUp
  <2>4. CASE UpPartly(Services, Composed(updater[n].had))
    BY <2>2, <2>4, ComposeUpPartly
  <2> QED
    BY <2>3, <2>4 DEF Downgrade
<1>5. /\ updater'[n].at = "tidy" /\ updater'[n].known = updater[n].known
      /\ updater'[n].prepared = updater[n].prepared
      /\ \A m \in Updates : m # n => updater'[m] = updater[m]
  BY HelperGoes DEF Downgrade, UpdaterSteps, PlatformTypes
<1>6. /\ AtWork(n)' /\ ~InCourse(n)'
      /\ \A m \in Updates : m # n => ~AtWork(m) /\ ~AtWork(m)' /\ ~InCourse(m)'
      /\ \A m \in Updates : Alive(m)' <=> Alive(m)
  BY <1>1, <1>3, <1>5 DEF AtWork, Alive, InCourse, HelpersSound, MidSteps
<1>7. Requesting' => Requesting /\ supervisor' = supervisor /\ held.op.id \in Updates
  BY <1>4 DEF Requesting, PlatformTypes
<1>8. RequestsSound'
  BY <1>1, <1>2, <1>3, <1>4, <1>6, <1>7 DEF RequestsSound, Recovering, Requesting, Unfinished
<1>9. HelpersSound'
  BY <1>1, <1>2, <1>3, <1>4, <1>5, <1>6, <1>7
     DEF HelpersSound, AtWork, Recovering, Requesting, Unfinished
<1>10. CoursesSound'
  BY <1>6 DEF CoursesSound
<1>11. RecoverySound'
  BY <1>2, <1>3 DEF RecoverySound, Recovering
<1>12. StateSound'
  BY <1>2, <1>3, <1>7 DEF StateSound, Unfinished
<1> QED
  BY <1>8, <1>9, <1>10, <1>11, <1>12

(* The plan, the copy and the lock are removed. *)
LEMMA TidyKeeps ==
  ASSUME PlatformTypes, PlatformSound, NEW n \in Updates, Tidy(n)
  PROVE  PlatformSound'
<1> USE DEF PlatformSound
<1>1. updater[n].at = "tidy" /\ AtWork(n) /\ Alive(n) /\ ~InCourse(n) /\ ~Blocked
  BY DEF Tidy, At, AtWork, Alive, InCourse, MidSteps, Blocked
<1>2. /\ state.op.stage \notin ChangedStages
      /\ recovery.at \in {"look", "restore", "up", "record", "supervisor", "failed"} => ~Changed
  BY <1>1 DEF RecoverySound, StateSound
<1>3. UNCHANGED <<held, override, state, runs, supervisor, recovery>> /\ plans' = plans \ {n}
  BY DEF Tidy
<1>4. /\ previous'[n] = NoFile /\ updater'[n] = NoUpdater
      /\ \A m \in Updates : m # n => previous'[m] = previous[m] /\ updater'[m] = updater[m]
  BY DEF Tidy, PlatformTypes
<1>5. /\ updater'[n].at = "off" /\ ~updater'[n].known /\ ~updater'[n].prepared
  BY <1>4, NothingStarted
<1>6. /\ \A m \in Updates : ~AtWork(m)' /\ ~InCourse(m)' /\ (Alive(m)' => Alive(m))
      /\ Requesting => held.op.id \in Updates
      /\ Recovering => recovery.id \in Updates
      /\ Unfinished(state) => state.op.id \in Updates
  BY <1>1, <1>3, <1>4, <1>5
     DEF AtWork, Alive, InCourse, HelpersSound, MidSteps, PlatformTypes
<1>7. RequestsSound'
  BY <1>1, <1>3, <1>4, <1>6 DEF RequestsSound, Recovering, Requesting, Unfinished
<1>8. HelpersSound'
  BY <1>1, <1>3, <1>4, <1>5, <1>6
     DEF HelpersSound, AtWork, Recovering, Requesting, Unfinished
<1>9. CoursesSound'
  BY <1>6 DEF CoursesSound
<1>10. RecoverySound'
  BY <1>2, <1>3 DEF RecoverySound, Changed, Unfinished
<1>11. StateSound'
  BY <1>2, <1>3, <1>4, <1>6 DEF StateSound, Unfinished, Requesting
<1> QED
  BY <1>7, <1>8, <1>9, <1>10, <1>11

(* The lock is taken by the update that the state names, or the helper ends. *)
LEMMA TakeLockKeeps ==
  ASSUME PlatformTypes, PlatformSound, NEW n \in Updates, TakeLock(n), ~overlap'
  PROVE  PlatformSound'
<1> USE DEF PlatformSound
<1>1. updater[n].at = "lock" /\ Alive(n) /\ ~AtWork(n) /\ ~updater[n].known
      /\ ~updater[n].prepared
  BY DEF TakeLock, At, AtWork, Alive, HelpersSound
<1>2. UNCHANGED <<held, override, previous, plans, state, runs, supervisor, recovery>> /\ lock'
  BY DEF TakeLock
<1>3. /\ updater'[n].at = IF lock THEN "off" ELSE "read"
      /\ updater'[n].known = updater[n].known
      /\ updater'[n].prepared = updater[n].prepared
      /\ \A m \in Updates : m # n => updater'[m] = updater[m]
  BY HelperGoes DEF TakeLock, UpdaterSteps, PlatformTypes
<1>4. /\ Requesting => held.op.id \in Updates
      /\ Recovering => recovery.id \in Updates
  BY DEF PlatformTypes
<1>5. CASE lock
  <2>1. /\ \A m \in Updates : /\ AtWork(m)' <=> AtWork(m)
                              /\ InCourse(m)' <=> InCourse(m)
                              /\ Alive(m)' => Alive(m)
        /\ Blocked => Blocked'
    BY <1>1, <1>2, <1>3, <1>5
       DEF AtWork, InCourse, Alive, MidSteps, Blocked, Recovering
  <2>2. RequestsSound'
    BY <1>2, <1>4, <2>1 DEF RequestsSound, Recovering, Requesting, Unfinished
  <2>3. HelpersSound'
    BY <1>1, <1>2, <1>3, <1>5, <2>1 DEF HelpersSound, Recovering, Requesting, Unfinished
  <2>4. CoursesSound'
    <3> SUFFICES ASSUME NEW m \in Updates, InCourse(m)' PROVE CourseSound(m)'
      BY DEF CoursesSound
    <3>1. InCourse(m) /\ CourseSound(m) /\ m # n
      BY <1>1, <2>1 DEF CoursesSound, InCourse, MidSteps
    <3>2. updater'[m] = updater[m]
      BY <1>3, <3>1
    <3> QED
      BY <1>2, <3>1, <3>2 DEF CourseSound, Recovering, Requesting, Unfinished
  <2>5. RecoverySound'
    BY <1>2, <2>1 DEF RecoverySound, Changed, Unfinished
  <2>6. StateSound'
    BY <1>2, <2>1 DEF StateSound, Requesting, Unfinished
  <2> QED
    BY <2>2, <2>3, <2>4, <2>5, <2>6
<1>6. CASE ~lock
  <2>1. overlap' = (overlap \/ (~lock /\ (recovery.at # "off" \/ \E m \in Updates : AtWork(m))))
    BY DEF TakeLock
  <2>2. ~(overlap \/ (~lock /\ (recovery.at # "off" \/ \E m \in Updates : AtWork(m))))
    BY <2>1, Zenon
  <2>3. ~Recovering /\ ~Blocked /\ \A m \in Updates : ~AtWork(m)
    BY <1>6, <2>2 DEF Recovering, Blocked
  <2>4. state.op.stage \notin ChangedStages
    BY <1>6 DEF StateSound
  <2>5. n \in plans => state.op.id = n /\ Unfinished(state) /\ ~Requesting
    BY <1>1, <2>3 DEF HelpersSound
  <2>6. updater'[n].at = "read"
    BY <1>3, <1>6
  <2>7. \A m \in Updates : /\ m # n => ~AtWork(m)' /\ ~InCourse(m)'
                           /\ Alive(m)' <=> Alive(m)
    BY <1>1, <1>3, <2>3, <2>6 DEF AtWork, InCourse, Alive, MidSteps
  <2>8. RequestsSound'
    BY <1>2, <1>4, <2>3, <2>7 DEF RequestsSound, Recovering, Requesting, Unfinished
  <2>9. HelpersSound'
    BY <1>1, <1>2, <1>3, <2>3, <2>6, <2>7
       DEF HelpersSound, Recovering, Requesting, Unfinished
  <2>10. CoursesSound'
    <3>1. InCourse(n)' => CourseSound(n)'
      BY <1>2, <2>3, <2>5, <2>6
         DEF CourseSound, InCourse, MidSteps, Recovering, Requesting, Unfinished
    <3> QED
      BY <2>7, <3>1 DEF CoursesSound
  <2>11. RecoverySound'
    BY <1>2, <2>3 DEF RecoverySound, Recovering
  <2>12. StateSound'
    BY <1>2, <2>4 DEF StateSound, Requesting, Unfinished
  <2> QED
    BY <2>8, <2>9, <2>10, <2>11, <2>12
<1> QED
  BY <1>5, <1>6

(* A helper dies where it is. *)
LEMMA DeathKeeps ==
  ASSUME PlatformTypes, PlatformSound, NEW n \in Updates, UpdaterDies(n)
  PROVE  PlatformSound'
<1> USE DEF PlatformSound
<1>1. UNCHANGED <<held, override, previous, lock, plans, state, runs, supervisor, recovery>>
  BY DEF UpdaterDies, files
<1>2. /\ updater'[n].at = "off" /\ ~updater'[n].known /\ ~updater'[n].prepared
      /\ \A m \in Updates : m # n => updater'[m] = updater[m]
  BY NothingStarted DEF UpdaterDies, PlatformTypes
<1>3. /\ \A m \in Updates : /\ AtWork(m)' => AtWork(m)
                            /\ InCourse(m)' => InCourse(m) /\ m # n
                            /\ AtWork(m)' /\ InCourse(m) => InCourse(m)'
                            /\ Alive(m)' => Alive(m)
      /\ Blocked => Blocked'
  BY <1>1, <1>2 DEF AtWork, InCourse, Alive, MidSteps, Blocked, Recovering
<1>4. /\ Requesting => held.op.id \in Updates
      /\ Recovering => recovery.id \in Updates
  BY DEF PlatformTypes
<1>5. RequestsSound'
  BY <1>1, <1>3, <1>4 DEF RequestsSound, Recovering, Requesting, Unfinished
<1>6. HelpersSound'
  BY <1>1, <1>2, <1>3 DEF HelpersSound, Recovering, Requesting, Unfinished
<1>7. CoursesSound'
  <2> SUFFICES ASSUME NEW m \in Updates, InCourse(m)' PROVE CourseSound(m)'
    BY DEF CoursesSound
  <2>1. CourseSound(m) /\ updater'[m] = updater[m]
    BY <1>2, <1>3 DEF CoursesSound
  <2> QED
    BY <1>1, <2>1 DEF CourseSound, Recovering, Requesting, Unfinished
<1>8. RecoverySound'
  BY <1>1, <1>3 DEF RecoverySound, Changed, Unfinished
<1>9. StateSound'
  BY <1>1, <1>3 DEF StateSound, Requesting, Unfinished
<1> QED
  BY <1>5, <1>6, <1>7, <1>8, <1>9

(* The host restarts: nothing is at work any more. *)
LEMMA RestartKeeps ==
  ASSUME PlatformTypes, PlatformSound, HostRestarts
  PROVE  PlatformSound'
<1> USE DEF PlatformSound
<1>1. UNCHANGED <<held, override, previous, lock, plans, state, runs>> /\ supervisor' = "down"
  BY DEF HostRestarts, files
<1>2. recovery'.at = "off" /\ ~Recovering'
  BY NothingStarted DEF HostRestarts, Recovering
<1>3. \A m \in Updates : updater'[m].at = "off" /\ ~updater'[m].known /\ ~updater'[m].prepared
  BY NothingStarted DEF HostRestarts
<1>4. \A m \in Updates : ~AtWork(m)' /\ ~InCourse(m)' /\ ~Alive(m)'
  BY <1>3 DEF AtWork, InCourse, Alive, MidSteps
<1>5. RequestsSound'
  BY <1>1, <1>2, <1>4 DEF RequestsSound, Requesting
<1>6. HelpersSound'
  BY <1>3, <1>4 DEF HelpersSound
<1>7. CoursesSound'
  BY <1>4 DEF CoursesSound
<1>8. RecoverySound'
  BY <1>2 DEF RecoverySound
<1>9. StateSound'
  BY <1>1, <1>4 DEF StateSound, Requesting, Unfinished
<1> QED
  BY <1>5, <1>6, <1>7, <1>8, <1>9

(* A request is loaded, or refused. *)
LEMMA RequestKeeps ==
  ASSUME PlatformTypes, PlatformSound, RefuseRequest \/ \E n \in Updates : LoadRequest(n)
  PROVE  PlatformSound'
<1> USE DEF PlatformSound
<1>1. /\ UNCHANGED <<override, previous, lock, plans, state, runs, updater, recovery>>
      /\ supervisor \in {"serving", "checking"} /\ supervisor' \in {"serving", "checking"}
  BY DEF RefuseRequest, LoadRequest, files
<1>2. /\ \A m \in Updates : /\ AtWork(m)' <=> AtWork(m)
                            /\ InCourse(m)' <=> InCourse(m)
                            /\ Alive(m)' <=> Alive(m)
      /\ Blocked' <=> Blocked
  BY <1>1 DEF AtWork, InCourse, Alive, Blocked, Recovering
<1>3. CASE RefuseRequest
  <2>1. held' = held /\ supervisor' = "serving"
    BY <1>3 DEF RefuseRequest
  <2>2. RequestsSound'
    BY <1>1, <1>2, <1>3, <2>1
       DEF RequestsSound, Alive, Recovering, Requesting, RefuseRequest
  <2>3. HelpersSound'
    BY <1>1, <1>2, <2>1 DEF HelpersSound, Recovering, Requesting, Unfinished
  <2>4. CoursesSound'
    BY <1>1, <1>2, <2>1 DEF CoursesSound, CourseSound, Recovering, Requesting, Unfinished
  <2>5. RecoverySound'
    BY <1>1, <1>2, <2>1 DEF RecoverySound, Changed, Unfinished
  <2>6. StateSound'
    BY <1>1, <1>2, <2>1 DEF StateSound, Requesting, Unfinished
  <2> QED
    BY <2>2, <2>3, <2>4, <2>5, <2>6
<1>4. ASSUME NEW n \in Updates, LoadRequest(n) PROVE PlatformSound'
  <2>1. /\ supervisor' = "checking" /\ ~Unfinished(state) /\ n = held.op.id + 1 /\ ~Requesting
    BY <1>4 DEF LoadRequest, Requesting
  <2>2. held' = [state EXCEPT !.op = [id |-> n, status |-> "accepted", stage |-> "accepted"]]
    BY <1>4 DEF LoadRequest
  <2>3. /\ held'.op.id = n /\ held'.op.status = "accepted" /\ held'.op.stage = "accepted"
        /\ held'.images = state.images
    <3>1. state \in [current: Releases, images: BOOLEAN, op: Operation]
      BY StateRecords DEF PlatformTypes
    <3> QED
      BY <2>2, <3>1
  <2>4. /\ held.op.id \in Int /\ state.op.id \in Int /\ recovery.id \in Int
        /\ \A m \in Updates : m \in Int
    BY DEF PlatformTypes, SupervisorStates, Recovery, Updates
  <2>5. \A m \in Updates : m # n \/ (~Alive(m) /\ previous[m] = NoFile)
    BY <2>1, <2>4 DEF RequestsSound
  <2>6. ~Recovering \/ recovery.id # n
    BY <2>1, <2>4 DEF RequestsSound
  <2>7. RequestsSound'
    BY <1>1, <1>2, <2>1, <2>3, <2>4, <2>5, <2>6
       DEF RequestsSound, Alive, Recovering, Requesting, Unfinished
  <2>8. HelpersSound'
    BY <1>1, <1>2, <2>1 DEF HelpersSound, Recovering, Requesting, Unfinished
  <2>9. CoursesSound'
    BY <1>2, <2>1 DEF CoursesSound, CourseSound
  <2>10. RecoverySound'
    BY <1>1, <1>2, <2>1 DEF RecoverySound, Changed, Unfinished
  <2>11. StateSound'
    BY <1>1, <1>2, <2>1, <2>3 DEF StateSound, Requesting, Unfinished
  <2> QED
    BY <2>7, <2>8, <2>9, <2>10, <2>11
<1> QED
  BY <1>3, <1>4

(* The state that was loaded is saved with the new operation, and the plan. *)
LEMMA PlatformAcceptKeeps ==
  ASSUME PlatformTypes, PlatformSound, AcceptUpdate
  PROVE  PlatformSound'
<1> USE DEF PlatformSound
<1>1. /\ UNCHANGED <<held, override, previous, lock, runs, updater, recovery>>
      /\ state' = held /\ plans' = plans \cup {held.op.id}
      /\ supervisor = "checking" /\ supervisor' = "launching"
  BY DEF AcceptUpdate
<1>2. /\ held.op.id \in Updates /\ ~Alive(held.op.id) /\ previous[held.op.id] = NoFile
      /\ held.op.status = "accepted" /\ held.op.stage = "accepted"
      /\ ~Unfinished(state) /\ Unfinished(held)
      /\ Recovering => recovery.id # held.op.id
      /\ held.op.id \in Int
  BY <1>1 DEF RequestsSound, Requesting, Unfinished, PlatformTypes, Updates
<1>3. /\ \A m \in Updates : /\ AtWork(m)' <=> AtWork(m)
                            /\ Alive(m)' <=> Alive(m)
                            /\ Alive(m) => m # held.op.id
                            /\ InCourse(m)' <=> InCourse(m)
      /\ Blocked' <=> Blocked
  BY <1>1, <1>2 DEF AtWork, InCourse, Alive, Blocked, Recovering, MidSteps
<1>4. /\ \A m \in Updates : ~InCourse(m)
      /\ \A m \in Updates : updater[m].at = "lock" /\ m \in plans => Blocked
      /\ recovery.at \notin {"look", "restore", "up", "record"}
  BY <1>1, <1>2 DEF CoursesSound, CourseSound, HelpersSound, RecoverySound, Requesting
<1>5. RequestsSound'
  BY <1>1, <1>2, <1>3 DEF RequestsSound, Alive, Recovering, Requesting, Unfinished
<1>6. HelpersSound'
  BY <1>1, <1>2, <1>3, <1>4 DEF HelpersSound, Recovering, Alive
<1>7. CoursesSound'
  BY <1>3, <1>4 DEF CoursesSound
<1>8. RecoverySound'
  BY <1>1, <1>2, <1>3, <1>4 DEF RecoverySound, Changed, ChangedStages
<1>9. StateSound'
  BY <1>1, <1>2, <1>3 DEF StateSound, Requesting, ChangedStages
<1> QED
  BY <1>5, <1>6, <1>7, <1>8, <1>9

(* The helper is started, or the update fails, and its helper may run without a plan. *)
LEMMA LaunchKeeps ==
  ASSUME PlatformTypes, PlatformSound, LaunchHelper
  PROVE  PlatformSound'
<1> USE DEF PlatformSound
<1>1. /\ UNCHANGED <<held, override, previous, lock, runs, recovery>>
      /\ supervisor = "launching" /\ supervisor' = "serving" /\ Requesting /\ ~Requesting'
  BY DEF LaunchHelper, Requesting
<1>2. /\ held.op.id \in Updates /\ ~Alive(held.op.id)
      /\ held.op.status = "accepted" /\ held.op.stage = "accepted"
      /\ Recovering => recovery.id # held.op.id
      /\ held.op.id \in Int /\ held \in SupervisorStates
  BY <1>1 DEF RequestsSound, PlatformTypes, Updates
<1>3. /\ updater'[held.op.id].at \in {"off", "lock"}
      /\ ~updater'[held.op.id].known /\ ~updater'[held.op.id].prepared
      /\ \A m \in Updates : m # held.op.id => updater'[m] = updater[m]
  <2>1. /\ updater[held.op.id].at = "off" /\ ~updater[held.op.id].known
        /\ ~updater[held.op.id].prepared
    BY <1>2 DEF Alive, HelpersSound
  <2>2. CASE GoesTo(held.op.id, "lock")
    BY <1>2, <2>1, <2>2, HelperGoes DEF UpdaterSteps, PlatformTypes
  <2>3. CASE UNCHANGED updater
    BY <2>1, <2>3
  <2> QED
    BY <2>2, <2>3 DEF LaunchHelper
<1>4. /\ \A m \in Updates : ~InCourse(m)
      /\ \A m \in Updates : updater[m].at = "lock" /\ m \in plans => Blocked
  BY <1>1 DEF CoursesSound, CourseSound, HelpersSound
<1>5. plans' \subseteq plans
  BY DEF LaunchHelper
<1>6. /\ \A m \in Updates : /\ AtWork(m)' <=> AtWork(m)
                            /\ ~InCourse(m)'
                            /\ Alive(m)' => Alive(m) \/ m = held.op.id
      /\ Blocked' <=> Blocked
      /\ Recovering => ~Alive(recovery.id)' /\ recovery.id # held.op.id
  BY <1>1, <1>2, <1>3, <1>4, <1>5
     DEF AtWork, InCourse, Alive, Blocked, Recovering, MidSteps, RequestsSound, PlatformTypes
<1>7. recovery.at \notin {"look", "restore", "up", "record"}
  BY <1>1, <1>2 DEF RecoverySound, RequestsSound, Recovering, Blocked
<1>8. CASE GoesTo(held.op.id, "lock") /\ UNCHANGED <<plans, state>>
  <2>1. RequestsSound'
    BY <1>1, <1>2, <1>6, <1>8 DEF RequestsSound, Recovering, Unfinished
  <2>2. HelpersSound'
    <3>1. \A m \in Updates : updater'[m].at = "lock" /\ m \in plans' =>
              \/ state'.op.id = m /\ Unfinished(state)' /\ ~Requesting'
              \/ Blocked'
      BY <1>1, <1>3, <1>4, <1>6, <1>8 DEF RequestsSound, Unfinished
    <3> QED
      BY <1>1, <1>3, <1>6, <1>8, <3>1 DEF HelpersSound, Recovering, Unfinished
  <2>3. CoursesSound'
    BY <1>6 DEF CoursesSound
  <2>4. RecoverySound'
    BY <1>1, <1>6, <1>8 DEF RecoverySound, Changed, Unfinished
  <2>5. StateSound'
    BY <1>1, <1>4, <1>6, <1>8 DEF StateSound, Unfinished
  <2> QED
    BY <2>1, <2>2, <2>3, <2>4, <2>5
<1>9. CASE /\ plans' = plans \ {held.op.id}
           /\ state' = [held EXCEPT !.op.status = "failed", !.op.stage = "ended"]
  <2>1. /\ state'.op.id = held.op.id /\ state'.op.status = "failed"
        /\ state'.op.stage = "ended" /\ state'.images = held.images /\ ~Unfinished(state)'
    BY <1>2, <1>9 DEF SupervisorStates, Unfinished
  <2>2. RequestsSound'
    BY <1>1, <1>2, <1>6, <2>1 DEF RequestsSound, Recovering
  <2>3. HelpersSound'
    <3>1. \A m \in Updates : updater'[m].at = "lock" /\ m \in plans' => Blocked'
      BY <1>3, <1>4, <1>6, <1>9
    <3> QED
      BY <1>1, <1>3, <1>6, <2>1, <3>1 DEF HelpersSound, Recovering
  <2>4. CoursesSound'
    BY <1>6 DEF CoursesSound
  <2>5. RecoverySound'
    BY <1>1, <1>6, <1>7, <2>1 DEF RecoverySound, Changed, ChangedStages
  <2>6. StateSound'
    BY <1>1, <2>1 DEF StateSound, ChangedStages
  <2> QED
    BY <2>2, <2>3, <2>4, <2>5, <2>6
<1> QED
  BY <1>8, <1>9 DEF LaunchHelper

(* The Supervisor starts a recovery only of an update whose helper is gone. *)
LEMMA PlatformStartKeeps ==
  ASSUME PlatformTypes, PlatformSound, SupervisorStarts
  PROVE  PlatformSound'
<1> USE DEF PlatformSound
<1>1. /\ UNCHANGED <<held, override, previous, lock, plans, state, runs, updater>>
      /\ supervisor = "down" /\ supervisor' = "serving" /\ ~Requesting /\ ~Requesting'
      /\ Unfinished(state) => ~Blocked
  BY DEF SupervisorStarts, files, Requesting, Blocked
<1>2. \A m \in Updates : /\ AtWork(m)' <=> AtWork(m)
                         /\ InCourse(m)' <=> InCourse(m)
                         /\ Alive(m)' <=> Alive(m)
  BY <1>1 DEF AtWork, InCourse, Alive
<1>3. CASE Unfinished(state) /\ ~Alive(state.op.id) /\ recovery.at = "off"
  <2>1. recovery' = [NoRecovery EXCEPT !.at = "load", !.id = state.op.id]
    BY <1>3 DEF SupervisorStarts, StillUpdating
  <2>2. recovery'.at = "load" /\ recovery'.id = state.op.id
    BY <2>1, NothingStarted DEF Recovery
  <2>3. /\ \A m \in Updates : ~InCourse(m) /\ updater[m].at # "downgrade"
        /\ \A m \in Updates : ~(updater[m].at = "lock" /\ m \in plans)
    BY <1>1, <1>3
       DEF CoursesSound, CourseSound, HelpersSound, Alive, InCourse, MidSteps
  <2>4. RequestsSound'
    BY <1>1, <1>2, <1>3, <2>2 DEF RequestsSound, Alive, Recovering
  <2>5. HelpersSound'
    BY <1>1, <1>2, <2>3 DEF HelpersSound
  <2>6. CoursesSound'
    BY <1>2, <2>3 DEF CoursesSound
  <2>7. RecoverySound'
    BY <1>1, <2>2 DEF RecoverySound
  <2>8. StateSound'
    BY <1>1, <1>2, <2>3 DEF StateSound, Unfinished
  <2> QED
    BY <2>4, <2>5, <2>6, <2>7, <2>8
<1>4. CASE ~(Unfinished(state) /\ ~Alive(state.op.id) /\ recovery.at = "off")
  <2>1. recovery' = recovery
    BY <1>4 DEF SupervisorStarts, StillUpdating
  <2>2. RequestsSound'
    BY <1>1, <1>2, <2>1 DEF RequestsSound, Alive, Recovering, Unfinished
  <2>3. Blocked => Blocked'
    BY <1>1, <1>2, <2>1 DEF Blocked, Recovering, Unfinished
  <2>4. HelpersSound'
    BY <1>1, <1>2, <2>1, <2>3 DEF HelpersSound, Recovering, Unfinished
  <2>5. CoursesSound'
    BY <1>1, <1>2, <2>1 DEF CoursesSound, CourseSound, Recovering, Unfinished
  <2>6. RecoverySound'
    BY <1>1, <1>2, <2>1 DEF RecoverySound, Changed, Unfinished
  <2>7. StateSound'
    BY <1>1, <1>2, <2>1 DEF StateSound, Unfinished
  <2> QED
    BY <2>2, <2>4, <2>5, <2>6, <2>7
<1> QED
  BY <1>3, <1>4

(* While a recovery is at work, no helper is in its course. *)
LEMMA WhileRecovering ==
  ASSUME PlatformTypes, PlatformSound, Recovering
  PROVE  /\ ~Blocked /\ recovery.id \in Updates
         /\ \A m \in Updates : ~InCourse(m) /\ updater[m].at # "downgrade"
         /\ state.op.stage \in ChangedStages => lock /\ \A m \in Updates : ~AtWork(m)
         /\ recovery.at \in {"look", "restore", "up", "record"} =>
                /\ state = recovery.read /\ Unfinished(state) /\ ~Requesting
                /\ \A m \in Updates : ~(updater[m].at = "lock" /\ m \in plans)
<1> USE DEF PlatformSound
<1>1. ~Blocked /\ recovery.id \in Updates
  BY DEF Blocked, PlatformTypes
<1>2. \A m \in Updates : ~InCourse(m) /\ updater[m].at # "downgrade"
  BY DEF CoursesSound, CourseSound, HelpersSound
<1>3. state.op.stage \in ChangedStages => lock /\ \A m \in Updates : ~AtWork(m)
  BY <1>2 DEF StateSound
<1>4. ASSUME recovery.at \in {"look", "restore", "up", "record"}
      PROVE  /\ state = recovery.read /\ Unfinished(state) /\ ~Requesting
             /\ \A m \in Updates : ~(updater[m].at = "lock" /\ m \in plans)
  <2>1. state = recovery.read /\ Unfinished(state) /\ state.op.id = recovery.id
    BY <1>4 DEF RecoverySound
  <2>2. ~Requesting
    BY <1>1, <2>1 DEF RequestsSound, Requesting
  <2>3. \A m \in Updates : ~(updater[m].at = "lock" /\ m \in plans)
    BY <1>1, <2>1 DEF HelpersSound, RequestsSound, Alive
  <2> QED
    BY <2>1, <2>2, <2>3
<1> QED
  BY <1>1, <1>2, <1>3, <1>4

(* A step of the recovery that leaves the state alone. *)
LEMMA RecoveryStep ==
  ASSUME PlatformTypes, PlatformSound, Recovering,
         UNCHANGED <<held, state, updater>>, plans' \subseteq plans,
         supervisor' \in {supervisor, "down"},
         recovery'.at = "off" \/ recovery'.id = recovery.id,
         \A m \in Updates : previous'[m] \in {previous[m], NoFile}
  PROVE  /\ RequestsSound' /\ HelpersSound' /\ CoursesSound'
         /\ Requesting' => Requesting
         /\ \A m \in Updates : AtWork(m)' <=> AtWork(m)
         /\ \A m \in Updates : ~InCourse(m)'
<1> USE DEF PlatformSound
<1>1. /\ \A m \in Updates : /\ AtWork(m)' <=> AtWork(m)
                            /\ ~InCourse(m)'
                            /\ Alive(m)' <=> Alive(m)
      /\ ~Blocked /\ \A m \in Updates : updater[m].at # "downgrade"
      /\ Requesting' => Requesting /\ supervisor' = supervisor /\ held.op.id \in Updates
  BY WhileRecovering DEF AtWork, InCourse, Alive, MidSteps, Requesting, PlatformTypes
<1>2. RequestsSound'
  BY <1>1 DEF RequestsSound, Alive, Recovering, Requesting, Unfinished
<1>3. HelpersSound'
  BY <1>1 DEF HelpersSound, Unfinished
<1>4. CoursesSound'
  BY <1>1 DEF CoursesSound
<1> QED
  BY <1>1, <1>2, <1>3, <1>4

(* The recovery reads the state, or finds nothing to recover. *)
LEMMA RecoveryLoadsKeeps ==
  ASSUME PlatformTypes, PlatformSound, RecoveryLoads
  PROVE  PlatformSound'
<1> USE DEF PlatformSound
<1>1. recovery.at = "load" /\ Recovering
  BY DEF RecoveryLoads, RecoveryAt, Recovering
<1>2. UNCHANGED <<held, override, previous, lock, plans, state, runs, supervisor, updater>>
  BY DEF RecoveryLoads, files
<1>3. \/ recovery'.at = "off"
      \/ /\ recovery'.at = "look" /\ recovery'.id = recovery.id /\ recovery'.read = state
         /\ state.op.id = recovery.id /\ Unfinished(state)
  BY NothingStarted DEF RecoveryLoads, PlatformTypes, Recovery
<1>4. /\ RequestsSound' /\ HelpersSound' /\ CoursesSound' /\ (Requesting' => Requesting)
      /\ \A m \in Updates : AtWork(m)' <=> AtWork(m)
      /\ \A m \in Updates : ~InCourse(m)'
  BY <1>1, <1>2, <1>3, RecoveryStep
<1>5. RecoverySound'
  BY <1>1, <1>2, <1>3, <1>4, WhileRecovering
     DEF RecoverySound, StateSound, Changed, ChangedStages, Unfinished
<1>6. StateSound'
  BY <1>1, <1>2, <1>4, WhileRecovering DEF StateSound, Unfinished
<1> QED
  BY <1>4, <1>5, <1>6

(* It looks for a helper of the update. *)
LEMMA RecoveryLooksKeeps ==
  ASSUME PlatformTypes, PlatformSound, RecoveryLooks
  PROVE  PlatformSound'
<1> USE DEF PlatformSound
<1>1. recovery.at = "look" /\ Recovering
  BY DEF RecoveryLooks, RecoveryAt, Recovering
<1>2. UNCHANGED <<held, override, previous, lock, plans, state, runs, supervisor, updater>>
  BY DEF RecoveryLooks, files
<1>3. \/ recovery'.at = "off"
      \/ /\ recovery'.at = IF Changed THEN "restore" ELSE "record"
         /\ recovery'.id = recovery.id /\ recovery'.read = recovery.read
  BY NothingStarted DEF RecoveryLooks, PlatformTypes, Recovery
<1>4. /\ RequestsSound' /\ HelpersSound' /\ CoursesSound' /\ (Requesting' => Requesting)
      /\ \A m \in Updates : AtWork(m)' <=> AtWork(m)
      /\ \A m \in Updates : ~InCourse(m)'
  BY <1>1, <1>2, <1>3, RecoveryStep
<1>5. RecoverySound'
  BY <1>1, <1>2, <1>3, <1>4 DEF RecoverySound, Changed, Unfinished
<1>6. StateSound'
  BY <1>1, <1>2, <1>4, WhileRecovering DEF StateSound, Unfinished
<1> QED
  BY <1>4, <1>5, <1>6

(* The saved override comes back; without one only a source installation loses its own. *)
LEMMA RecoveryRestoresKeeps ==
  ASSUME PlatformTypes, PlatformSound, RecoveryRestores
  PROVE  PlatformSound'
<1> USE DEF PlatformSound
<1>1. recovery.at = "restore" /\ Recovering /\ recovery.id \in Updates
  BY DEF RecoveryRestores, RecoveryAt, Recovering, PlatformTypes
<1>2. UNCHANGED <<held, lock, plans, state, runs, supervisor, updater>>
  BY DEF RecoveryRestores
<1>3. /\ state = recovery.read /\ Unfinished(state) /\ ~Requesting /\ Changed
      /\ state.op.id = recovery.id
  BY <1>1, WhileRecovering DEF RecoverySound
<1>4. recovery'.at \in {"up", "failed"} /\ recovery'.id = recovery.id
      /\ recovery'.read = recovery.read
  <2>1. \A step \in PlatformRecoverySteps, had \in BOOLEAN :
            \/ RecoveryGoes(step) /\ had = recovery.had
            \/ recovery' = [recovery EXCEPT !.at = step, !.had = had]
            => recovery'.at = step /\ recovery'.id = recovery.id
               /\ recovery'.read = recovery.read
    BY RecoveryMoves DEF PlatformTypes
  <2>2. "up" \in PlatformRecoverySteps /\ "failed" \in PlatformRecoverySteps /\ recovery.had \in BOOLEAN
    BY DEF PlatformRecoverySteps, PlatformTypes, Recovery
  <2> QED
    BY <2>1, <2>2 DEF RecoveryRestores
<1>5. \A m \in Updates : previous'[m] \in {previous[m], NoFile}
  BY <1>1 DEF RecoveryRestores, PlatformTypes
<1>6. state.images => override' > 0
  BY <1>1, <1>3 DEF RecoveryRestores, SignedInstallation, StateSound
<1>7. /\ RequestsSound' /\ HelpersSound' /\ CoursesSound' /\ (Requesting' => Requesting)
      /\ \A m \in Updates : AtWork(m)' <=> AtWork(m)
      /\ \A m \in Updates : ~InCourse(m)'
  BY <1>1, <1>2, <1>4, <1>5, RecoveryStep
<1>8. RecoverySound'
  BY <1>1, <1>2, <1>3, <1>4, <1>6, <1>7 DEF RecoverySound, Changed
<1>9. StateSound'
  BY <1>1, <1>2, <1>3, <1>5, <1>6, <1>7, WhileRecovering DEF StateSound, Unfinished
<1> QED
  BY <1>7, <1>8, <1>9

(* The API and the web application are switched back. *)
LEMMA RecoverySwitchesKeeps ==
  ASSUME PlatformTypes, PlatformSound, RecoverySwitches
  PROVE  PlatformSound'
<1> USE DEF PlatformSound
<1>1. recovery.at = "up" /\ Recovering
  BY DEF RecoverySwitches, RecoveryAt, Recovering
<1>2. UNCHANGED <<held, override, previous, lock, plans, state, updater>>
  BY DEF RecoverySwitches, files
<1>3. supervisor' = supervisor
  <2>1. recovery.had \in BOOLEAN /\ {"api", "web"} \in SUBSET Services
    BY DEF PlatformTypes, Recovery, Services
  <2>2. Composed(recovery.had) \in Releases
    BY <2>1, ComposedRelease
  <2>3. CASE Up({"api", "web"}, Composed(recovery.had))
    BY <2>1, <2>2, <2>3, ComposeUp
  <2>4. CASE UpPartly({"api", "web"}, Composed(recovery.had))
    BY <2>1, <2>2, <2>4, ComposeUpPartly
  <2> QED
    BY <2>3, <2>4 DEF RecoverySwitches
<1>4. /\ state = recovery.read /\ Unfinished(state) /\ ~Requesting /\ Changed
  BY <1>1, WhileRecovering DEF RecoverySound
<1>5. recovery'.at \in {"record", "failed"} /\ recovery'.id = recovery.id
      /\ recovery'.read = recovery.read
  BY RecoveryMoves DEF RecoverySwitches, PlatformRecoverySteps, PlatformTypes, Recovery, RecoveryGoes
<1>6. /\ RequestsSound' /\ HelpersSound' /\ CoursesSound' /\ (Requesting' => Requesting)
      /\ \A m \in Updates : AtWork(m)' <=> AtWork(m)
      /\ \A m \in Updates : ~InCourse(m)'
  BY <1>1, <1>2, <1>3, <1>5, RecoveryStep
<1>7. RecoverySound'
  BY <1>1, <1>2, <1>3, <1>4, <1>5, <1>6 DEF RecoverySound, Changed, Unfinished
<1>8. StateSound'
  BY <1>1, <1>2, <1>4, <1>6, WhileRecovering DEF StateSound, Unfinished
<1> QED
  BY <1>6, <1>7, <1>8

(* The state is recorded; until then nobody else has touched it. *)
LEMMA RecoveryRecordsKeeps ==
  ASSUME PlatformTypes, PlatformSound, RecoveryRecords
  PROVE  PlatformSound'
<1> USE DEF PlatformSound
<1>1. recovery.at = "record" /\ Recovering
  BY DEF RecoveryRecords, RecoveryAt, Recovering
<1>2. UNCHANGED <<held, override, previous, lock, plans, runs, supervisor, updater>>
  BY DEF RecoveryRecords, files
<1>3. /\ state = recovery.read /\ Unfinished(state) /\ ~Requesting
      /\ ~Blocked /\ recovery.id \in Updates
      /\ \A m \in Updates : /\ ~InCourse(m) /\ updater[m].at # "downgrade"
                            /\ ~(updater[m].at = "lock" /\ m \in plans)
  BY <1>1, WhileRecovering
<1>4. /\ recovery'.id = recovery.id /\ recovery'.read = recovery.read
      /\ recovery'.at = IF recovery.read.op.stage = "supervisor" THEN "supervisor" ELSE "tidy"
  BY RecoveryMoves DEF RecoveryRecords, PlatformRecoverySteps, PlatformTypes, Recovery, RecoveryGoes
<1>5. /\ state'.op.id = state.op.id /\ state'.op.status \in {"failed", "rolled-back"}
      /\ state'.op.stage = "ended" /\ state'.images = state.images /\ ~Unfinished(state)'
  <2>1. recovery.read \in SupervisorStates
    BY DEF PlatformTypes, Recovery
  <2>2. PICK status \in {"failed", "rolled-back"} :
            state' = [recovery.read EXCEPT !.op.status = status, !.op.stage = "ended"]
    BY DEF RecoveryRecords
  <2> QED
    BY <1>3, <2>1, <2>2 DEF SupervisorStates, Unfinished
<1>6. /\ \A m \in Updates : /\ AtWork(m)' <=> AtWork(m)
                            /\ ~InCourse(m)'
      /\ ~Requesting'
  BY <1>2, <1>3 DEF AtWork, InCourse, Requesting
<1>7. RequestsSound'
  BY <1>1, <1>2, <1>4, <1>5, <1>6 DEF RequestsSound, Alive, Recovering, Requesting
<1>8. HelpersSound'
  BY <1>2, <1>3, <1>6 DEF HelpersSound
<1>9. CoursesSound'
  BY <1>6 DEF CoursesSound
<1>10. RecoverySound'
  BY <1>1, <1>2, <1>4, <1>5, <1>6 DEF RecoverySound, Changed, ChangedStages
<1>11. StateSound'
  BY <1>2, <1>5, <1>6 DEF StateSound, ChangedStages
<1> QED
  BY <1>7, <1>8, <1>9, <1>10, <1>11

(* The Supervisor is switched back after the state says that the update is over. *)
LEMMA RecoverySwitchesSupervisorKeeps ==
  ASSUME PlatformTypes, PlatformSound, RecoverySwitchesSupervisor
  PROVE  PlatformSound'
<1> USE DEF PlatformSound
<1>1. recovery.at = "supervisor" /\ Recovering /\ recovery.id \in Updates
  BY DEF RecoverySwitchesSupervisor, RecoveryAt, Recovering, PlatformTypes
<1>2. UNCHANGED <<held, override, previous, lock, plans, state, updater>>
  BY DEF RecoverySwitchesSupervisor, files
<1>3. \/ recovery'.at = "tidy" /\ supervisor' \in {supervisor, "down"}
      \/ recovery'.at = "failed" /\ supervisor' \in {supervisor, "down"}
  <2>1. \A step \in PlatformRecoverySteps : RecoveryGoes(step) => recovery'.at = step
    BY RecoveryMoves DEF PlatformTypes, Recovery
  <2>2. "tidy" \in PlatformRecoverySteps /\ "failed" \in PlatformRecoverySteps
    BY DEF PlatformRecoverySteps
  <2>3. \A b \in BOOLEAN : Composed(b) \in Releases
    BY ComposedRelease
  <2>4. Composed(previous[recovery.id] # NoFile) \in Releases
        /\ {"supervisor"} \in SUBSET Services
    BY <2>3 DEF Services
  <2>5. CASE Up({"supervisor"}, Composed(previous[recovery.id] # NoFile))
             /\ RecoveryGoes("tidy")
    BY <2>1, <2>2, <2>4, <2>5, ComposeUp
  <2>6. CASE UpPartly({"supervisor"}, Composed(previous[recovery.id] # NoFile))
             /\ RecoveryGoes("failed")
    BY <2>1, <2>2, <2>4, <2>6, ComposeUpPartly
  <2> QED
    BY <2>5, <2>6 DEF RecoverySwitchesSupervisor
<1>4. recovery'.id = recovery.id /\ recovery'.read = recovery.read
  BY RecoveryMoves
     DEF RecoverySwitchesSupervisor, PlatformRecoverySteps, PlatformTypes, Recovery, RecoveryGoes
<1>5. /\ RequestsSound' /\ HelpersSound' /\ CoursesSound' /\ (Requesting' => Requesting)
      /\ \A m \in Updates : AtWork(m)' <=> AtWork(m)
      /\ \A m \in Updates : ~InCourse(m)'
  BY <1>1, <1>2, <1>3, <1>4, RecoveryStep
<1>6. RecoverySound'
  BY <1>1, <1>2, <1>3, <1>4, <1>5 DEF RecoverySound, Changed
<1>7. state.op.status # "succeeded"
  BY <1>1 DEF RecoverySound
<1>8. StateSound'
  BY <1>1, <1>2, <1>5, <1>7, WhileRecovering DEF StateSound, Unfinished
<1> QED
  BY <1>5, <1>6, <1>8

(* The plan, the copy and the lock are removed. *)
LEMMA RecoveryTidiesKeeps ==
  ASSUME PlatformTypes, PlatformSound, RecoveryTidies
  PROVE  PlatformSound'
<1> USE DEF PlatformSound
<1>1. recovery.at = "tidy" /\ Recovering /\ recovery.id \in Updates
      /\ state.op.stage \notin ChangedStages
  BY DEF RecoveryTidies, RecoveryAt, Recovering, PlatformTypes, RecoverySound
<1>2. UNCHANGED <<held, override, state, runs, supervisor, updater>> /\ plans' \subseteq plans
  BY DEF RecoveryTidies
<1>3. recovery'.at = "off"
  BY NothingStarted DEF RecoveryTidies
<1>4. \A m \in Updates : previous'[m] \in {previous[m], NoFile}
  BY DEF RecoveryTidies, PlatformTypes
<1>5. /\ RequestsSound' /\ HelpersSound' /\ CoursesSound' /\ (Requesting' => Requesting)
  BY <1>1, <1>2, <1>3, <1>4, RecoveryStep
<1>6. RecoverySound'
  BY <1>3 DEF RecoverySound
<1>7. StateSound'
  BY <1>1, <1>2, <1>4, <1>5 DEF StateSound, Unfinished, PlatformTypes
<1> QED
  BY <1>5, <1>6, <1>7

(* A failed recovery leaves the lock, which then blocks every update. *)
LEMMA RecoveryFailsKeeps ==
  ASSUME PlatformTypes, PlatformSound, RecoveryFails
  PROVE  PlatformSound'
<1> USE DEF PlatformSound
<1>1. recovery.at = "failed" /\ Recovering
  BY DEF RecoveryFails, RecoveryAt, Recovering
<1>2. UNCHANGED <<held, override, previous, lock, plans, runs, supervisor, updater>>
  BY DEF RecoveryFails, files
<1>3. /\ recovery.read.op.id = recovery.id /\ (recovery.read.images => override > 0)
      /\ lock /\ \A m \in Updates : ~AtWork(m)
  BY <1>1 DEF RecoverySound
<1>4. recovery'.at = "off" /\ ~Recovering'
  BY NothingStarted DEF RecoveryFails, Recovering
<1>5. /\ state'.op.id = recovery.id /\ state'.op.status = "failed"
      /\ state'.op.stage = "ended" /\ state'.images = recovery.read.images
      /\ ~Unfinished(state)'
  <2>1. recovery.read \in SupervisorStates
    BY DEF PlatformTypes, Recovery
  <2> QED
    BY <1>3, <2>1 DEF RecoveryFails, SupervisorStates, Unfinished
<1>6. /\ Blocked'
      /\ \A m \in Updates : ~AtWork(m)' /\ ~InCourse(m)' /\ updater'[m].at # "downgrade"
  BY <1>2, <1>3, <1>4, <1>5 DEF Blocked, AtWork, InCourse, MidSteps
<1>7. RequestsSound'
  BY <1>1, <1>2, <1>4, <1>5, <1>6 DEF RequestsSound, Alive, Requesting
<1>8. HelpersSound'
  BY <1>2, <1>6 DEF HelpersSound
<1>9. CoursesSound'
  BY <1>6 DEF CoursesSound
<1>10. RecoverySound'
  BY <1>4 DEF RecoverySound, Recovering
<1>11. StateSound'
  BY <1>2, <1>3, <1>5 DEF StateSound, ChangedStages, Requesting
<1> QED
  BY <1>7, <1>8, <1>9, <1>10, <1>11

-----------------------------------------------------------------------------
(* PlatformUpdate: its theorems *)

(* Every step of an installation keeps the invariant. *)
LEMMA PlatformInvKept ==
  ASSUME PlatformInv, [PlatformNext]_platformVars
  PROVE  PlatformInv'
<1>1. PlatformTypes /\ PlatformTypes'
  BY PlatformTypesKept DEF PlatformInv
<1>2. SUFFICES ASSUME ~overlap' PROVE PlatformSound'
  BY <1>1 DEF PlatformInv
<1>3. ~overlap
  <2>1. CASE overlap' = overlap
    BY <1>2, <2>1
  <2>2. ASSUME NEW n \in Updates, TakeLock(n) PROVE ~overlap
    <3>1. overlap' = (overlap \/ (~lock /\ (recovery.at # "off" \/ \E m \in Updates : AtWork(m))))
      BY <2>2 DEF TakeLock
    <3> QED
      BY <1>2, <3>1, Zenon
  <2> QED
    BY <2>1, <2>2
       DEF PlatformNext, platformVars, LoadRequest, ReadPlan, Prepare, Pull, WriteOverride,
           MarkStage, SwitchService, AwaitService, FinishUpdate, RestoreOverride,
           RecordRollback, Downgrade, Tidy, UpdaterDies, RefuseRequest, AcceptUpdate,
           LaunchHelper, SupervisorStarts, RecoveryLoads, RecoveryLooks, RecoveryRestores,
           RecoverySwitches, RecoveryRecords, RecoverySwitchesSupervisor, RecoveryTidies,
           RecoveryFails, HostRestarts
<1>4. PlatformSound
  BY <1>3 DEF PlatformInv
<1>5. CASE UNCHANGED platformVars
  BY <1>4, <1>5
     DEF platformVars, PlatformSound, RequestsSound, HelpersSound, CoursesSound, CourseSound,
         RecoverySound, StateSound, Recovering, Requesting, Blocked, InCourse, AtWork, Alive,
         Unfinished, Changed
<1>6. ASSUME NEW n \in Updates,
             \/ LoadRequest(n) \/ TakeLock(n) \/ ReadPlan(n) \/ Prepare(n) \/ Pull(n)
             \/ WriteOverride(n) \/ MarkStage(n) \/ SwitchService(n) \/ AwaitService(n)
             \/ FinishUpdate(n) \/ RestoreOverride(n) \/ RecordRollback(n) \/ Downgrade(n)
             \/ Tidy(n) \/ UpdaterDies(n)
      PROVE  PlatformSound'
  <2>1. CASE LoadRequest(n)
    BY <1>1, <1>4, <2>1, RequestKeeps
  <2>2. CASE TakeLock(n)
    BY <1>1, <1>2, <1>4, <2>2, TakeLockKeeps
  <2>3. CASE ReadPlan(n)
    BY <1>1, <1>4, <2>3, CourseStarts, IdleSteps
  <2>4. CASE Prepare(n) \/ Pull(n) \/ WriteOverride(n) \/ MarkStage(n)
    BY <1>1, <1>4, <2>4, CoursePrepares, CoursePulls, CourseWrites, CourseMarks
  <2>5. CASE SwitchService(n) \/ AwaitService(n) \/ FinishUpdate(n)
    BY <1>1, <1>4, <2>5, CourseSwitches, CourseAwaits, CourseFinishes
  <2>6. CASE RestoreOverride(n) \/ RecordRollback(n)
    BY <1>1, <1>4, <2>6, CourseRestores, CourseRollsBack, IdleSteps
  <2>7. CASE Downgrade(n) \/ Tidy(n) \/ UpdaterDies(n)
    BY <1>1, <1>4, <2>7, DowngradeKeeps, TidyKeeps, DeathKeeps
  <2> QED
    BY <1>6, <2>1, <2>2, <2>3, <2>4, <2>5, <2>6, <2>7
<1>7. CASE RefuseRequest \/ AcceptUpdate \/ LaunchHelper \/ SupervisorStarts \/ HostRestarts
  BY <1>1, <1>4, <1>7, RequestKeeps, PlatformAcceptKeeps, LaunchKeeps, PlatformStartKeeps, RestartKeeps
<1>8. CASE RecoveryLoads \/ RecoveryLooks \/ RecoveryRestores \/ RecoverySwitches
  BY <1>1, <1>4, <1>8, RecoveryLoadsKeeps, RecoveryLooksKeeps, RecoveryRestoresKeeps,
     RecoverySwitchesKeeps
<1>9. CASE RecoveryRecords \/ RecoverySwitchesSupervisor \/ RecoveryTidies \/ RecoveryFails
  BY <1>1, <1>4, <1>9, RecoveryRecordsKeeps, RecoverySwitchesSupervisorKeeps,
     RecoveryTidiesKeeps, RecoveryFailsKeeps
<1> QED
  BY <1>5, <1>6, <1>7, <1>8, <1>9 DEF PlatformNext

(* The invariant holds at first: nothing has been requested. *)
LEMMA PlatformInvInit ==
  ASSUME PlatformInit
  PROVE  PlatformInv
<1>1. PlatformTypes
  BY PlatformTypesInit
<1>2. state.op = Fresh.op /\ ~state.images /\ state.op.status = "none" /\ state.op.id = 0
      /\ state.op.stage = "ended"
  <2>1. PICK release : state = [Fresh EXCEPT !.current = release]
    BY DEF PlatformInit
  <2>2. Fresh \in [current: Releases, images: BOOLEAN, op: Operation]
    BY NothingStarted, StateRecords
  <2>3. state.op = Fresh.op /\ state.images = Fresh.images
    BY <2>1, <2>2
  <2> QED
    BY <2>3, NothingStarted
<1>3. /\ \A m \in Updates : /\ updater[m].at = "off" /\ ~updater[m].known
                            /\ ~updater[m].prepared /\ previous[m] = NoFile
      /\ recovery.at = "off" /\ held.op.id = 0 /\ supervisor = "serving"
  BY NothingStarted DEF PlatformInit
<1>4. \A m \in Updates : ~AtWork(m) /\ ~InCourse(m) /\ ~Alive(m)
  BY <1>3 DEF AtWork, InCourse, Alive, MidSteps
<1>5. RequestsSound /\ HelpersSound
  BY <1>2, <1>3, <1>4 DEF RequestsSound, HelpersSound, Recovering, Requesting
<1>6. CoursesSound /\ RecoverySound
  BY <1>3, <1>4 DEF CoursesSound, RecoverySound
<1>7. StateSound
  BY <1>2, <1>3 DEF StateSound, ChangedStages, Requesting, Unfinished
<1> QED
  BY <1>1, <1>5, <1>6, <1>7 DEF PlatformInv, PlatformSound

(***************************************************************************)
(* The inductive invariant of PlatformUpdate, its types included.          *)
(***************************************************************************)
THEOREM PlatformInvariant == PlatformSpec => []PlatformInv
<1>1. PlatformInit => PlatformInv
  BY PlatformInvInit
<1>2. PlatformInv /\ [PlatformNext]_platformVars => PlatformInv'
  BY PlatformInvKept
<1> QED
  BY <1>1, <1>2, PTL DEF PlatformSpec

(***************************************************************************)
(* The files, the state and the processes of an installation are what the  *)
(* comments at the variables of PlatformUpdate say.                        *)
(***************************************************************************)
THEOREM PlatformTypeCorrect == PlatformSpec => []PlatformTypeOK
<1>1. PlatformInv => PlatformTypeOK
  BY DEF PlatformInv, PlatformTypes, PlatformTypeOK, Helper, Recovery, PlatformRecoverySteps
<1> QED
  BY <1>1, PlatformInvariant, PTL

(***************************************************************************)
(* Once an update is recorded as succeeded and nothing is at work, the     *)
(* override and the three services are those of its release, unless an     *)
(* update took the lock while a recovery or another helper was at work.    *)
(***************************************************************************)
THEOREM SuccessIsWhatRuns == PlatformSpec => []SucceededRunsRelease
<1>1. PlatformInv => SucceededRunsRelease
  BY DEF PlatformInv, PlatformSound, StateSound, SucceededRunsRelease
<1> QED
  BY <1>1, PlatformInvariant, PTL

(***************************************************************************)
(* No failure, crash or recovery leaves an installation that was updated   *)
(* once without an active release definition, with the same exception.     *)
(***************************************************************************)
THEOREM DefinitionIsKept == PlatformSpec => []ReleaseDefinitionSurvives
<1>1. PlatformInv => ReleaseDefinitionSurvives
  BY DEF PlatformInv, PlatformSound, StateSound, ReleaseDefinitionSurvives
<1> QED
  BY <1>1, PlatformInvariant, PTL

-----------------------------------------------------------------------------
(***************************************************************************)
(* PlatformUpdate: what a single trouble leaves.  Until the first failing  *)
(* command or crash an installation is Calm; between the first and the     *)
(* second it is Mending: what is still to be done will lead back.          *)
(***************************************************************************)
AllTroubles == commandFaults + hostCrashes

SwitchSteps == {"write", "stage", "up", "wait", "finish"}

\* The override, or its absence, means the release r.
Means(file, r) == IF file = NoFile THEN r = 0 ELSE file = r

\* Helper n has yet to write the override, or has been rolled back.
Untouched(n) == updater[n].at \notin {"stage", "up", "wait", "finish"}

\* The Supervisor restarts because helper n has replaced it.
Awaited(n) == updater[n].at = "wait" /\ updater[n].service = "supervisor"

\* The copy that helper n saved leads back to the state's release.
SavedBy(n) ==
    /\ updater[n].prepared
    /\ updater[n].had <=> previous[n] # NoFile
    /\ Means(previous[n], state.current)

CalmHelper(n) ==
    /\ updater[n].at # "downgrade"
    /\ updater[n].at \in {"restore", "record"} => ~updater[n].known
    /\ updater[n].at \in {"off", "lock", "read", "prepare"} => ~updater[n].prepared
    /\ updater[n].prepared \/ previous[n] = NoFile
    /\ updater[n].at \in MidSteps => updater[n].read.current = state.current
    /\ updater[n].at = "prepare" => (updater[n].had <=> override # NoFile)
    /\ updater[n].at \in {"pull"} \cup SwitchSteps => SavedBy(n)

Calm ==
    /\ ~Recovering
    /\ state.op.status # "rolled-back"
    /\ Requesting => held.current = state.current
    /\ supervisor = "down" => \E n \in Updates : Awaited(n)
    /\ state.op.stage \in ChangedStages => \E n \in Updates : updater[n].at \in SwitchSteps
    /\ (\A n \in Updates : Untouched(n)) =>
           Means(override, state.current) /\ \A s \in Services : runs[s] = state.current
    /\ \A n \in Updates : CalmHelper(n)

\* What helper n will make of the override leads back to the release r.
LeadsBack(n, file, r) == (updater[n].had => file = r) /\ (~updater[n].had => r = 0)

MendingHelper(n) ==
    /\ updater[n].at = "restore" /\ updater[n].known =>
           LeadsBack(n, IF updater[n].prepared THEN previous[n] ELSE override,
                     updater[n].read.current)
    /\ updater[n].at = "record" /\ updater[n].known =>
           LeadsBack(n, override, updater[n].read.current)
    /\ updater[n].at = "downgrade" /\ state.op.status = "rolled-back" =>
           LeadsBack(n, override, state.current)

\* A helper has died after it began to change something, and nothing has been recovered.
Abandoned ==
    /\ Unfinished(state) /\ state.op.stage \in ChangedStages
    /\ \A m \in Updates : ~InCourse(m)
    /\ recovery.at \in {"off", "load", "look", "restore"}

MendingRecovery ==
    /\ \/ recovery.at \in {"restore", "up", "supervisor"}
       \/ recovery.at = "record" /\ Changed
       \/ Abandoned
       => hostCrashes = 1
    /\ Abandoned => Means(previous[state.op.id], state.current)
    /\ recovery.at = "up" =>
           /\ recovery.had => override = recovery.read.current
           /\ ~recovery.had => recovery.read.current = 0
    /\ recovery.at = "record" /\ Changed =>
           \A s \in {"api", "web"} : runs[s] = recovery.read.current

BackAgain ==
    /\ runs["api"] = state.current /\ runs["web"] = state.current
    /\ hostCrashes = 0 => runs["supervisor"] = state.current

Mending ==
    /\ \A n \in Updates : MendingHelper(n)
    /\ MendingRecovery
    /\ state.op.status = "rolled-back" /\ (\A n \in Updates : updater[n].at # "downgrade") =>
           BackAgain

TroubleInv ==
    ~overlap =>
        /\ AllTroubles = 0 => Calm
        /\ AllTroubles = 1 => Mending
-----------------------------------------------------------------------------
(* A file that means a release, whatever Compose is told to run. *)
LEMMA MeansComposed ==
  ASSUME PlatformTypes, NEW r \in Releases
  PROVE  /\ Means(override, r) => Composed(TRUE) = r
         /\ \A had \in BOOLEAN : (had => override = r) /\ (~had => r = 0) => Composed(had) = r
         /\ r # NoFile
  BY UpdateNumbers, PlatformUpdatesAssumption DEF Means, Composed, Releases, NoFile

\* A step brings no trouble, a failing command or a crash.
TroubleCounts ==
    \/ UNCHANGED <<commandFaults, hostCrashes>>
    \/ CommandFails /\ hostCrashes' = hostCrashes
    \/ HostCrashes /\ commandFaults' = commandFaults

(* AllTroubles are counted: a step brings one more at most. *)
LEMMA TroublesGrow ==
  ASSUME PlatformTypes, [PlatformNext]_platformVars
  PROVE  /\ AllTroubles \in Nat /\ commandFaults \in Nat /\ hostCrashes \in Nat
         /\ \/ AllTroubles' = AllTroubles /\ UNCHANGED <<commandFaults, hostCrashes>>
            \/ AllTroubles' = AllTroubles + 1 /\ CommandFails /\ hostCrashes' = hostCrashes
            \/ AllTroubles' = AllTroubles + 1 /\ HostCrashes /\ commandFaults' = commandFaults
<1>1. commandFaults \in Nat /\ hostCrashes \in Nat
  BY PlatformUpdatesAssumption DEF PlatformTypes
<1>2. TroubleCounts
  <2>1. ASSUME NEW n \in Updates,
               \/ LoadRequest(n) \/ TakeLock(n) \/ ReadPlan(n) \/ Prepare(n) \/ Pull(n)
               \/ WriteOverride(n) \/ MarkStage(n) \/ SwitchService(n) \/ AwaitService(n)
               \/ FinishUpdate(n) \/ RestoreOverride(n) \/ RecordRollback(n) \/ Downgrade(n)
               \/ Tidy(n) \/ UpdaterDies(n)
        PROVE  TroubleCounts
    BY <2>1 DEF TroubleCounts, LoadRequest, TakeLock, ReadPlan, Prepare, Pull, WriteOverride,
                MarkStage, SwitchService, AwaitService, FinishUpdate, RestoreOverride,
                RecordRollback, Downgrade, Tidy, UpdaterDies
  <2>2. CASE RefuseRequest \/ AcceptUpdate \/ LaunchHelper \/ SupervisorStarts \/ HostRestarts
    BY <2>2 DEF TroubleCounts, RefuseRequest, AcceptUpdate, LaunchHelper, SupervisorStarts,
                HostRestarts
  <2>3. CASE \/ RecoveryLoads \/ RecoveryLooks \/ RecoveryRestores \/ RecoverySwitches
             \/ RecoveryRecords \/ RecoverySwitchesSupervisor \/ RecoveryTidies
             \/ RecoveryFails
    BY <2>3 DEF TroubleCounts, RecoveryLoads, RecoveryLooks, RecoveryRestores, RecoverySwitches,
                RecoveryRecords, RecoverySwitchesSupervisor, RecoveryTidies, RecoveryFails
  <2>4. CASE UNCHANGED platformVars
    BY <2>4 DEF TroubleCounts, platformVars
  <2> QED
    BY <2>1, <2>2, <2>3, <2>4 DEF PlatformNext
<1> QED
  BY <1>1, <1>2 DEF TroubleCounts, AllTroubles, CommandFails, HostCrashes

(* While a helper is at work on a calm host, the others rest, and it alone is behind what is    *)
(* not settled.                                                                                *)
LEMMA CalmAtWork ==
  ASSUME PlatformTypes, PlatformSound, Calm, NEW n \in Updates, AtWork(n)
  PROVE  /\ \A m \in Updates : m # n =>
              /\ updater[m].at \in {"off", "lock"} /\ ~updater[m].prepared
              /\ previous[m] = NoFile
         /\ supervisor = "down" => Awaited(n)
         /\ state.op.stage \in ChangedStages => updater[n].at \in SwitchSteps
         /\ Untouched(n) => Means(override, state.current)
                            /\ \A s \in Services : runs[s] = state.current
         /\ CalmHelper(n)
<1>1. \A m \in Updates : m # n => updater[m].at \in {"off", "lock"}
  BY DEF PlatformSound, HelpersSound, AtWork
<1>2. \A m \in Updates : m # n => ~updater[m].prepared /\ previous[m] = NoFile
  BY <1>1 DEF Calm, CalmHelper
<1>3. \A m \in Updates : m # n => updater[m].at \notin SwitchSteps /\ Untouched(m)
  BY <1>1 DEF SwitchSteps, Untouched
<1> QED
  BY <1>1, <1>2, <1>3 DEF Calm, SwitchSteps, Awaited

(* A step of the helper at work that leaves the host calm. *)
LEMMA CalmStep ==
  ASSUME PlatformTypes, PlatformSound, Calm, NEW n \in Updates, AtWork(n),
         \A m \in Updates : m # n => updater'[m] = updater[m] /\ previous'[m] = previous[m],
         recovery' = recovery, state'.op.status # "rolled-back",
         Requesting' => held'.current = state'.current,
         supervisor' = "down" => Awaited(n)',
         state'.op.stage \in ChangedStages => updater'[n].at \in SwitchSteps,
         Untouched(n)' => /\ Means(override, state.current)'
                          /\ \A s \in Services : runs'[s] = state'.current,
         CalmHelper(n)'
  PROVE  Calm'
<1>1. ~Recovering'
  BY DEF Calm, Recovering
<1>2. ASSUME NEW m \in Updates, m # n PROVE CalmHelper(m)'
  <2>1. updater'[m].at \in {"off", "lock"} /\ ~updater'[m].prepared /\ previous'[m] = NoFile
    BY <1>2, CalmAtWork
  <2> QED
    BY <2>1 DEF CalmHelper, MidSteps, SwitchSteps
<1> QED
  BY <1>1, <1>2 DEF Calm

-----------------------------------------------------------------------------
(* No trouble yet: the steps keep the host calm. *)

\* A step that brings no trouble.
Untroubled == UNCHANGED <<commandFaults, hostCrashes>>

(* A helper whose plan is gone has nothing to put back. *)
LEMMA PlanLost ==
  ASSUME PlatformTypes, NEW n \in Updates, ReadPlan(n), ~InCourse(n)
  PROVE  /\ updater'[n].at = "restore" /\ ~updater'[n].known
         /\ updater'[n].prepared = updater[n].prepared
         /\ \A m \in Updates : m # n => updater'[m] = updater[m]
         /\ UNCHANGED <<held, override, previous, plans, state, runs, supervisor, recovery>>
<1>1. updater[n].at = "read" /\ n \notin plans
  BY DEF ReadPlan, At, InCourse
<1>2. PICK new : /\ new = [updater[n] EXCEPT !.at = "restore", !.read = state,
                                             !.known = n \in plans]
                 /\ updater' = [updater EXCEPT ![n] = new]
  BY <1>1 DEF ReadPlan
<1>3. (n \in plans) = FALSE
  BY <1>1
<1>4. new = [updater[n] EXCEPT !.at = "restore", !.read = state, !.known = FALSE]
  BY <1>2, <1>3, Zenon
<1>5. new.at = "restore" /\ ~new.known /\ new.prepared = updater[n].prepared
  BY <1>4 DEF PlatformTypes, Helper
<1>6. updater'[n] = new /\ \A m \in Updates : m # n => updater'[m] = updater[m]
  BY <1>2 DEF PlatformTypes
<1> QED
  BY <1>1, <1>5, <1>6 DEF ReadPlan, files

(* A helper that does the state's update reads its plan. *)
LEMMA CalmStarts ==
  ASSUME PlatformTypes, PlatformSound, Calm, NEW n \in Updates, ReadPlan(n)
  PROVE  Calm'
<1>1. /\ AtWork(n) /\ updater[n].at = "read" /\ updater \in [Updates -> Helper]
      /\ updater[n] \in Helper
  BY DEF ReadPlan, At, AtWork, PlatformTypes
<1>2. /\ CalmHelper(n) /\ Untouched(n) /\ supervisor # "down"
      /\ state.op.stage \notin ChangedStages
      /\ Means(override, state.current) /\ \A s \in Services : runs[s] = state.current
  BY <1>1, CalmAtWork DEF Untouched, SwitchSteps, Awaited
<1>3. previous[n] = NoFile /\ ~updater[n].prepared /\ ~updater[n].known
  BY <1>1, <1>2 DEF CalmHelper, PlatformSound, HelpersSound
<1>4. UNCHANGED <<held, override, previous, lock, plans, runs, supervisor, recovery>>
  BY DEF ReadPlan, files
<1>5. CASE n \in plans /\ state.op.id = n
  <2>1. PICK new : /\ new = [updater[n] EXCEPT !.at = "prepare", !.had = override # NoFile,
                                               !.read = state, !.known = TRUE]
                   /\ updater' = [updater EXCEPT ![n] = new]
    BY <1>5 DEF ReadPlan
  <2>2. /\ new.at = "prepare" /\ (new.had <=> override # NoFile) /\ new.read = state
        /\ new.prepared = updater[n].prepared
    BY <1>1, <2>1 DEF Helper
  <2>3. updater'[n] = new /\ \A m \in Updates : m # n => updater'[m] = updater[m]
    BY <1>1, <2>1
  <2>4. state' = [state EXCEPT !.op.status = "running", !.op.stage = "early"]
    BY <1>5 DEF ReadPlan
  <2>5. /\ state'.op.status = "running" /\ state'.op.stage = "early"
        /\ state'.current = state.current
    BY <2>4 DEF PlatformTypes, SupervisorStates
  <2>6. InCourse(n)
    BY <1>1, <1>5 DEF InCourse
  <2>7. ~Requesting'
    BY <1>4, <2>6 DEF PlatformSound, CoursesSound, CourseSound, Requesting
  <2>8. CalmHelper(n)'
    BY <1>2, <1>3, <1>4, <2>2, <2>3, <2>5 DEF CalmHelper, MidSteps, SwitchSteps
  <2> QED
    BY <1>1, <1>2, <1>4, <2>2, <2>3, <2>5, <2>7, <2>8, CalmStep DEF ChangedStages
<1>6. CASE ~InCourse(n)
  <2>1. /\ updater'[n].at = "restore" /\ ~updater'[n].known
        /\ updater'[n].prepared = updater[n].prepared /\ state' = state
        /\ \A m \in Updates : m # n => updater'[m] = updater[m]
    BY <1>6, PlanLost
  <2>2. CalmHelper(n)'
    BY <1>3, <1>4, <2>1 DEF CalmHelper, MidSteps, SwitchSteps
  <2>3. state'.op.status # "rolled-back" /\ (Requesting' => held'.current = state'.current)
    BY <1>4, <2>1 DEF Calm, Requesting
  <2> QED
    BY <1>1, <1>2, <1>4, <2>1, <2>2, <2>3, CalmStep
<1>7. InCourse(n) => n \in plans /\ state.op.id = n
  BY <1>1 DEF InCourse, MidSteps, PlatformSound, CoursesSound, CourseSound
<1> QED
  BY <1>5, <1>6, <1>7

(* The steps of the course up to the first service.  What it saves leads back. *)
LEMMA CalmPrepares ==
  ASSUME PlatformTypes, PlatformSound, Calm, NEW n \in Updates, Untroubled,
         Prepare(n) \/ Pull(n) \/ WriteOverride(n) \/ MarkStage(n)
  PROVE  Calm'
<1>1. /\ updater[n].at \in {"prepare", "pull", "write", "stage"}
      /\ updater \in [Updates -> Helper] /\ updater[n] \in Helper
  BY DEF Prepare, Pull, WriteOverride, MarkStage, At, PlatformTypes
<1>2. AtWork(n) /\ InCourse(n) /\ supervisor # "down"
  BY <1>1, CalmAtWork DEF AtWork, InCourse, MidSteps, Awaited
<1>3. /\ CalmHelper(n) /\ updater[n].read.current = state.current
      /\ state.op.stage \in ChangedStages => updater[n].at \in SwitchSteps
  BY <1>1, <1>2, CalmAtWork DEF CalmHelper, MidSteps
<1>4. ~Requesting /\ state.op.status # "rolled-back"
  BY <1>2 DEF PlatformSound, CoursesSound, CourseSound, Calm
<1>5. UNCHANGED <<held, runs, supervisor, recovery>>
  BY DEF Prepare, Pull, WriteOverride, MarkStage, files
<1>6. commandFaults' # commandFaults + 1
  BY PlatformUpdatesAssumption DEF Untroubled, PlatformTypes
<1>7. CASE Prepare(n)
  <2>1. /\ updater[n].at = "prepare" /\ UNCHANGED <<override, state>>
        /\ updater' = [updater EXCEPT ![n] = [@ EXCEPT !.at = "pull", !.prepared = TRUE]]
        /\ previous' = [previous EXCEPT ![n] = IF updater[n].had THEN override ELSE @]
    BY <1>6, <1>7 DEF Prepare, At, CommandFails
  <2>2. PICK new : /\ new = [updater[n] EXCEPT !.at = "pull", !.prepared = TRUE]
                   /\ updater' = [updater EXCEPT ![n] = new]
    BY <2>1
  <2>3. /\ new.at = "pull" /\ new.prepared /\ new.had = updater[n].had
        /\ new.read = updater[n].read
    BY <1>1, <2>2 DEF Helper
  <2>4. updater'[n] = new /\ \A m \in Updates : m # n => updater'[m] = updater[m]
    BY <1>1, <2>2
  <2>5. /\ previous'[n] = (IF updater[n].had THEN override ELSE previous[n])
        /\ \A m \in Updates : m # n => previous'[m] = previous[m]
    BY <2>1 DEF PlatformTypes
  <2>6. /\ Means(override, state.current) /\ \A s \in Services : runs[s] = state.current
        /\ updater[n].had <=> override # NoFile
        /\ previous[n] = NoFile
    BY <1>2, <1>3, <2>1, CalmAtWork DEF Untouched, CalmHelper
  <2>7. SavedBy(n)'
    BY <2>1, <2>3, <2>4, <2>5, <2>6 DEF SavedBy, Means
  <2>8. CalmHelper(n)'
    BY <1>3, <2>1, <2>3, <2>4, <2>7 DEF CalmHelper, MidSteps, SwitchSteps
  <2>9. state'.op.stage \notin ChangedStages
    BY <1>3, <2>1 DEF SwitchSteps
  <2> QED
    BY <1>2, <1>4, <1>5, <2>1, <2>4, <2>5, <2>6, <2>8, <2>9, CalmStep DEF Requesting
<1>8. CASE Pull(n)
  <2>1. /\ updater[n].at = "pull" /\ GoesTo(n, "write") /\ SaveStage(n, "switching")
        /\ UNCHANGED <<override, previous>>
    BY <1>6, <1>8 DEF Pull, At, CommandFails, files
  <2>2. /\ updater'[n].at = "write" /\ updater'[n].had = updater[n].had
        /\ updater'[n].prepared = updater[n].prepared /\ updater'[n].read = updater[n].read
        /\ \A m \in Updates : m # n => updater'[m] = updater[m]
    BY <1>1, <2>1, HelperGoes DEF UpdaterSteps
  <2>3. state'.op.status = "running" /\ state'.current = state.current
    BY <2>1, StageSaved DEF Stages
  <2>4. SavedBy(n)'
    BY <1>3, <2>1, <2>2, <2>3 DEF SavedBy, CalmHelper
  <2>5. CalmHelper(n)'
    BY <1>3, <2>2, <2>3, <2>4 DEF CalmHelper, MidSteps, SavedBy
  <2>6. Means(override, state.current) /\ \A s \in Services : runs[s] = state.current
    BY <1>2, <2>1, CalmAtWork DEF Untouched
  <2> QED
    BY <1>2, <1>4, <1>5, <2>1, <2>2, <2>3, <2>5, <2>6, CalmStep DEF Requesting, SwitchSteps
<1>9. CASE WriteOverride(n)
  <2>1. PICK new : /\ new = [updater[n] EXCEPT !.at = "stage", !.service = "api"]
                   /\ updater' = [updater EXCEPT ![n] = new]
    BY <1>9 DEF WriteOverride
  <2>2. /\ new.at = "stage" /\ new.had = updater[n].had
        /\ new.prepared = updater[n].prepared /\ new.read = updater[n].read
    BY <1>1, <2>1 DEF Helper
  <2>3. updater'[n] = new /\ \A m \in Updates : m # n => updater'[m] = updater[m]
    BY <1>1, <2>1
  <2>4. updater[n].at = "write" /\ UNCHANGED <<previous, state>>
    BY <1>9 DEF WriteOverride, At
  <2>5. SavedBy(n)'
    BY <1>3, <2>2, <2>3, <2>4 DEF SavedBy, CalmHelper, SwitchSteps
  <2>6. CalmHelper(n)' /\ ~Untouched(n)'
    BY <1>3, <2>2, <2>3, <2>4, <2>5 DEF CalmHelper, MidSteps, SavedBy, Untouched
  <2> QED
    BY <1>2, <1>4, <1>5, <2>2, <2>3, <2>4, <2>6, CalmStep DEF Requesting, SwitchSteps
<1>10. CASE MarkStage(n)
  <2>1. /\ updater[n].at = "stage" /\ GoesTo(n, "up") /\ SaveStage(n, updater[n].service)
        /\ UNCHANGED <<override, previous>>
    BY <1>10 DEF MarkStage, At, files
  <2>2. /\ updater'[n].at = "up" /\ updater'[n].had = updater[n].had
        /\ updater'[n].prepared = updater[n].prepared /\ updater'[n].read = updater[n].read
        /\ \A m \in Updates : m # n => updater'[m] = updater[m]
    BY <1>1, <2>1, HelperGoes DEF UpdaterSteps
  <2>3. state'.op.status = "running" /\ state'.current = state.current
    BY <1>1, <2>1, StageSaved DEF Stages, Helper, Services
  <2>4. SavedBy(n)'
    BY <1>3, <2>1, <2>2, <2>3 DEF SavedBy, CalmHelper, SwitchSteps
  <2>5. CalmHelper(n)' /\ ~Untouched(n)'
    BY <1>3, <2>2, <2>3, <2>4 DEF CalmHelper, MidSteps, SavedBy, Untouched
  <2> QED
    BY <1>2, <1>4, <1>5, <2>1, <2>2, <2>3, <2>5, CalmStep DEF Requesting, SwitchSteps
<1> QED
  BY <1>7, <1>8, <1>9, <1>10

(* The services are switched and awaited one by one, and the update succeeds. *)
LEMMA CalmSwitches ==
  ASSUME PlatformTypes, PlatformSound, Calm, NEW n \in Updates, Untroubled,
         SwitchService(n) \/ AwaitService(n) \/ FinishUpdate(n)
  PROVE  Calm'
<1>1. /\ updater[n].at \in {"up", "wait", "finish"} /\ updater[n].at \in MidSteps
      /\ updater \in [Updates -> Helper] /\ updater[n] \in Helper
      /\ updater[n].service \in Services
  BY DEF SwitchService, AwaitService, FinishUpdate, At, PlatformTypes, Helper, MidSteps
<1>2. AtWork(n) /\ InCourse(n)
  BY <1>1 DEF AtWork, InCourse
<1>3. /\ CalmHelper(n) /\ SavedBy(n) /\ updater[n].read.current = state.current
      /\ supervisor = "down" => Awaited(n)
  BY <1>1, <1>2, CalmAtWork DEF CalmHelper, SwitchSteps
<1>4. ~Requesting /\ state.op.status # "rolled-back" /\ CourseSound(n)
  BY <1>2 DEF PlatformSound, CoursesSound, CourseSound, Calm
<1>5. UNCHANGED <<held, previous, override, recovery>>
  BY DEF SwitchService, AwaitService, FinishUpdate, files
<1>6. commandFaults' # commandFaults + 1
  BY PlatformUpdatesAssumption DEF Untroubled, PlatformTypes
<1>7. CASE SwitchService(n)
  <2>1. /\ updater[n].at = "up" /\ UNCHANGED state /\ GoesTo(n, "wait")
        /\ Up({updater[n].service}, Composed(TRUE))
    BY <1>6, <1>7 DEF SwitchService, At, CommandFails
  <2>2. /\ updater'[n].at = "wait" /\ updater'[n].had = updater[n].had
        /\ updater'[n].prepared = updater[n].prepared /\ updater'[n].read = updater[n].read
        /\ \A m \in Updates : m # n => updater'[m] = updater[m]
    BY <1>1, <2>1, HelperGoes DEF UpdaterSteps
  <2>3. SavedBy(n)'
    BY <1>3, <1>5, <2>1, <2>2 DEF SavedBy
  <2>4. CalmHelper(n)' /\ ~Untouched(n)'
    BY <1>3, <2>1, <2>2, <2>3 DEF CalmHelper, MidSteps, SavedBy, Untouched
  <2>5. ~Requesting'
    BY <1>4, <2>1 DEF Up, Requesting
  <2>6. supervisor # "down"
    BY <1>3, <2>1 DEF Awaited
  <2>7. supervisor' = "down" => updater[n].service = "supervisor"
    BY <2>1, <2>6 DEF Up, Services
  <2>8. updater'[n].service = updater[n].service
    BY <1>1, <2>1, HelperGoes DEF UpdaterSteps
  <2> QED
    BY <1>2, <1>4, <1>5, <2>1, <2>2, <2>4, <2>5, <2>7, <2>8, CalmStep DEF SwitchSteps, Awaited
<1>8. CASE AwaitService(n)
  <2>1. /\ updater[n].at = "wait" /\ UNCHANGED <<state, supervisor, runs>>
        /\ updater[n].service = "supervisor" => supervisor # "down"
    BY <1>6, <1>8 DEF AwaitService, At, CommandFails, Healthy
  <2>2. /\ updater'[n].at \in {"stage", "finish"} /\ updater'[n].had = updater[n].had
        /\ updater'[n].prepared = updater[n].prepared /\ updater'[n].read = updater[n].read
        /\ \A m \in Updates : m # n => updater'[m] = updater[m]
    <3>1. CASE updater[n].service = "supervisor"
      <4>1. GoesTo(n, "finish")
        BY <1>6, <1>8, <3>1 DEF AwaitService, CommandFails
      <4> QED
        BY <1>1, <4>1, HelperGoes DEF UpdaterSteps
    <3>2. CASE updater[n].service # "supervisor"
      <4>1. PICK new : /\ new = [updater[n] EXCEPT !.at = "stage",
                                       !.service = NextService(updater[n].service)]
                       /\ updater' = [updater EXCEPT ![n] = new]
        BY <1>6, <1>8, <3>2 DEF AwaitService, CommandFails
      <4>2. /\ new.at = "stage" /\ new.had = updater[n].had
            /\ new.prepared = updater[n].prepared /\ new.read = updater[n].read
        BY <1>1, <4>1 DEF Helper
      <4>3. updater'[n] = new /\ \A m \in Updates : m # n => updater'[m] = updater[m]
        BY <1>1, <4>1
      <4> QED
        BY <4>2, <4>3
    <3> QED
      BY <3>1, <3>2
  <2>3. supervisor # "down"
    BY <1>3, <2>1 DEF Awaited
  <2>4. SavedBy(n)'
    BY <1>3, <1>5, <2>1, <2>2 DEF SavedBy
  <2>5. CalmHelper(n)' /\ ~Untouched(n)'
    BY <1>3, <2>1, <2>2, <2>4 DEF CalmHelper, MidSteps, SavedBy, Untouched
  <2> QED
    BY <1>2, <1>4, <1>5, <2>1, <2>2, <2>3, <2>5, CalmStep DEF SwitchSteps, Requesting
<1>9. CASE FinishUpdate(n)
  <2>1. /\ updater[n].at = "finish" /\ GoesTo(n, "tidy") /\ UNCHANGED <<supervisor, runs>>
        /\ state'.op.stage = "ended" /\ state'.op.status = "succeeded"
        /\ state'.current = n + 1
    BY <1>9 DEF FinishUpdate, At
  <2>2. /\ updater'[n].at = "tidy" /\ updater'[n].prepared = updater[n].prepared
        /\ \A m \in Updates : m # n => updater'[m] = updater[m]
    BY <1>1, <2>1, HelperGoes DEF UpdaterSteps
  <2>3. override = n + 1 /\ \A s \in Services : runs[s] = n + 1
    BY <1>4, <2>1 DEF CourseSound
  <2>4. Means(override, state.current)'
    BY <1>5, <2>1, <2>3, UpdateNumbers DEF Means
  <2>5. CalmHelper(n)'
    BY <1>3, <1>5, <2>2 DEF CalmHelper, MidSteps, SwitchSteps, SavedBy
  <2>6. supervisor # "down"
    BY <1>3, <2>1 DEF Awaited
  <2> QED
    BY <1>2, <1>4, <1>5, <2>1, <2>2, <2>3, <2>4, <2>5, <2>6, CalmStep
       DEF ChangedStages, Requesting
<1> QED
  BY <1>7, <1>8, <1>9

(* A helper takes the lock or gives way, has nothing to put back or to record, or tidies up. *)
LEMMA CalmAside ==
  ASSUME PlatformTypes, PlatformSound, Calm, NEW n \in Updates,
         TakeLock(n) \/ RestoreOverride(n) \/ RecordRollback(n) \/ Tidy(n)
  PROVE  Calm'
<1>1. updater \in [Updates -> Helper] /\ updater[n] \in Helper
  BY DEF PlatformTypes
<1>2. /\ updater[n].at \in {"lock", "restore", "record", "tidy"}
      /\ UNCHANGED <<held, runs, supervisor, recovery>>
  BY DEF TakeLock, RestoreOverride, RecordRollback, Tidy, At
<1>3. state.op.status # "rolled-back" /\ (Requesting => held.current = state.current)
  BY DEF Calm
<1>4. CASE TakeLock(n)
  <2>1. /\ updater[n].at = "lock" /\ UNCHANGED <<override, previous, state>>
        /\ GoesTo(n, IF lock THEN "off" ELSE "read")
    BY <1>4 DEF TakeLock, At
  <2>2. /\ updater'[n].at \in {"off", "read"} /\ updater'[n].prepared = updater[n].prepared
        /\ \A m \in Updates : m # n => updater'[m] = updater[m]
    BY <1>1, <2>1, HelperGoes DEF UpdaterSteps
  <2>3. CalmHelper(n) /\ ~updater[n].prepared /\ previous[n] = NoFile
    BY <2>1 DEF Calm, CalmHelper
  <2>4. ASSUME NEW m \in Updates PROVE CalmHelper(m)'
    <3>1. CASE m = n
      BY <2>1, <2>2, <2>3, <3>1 DEF CalmHelper, MidSteps, SwitchSteps
    <3>2. CASE m # n
      BY <2>1, <2>2, <3>2 DEF Calm, CalmHelper, SavedBy
    <3> QED
      BY <3>1, <3>2
  <2>5. Untouched(n) /\ updater[n].at \notin SwitchSteps /\ ~Awaited(n)
    BY <2>1 DEF Untouched, SwitchSteps, Awaited
  <2>6. (\A m \in Updates : Untouched(m)') => \A m \in Updates : Untouched(m)
    BY <2>2, <2>5 DEF Untouched
  <2>7. supervisor = "down" => \E m \in Updates : Awaited(m)'
    BY <2>2, <2>5 DEF Calm, Awaited
  <2>8. state.op.stage \in ChangedStages => \E m \in Updates : updater'[m].at \in SwitchSteps
    BY <2>2, <2>5 DEF Calm
  <2> QED
    BY <1>2, <2>1, <2>4, <2>6, <2>7, <2>8 DEF Calm, Recovering, Requesting, Means
<1>5. CASE ~TakeLock(n)
  <2>1. AtWork(n) /\ updater[n].at \in {"restore", "record", "tidy"}
    BY <1>5 DEF RestoreOverride, RecordRollback, Tidy, At, AtWork
  <2>2. /\ CalmHelper(n) /\ Untouched(n) /\ supervisor # "down"
        /\ state.op.stage \notin ChangedStages
        /\ Means(override, state.current) /\ \A s \in Services : runs[s] = state.current
    BY <2>1, CalmAtWork DEF Untouched, SwitchSteps, Awaited
  <2>3. CASE RestoreOverride(n) \/ RecordRollback(n)
    <3>1. updater[n].at \in {"restore", "record"} /\ ~updater[n].known /\ ~updater[n].prepared
      BY <2>2, <2>3 DEF RestoreOverride, RecordRollback, At, CalmHelper, PlatformSound,
                        HelpersSound
    <3>2. /\ UNCHANGED <<override, previous, state>>
          /\ GoesTo(n, "record") \/ GoesTo(n, "tidy")
      BY <2>3, <3>1 DEF RestoreOverride, RecordRollback, files
    <3>3. /\ updater'[n].at \in {"record", "tidy"} /\ updater'[n].known = updater[n].known
          /\ updater'[n].prepared = updater[n].prepared
          /\ \A m \in Updates : m # n => updater'[m] = updater[m]
      BY <1>1, <3>2, HelperGoes DEF UpdaterSteps
    <3>4. CalmHelper(n)'
      BY <2>2, <3>1, <3>2, <3>3 DEF CalmHelper, MidSteps, SwitchSteps
    <3> QED
      BY <1>2, <1>3, <2>1, <2>2, <3>2, <3>3, <3>4, CalmStep DEF Requesting
  <2>4. CASE Tidy(n)
    <3>1. /\ updater'[n] = NoUpdater /\ \A m \in Updates : m # n => updater'[m] = updater[m]
      BY <1>1, <2>4 DEF Tidy
    <3>2. /\ previous'[n] = NoFile /\ \A m \in Updates : m # n => previous'[m] = previous[m]
          /\ UNCHANGED <<override, state>>
      BY <2>4 DEF Tidy, PlatformTypes
    <3>3. CalmHelper(n)'
      BY <3>1, <3>2, NothingStarted DEF CalmHelper, MidSteps, SwitchSteps
    <3> QED
      BY <1>2, <1>3, <2>1, <2>2, <3>1, <3>2, <3>3, CalmStep DEF Requesting
  <2> QED
    BY <1>5, <2>3, <2>4
<1> QED
  BY <1>4, <1>5

(* The Supervisor's requests; a restarted Supervisor finds the helper that has replaced it. *)
LEMMA CalmRequests ==
  ASSUME PlatformTypes, PlatformSound, Calm, Untroubled,
         \/ \E n \in Updates : LoadRequest(n)
         \/ RefuseRequest \/ AcceptUpdate \/ LaunchHelper \/ SupervisorStarts
  PROVE  Calm'
<1>1. UNCHANGED <<override, previous, runs>>
  BY DEF LoadRequest, RefuseRequest, AcceptUpdate, LaunchHelper, SupervisorStarts, files
<1>2. supervisor' # "down"
  BY DEF LoadRequest, RefuseRequest, AcceptUpdate, LaunchHelper, SupervisorStarts
<1>3. CASE RefuseRequest \/ \E n \in Updates : LoadRequest(n)
  <2>1. UNCHANGED <<updater, state, recovery>>
    BY <1>3 DEF RefuseRequest, LoadRequest
  <2>2. Requesting' => held'.current = state'.current
    <3>1. CASE RefuseRequest
      BY <3>1 DEF RefuseRequest, Requesting
    <3>2. ASSUME NEW n \in Updates, LoadRequest(n) PROVE held'.current = state'.current
      BY <3>2, StateWithOperation, UpdateNumbers
         DEF LoadRequest, PlatformTypes, UpdateStatuses, Stages
    <3> QED
      BY <1>3, <3>1, <3>2
  <2> QED
    BY <1>1, <1>2, <2>1, <2>2
       DEF Calm, CalmHelper, SavedBy, Recovering, Untouched
<1>4. CASE AcceptUpdate
  <2>1. /\ UNCHANGED <<updater, held, recovery>> /\ state' = held /\ Requesting /\ Requesting'
    BY <1>4 DEF AcceptUpdate, Requesting
  <2>2. held.op.status = "accepted" /\ held.op.stage = "accepted" /\ held.current = state.current
    BY <2>1 DEF PlatformSound, RequestsSound, Calm
  <2> QED
    BY <1>1, <1>2, <2>1, <2>2
       DEF Calm, CalmHelper, SavedBy, Recovering, Untouched, ChangedStages
<1>5. CASE LaunchHelper
  <2>1. /\ UNCHANGED <<held, recovery, state>> /\ Requesting /\ GoesTo(held.op.id, "lock")
        /\ supervisor' = "serving"
    BY <1>5, PlatformUpdatesAssumption
       DEF LaunchHelper, Requesting, CommandFails, Untroubled, PlatformTypes
  <2>2. PICK n \in Updates : n = held.op.id
    BY <2>1 DEF PlatformTypes
  <2>3. /\ updater'[n].at = "lock" /\ updater'[n].prepared = updater[n].prepared
        /\ \A m \in Updates : m # n => updater'[m] = updater[m]
    BY <2>1, <2>2, HelperGoes DEF UpdaterSteps, PlatformTypes
  <2>4. updater[n].at = "off" /\ CalmHelper(n)
    BY <2>1, <2>2 DEF PlatformSound, RequestsSound, Alive, Calm
  <2>5. ASSUME NEW m \in Updates PROVE CalmHelper(m)'
    <3>1. CASE m = n
      BY <1>1, <2>3, <2>4, <3>1 DEF CalmHelper, MidSteps, SwitchSteps
    <3>2. CASE m # n
      BY <1>1, <2>1, <2>3, <3>2 DEF Calm, CalmHelper, SavedBy
    <3> QED
      BY <3>1, <3>2
  <2>6. (\A m \in Updates : Untouched(m)') => \A m \in Updates : Untouched(m)
    BY <2>3, <2>4 DEF Untouched
  <2>7. state.op.stage \in ChangedStages => \E m \in Updates : updater'[m].at \in SwitchSteps
    BY <2>3, <2>4 DEF Calm, SwitchSteps
  <2> QED
    BY <1>1, <1>2, <2>1, <2>5, <2>6, <2>7 DEF Calm, Recovering, Requesting
<1>6. CASE SupervisorStarts
  <2>1. /\ UNCHANGED <<held, state, updater>> /\ supervisor = "down" /\ supervisor' = "serving"
    BY <1>6 DEF SupervisorStarts
  <2>2. PICK n \in Updates : Awaited(n)
    BY <2>1 DEF Calm
  <2>3. InCourse(n) /\ Alive(n)
    BY <2>2 DEF Awaited, InCourse, MidSteps, Alive
  <2>4. state.op.id = n
    BY <2>3 DEF PlatformSound, CoursesSound, CourseSound
  <2>5. recovery' = recovery
    BY <1>6, <2>3, <2>4 DEF SupervisorStarts, StillUpdating
  <2> QED
    BY <1>1, <1>2, <2>1, <2>5
       DEF Calm, CalmHelper, SavedBy, Recovering, Requesting, Untouched
<1> QED
  BY <1>3, <1>4, <1>5, <1>6

-----------------------------------------------------------------------------
(* The first trouble: what is still to be done leads back. *)

(* A command fails, and the handler will put back what the helper has saved. *)
LEMMA GivesUpMending ==
  ASSUME PlatformTypes, PlatformSound, Calm, NEW n \in Updates, updater[n].at \in MidSteps,
         GoesTo(n, "restore"), UNCHANGED <<held, files, state, recovery>>
  PROVE  Mending'
<1>1. /\ updater'[n].at = "restore"
      /\ updater'[n].had = updater[n].had /\ updater'[n].known = updater[n].known
      /\ updater'[n].prepared = updater[n].prepared /\ updater'[n].read = updater[n].read
      /\ \A m \in Updates : m # n => updater'[m] = updater[m]
  BY HelperGoes DEF UpdaterSteps, PlatformTypes
<1>2. InCourse(n) /\ AtWork(n) /\ CourseSound(n) /\ updater[n].known
  BY DEF InCourse, MidSteps, AtWork, PlatformSound, CoursesSound, CourseSound
<1>3. UNCHANGED <<override, previous>>
  BY DEF files
<1>4. CalmHelper(n) /\ updater[n].read.current = state.current
  BY <1>2, CalmAtWork DEF CalmHelper
<1>5. MendingHelper(n)'
  <2>1. CASE updater[n].at = "prepare"
    <3>1. ~updater[n].prepared /\ (updater[n].had <=> override # NoFile)
      BY <1>4, <2>1 DEF CalmHelper
    <3>2. Means(override, state.current)
      BY <1>2, <2>1, CalmAtWork DEF Untouched
    <3> QED
      BY <1>1, <1>3, <1>4, <3>1, <3>2 DEF MendingHelper, LeadsBack, Means
  <2>2. CASE updater[n].at # "prepare"
    <3>1. SavedBy(n)
      BY <1>4, <2>2 DEF CalmHelper, MidSteps, SwitchSteps
    <3> QED
      BY <1>1, <1>3, <1>4, <3>1 DEF MendingHelper, LeadsBack, Means, SavedBy
  <2> QED
    BY <2>1, <2>2
<1>6. ASSUME NEW m \in Updates, m # n PROVE MendingHelper(m)'
  <2>1. updater'[m].at \in {"off", "lock"}
    BY <1>1, <1>2, <1>6, CalmAtWork
  <2> QED
    BY <2>1 DEF MendingHelper
<1>7. InCourse(n)' /\ recovery'.at = "off"
  BY <1>1, <1>2 DEF InCourse, CourseSound, Recovering
<1>8. MendingRecovery'
  BY <1>7 DEF MendingRecovery, Abandoned
<1>9. state'.op.status # "rolled-back"
  BY DEF Calm
<1> QED
  BY <1>5, <1>6, <1>8, <1>9 DEF Mending

(* The command that starts a helper fails: the update has failed. *)
LEMMA LaunchMending ==
  ASSUME PlatformTypes, PlatformSound, Calm, LaunchHelper, CommandFails
  PROVE  Mending'
<1>1. supervisor = "launching" /\ held.op.id \in Updates
  BY DEF LaunchHelper, PlatformTypes, Requesting
<1>2. commandFaults' # commandFaults
  BY PlatformUpdatesAssumption DEF CommandFails, PlatformTypes
<1>3. /\ state' = [held EXCEPT !.op.status = "failed", !.op.stage = "ended"]
      /\ GoesTo(held.op.id, "lock") \/ UNCHANGED updater
      /\ UNCHANGED <<recovery, runs, override>>
  BY <1>2 DEF LaunchHelper
<1>4. state'.op.status = "failed" /\ state'.op.stage = "ended"
  BY <1>3 DEF PlatformTypes, SupervisorStates
<1>5. ASSUME NEW m \in Updates PROVE MendingHelper(m)'
  <2>1. CASE updater'[m] = updater[m]
    BY <2>1 DEF Calm, CalmHelper, MendingHelper
  <2>2. CASE updater'[m].at = "lock"
    BY <2>2 DEF MendingHelper
  <2>3. updater'[m] = updater[m] \/ updater'[m].at = "lock"
    BY <1>1, <1>3, HelperGoes DEF UpdaterSteps, PlatformTypes
  <2> QED
    BY <2>1, <2>2, <2>3
<1>6. MendingRecovery'
  BY <1>3, <1>4 DEF MendingRecovery, Abandoned, ChangedStages, Calm, Recovering
<1> QED
  BY <1>4, <1>5, <1>6 DEF Mending

(* A helper or the host dies: what the helper saved is there for the recovery. *)
LEMMA DeathMending ==
  ASSUME PlatformTypes, PlatformSound, Calm, hostCrashes' = 1,
         UNCHANGED <<files, state, runs>>, recovery'.at = "off",
         \A m \in Updates : updater'[m] \in {updater[m], NoUpdater}
  PROVE  Mending'
<1>1. UNCHANGED <<override, previous>>
  BY DEF files
<1>2. ASSUME NEW m \in Updates PROVE MendingHelper(m)'
  BY NothingStarted DEF Calm, CalmHelper, MendingHelper
<1>3. ASSUME Abandoned' PROVE Means(previous[state.op.id], state.current)
  <2>1. PICK k \in Updates : updater[k].at \in SwitchSteps
    BY <1>3 DEF Abandoned, Calm
  <2>2. SavedBy(k) /\ InCourse(k)
    BY <2>1 DEF Calm, CalmHelper, InCourse, MidSteps, SwitchSteps
  <2>3. state.op.id = k
    BY <2>2 DEF PlatformSound, CoursesSound, CourseSound
  <2> QED
    BY <2>2, <2>3 DEF SavedBy
<1>4. MendingRecovery'
  BY <1>1, <1>3 DEF MendingRecovery, Means
<1>5. state'.op.status # "rolled-back"
  BY DEF Calm
<1> QED
  BY <1>2, <1>4, <1>5 DEF Mending

-----------------------------------------------------------------------------
(* One trouble: the steps that follow keep what leads back. *)

\* A helper is where it was, or nothing depends on it.
Harmless(m) ==
    \/ updater'[m] = updater[m]
    \/ /\ updater[m].at # "downgrade" /\ updater'[m].at # "downgrade"
       /\ updater'[m].at \in {"restore", "record"} => ~updater'[m].known
       /\ InCourse(m) => InCourse(m)'

(* A step that leaves the state, the services and the files alone. *)
LEMMA MendingFrame ==
  ASSUME Mending, UNCHANGED <<state, runs, override, previous, plans, hostCrashes>>,
         \A m \in Updates : Harmless(m),
         \/ recovery' = recovery
         \/ recovery'.at \in {"off", "load", "look"} /\ recovery.at \in {"off", "load", "look"}
  PROVE  Mending'
<1>1. ASSUME NEW m \in Updates PROVE MendingHelper(m)'
  <2>1. CASE updater'[m] = updater[m]
    BY <2>1 DEF Mending, MendingHelper, LeadsBack
  <2>2. CASE updater'[m] # updater[m]
    BY <2>2 DEF MendingHelper, Harmless
  <2> QED
    BY <2>1, <2>2
<1>2. ASSUME Abandoned' PROVE Abandoned
  <2>1. ASSUME NEW m \in Updates, InCourse(m) PROVE InCourse(m)'
    BY <2>1, <1>2 DEF Abandoned, Harmless, InCourse
  <2> QED
    BY <1>2, <2>1 DEF Abandoned, Unfinished
<1>3. MendingRecovery'
  BY <1>2 DEF Mending, MendingRecovery, Changed, Means
<1>4. (\A m \in Updates : updater'[m].at # "downgrade") =>
          \A m \in Updates : updater[m].at # "downgrade"
  BY DEF Harmless
<1> QED
  BY <1>1, <1>3, <1>4 DEF Mending, BackAgain

(* A step of a helper that goes on in its course, or ends it. *)
LEMMA MendingCourse ==
  ASSUME PlatformTypes, PlatformSound, NEW n \in Updates, InCourse(n),
         \A m \in Updates : m # n => updater'[m] = updater[m],
         \/ updater'[n].at \in MidSteps
         \/ updater'[n].at = "tidy" /\ state'.op.stage = "ended",
         recovery' = recovery, state'.op.status # "rolled-back"
  PROVE  Mending'
<1>1. /\ \A m \in Updates : m # n => ~AtWork(m)
      /\ ~Recovering
  BY CourseAlone DEF CourseSound
<1>2. ASSUME NEW m \in Updates PROVE MendingHelper(m)'
  <2>1. updater'[m].at \notin {"restore", "record", "downgrade"}
    BY <1>1 DEF AtWork, MidSteps
  <2> QED
    BY <2>1 DEF MendingHelper
<1>3. ~Abandoned'
  BY DEF Abandoned, InCourse, ChangedStages
<1>4. MendingRecovery'
  BY <1>1, <1>3 DEF MendingRecovery, Recovering
<1> QED
  BY <1>2, <1>4 DEF Mending

(* Requests for updates, and helpers that start. *)
LEMMA MendingRequests ==
  ASSUME PlatformTypes, PlatformSound, Mending, Untroubled,
         \/ \E n \in Updates : LoadRequest(n) \/ TakeLock(n)
         \/ RefuseRequest \/ AcceptUpdate \/ LaunchHelper \/ SupervisorStarts
  PROVE  Mending'
<1>1. ASSUME NEW n \in Updates, TakeLock(n) PROVE Mending'
  <2>1. PICK step \in {"off", "read"} : GoesTo(n, step)
    BY <1>1 DEF TakeLock
  <2>2. /\ updater'[n].at = step /\ \A m \in Updates : m # n => updater'[m] = updater[m]
    BY <2>1, HelperGoes DEF UpdaterSteps, PlatformTypes
  <2>3. updater[n].at = "lock" /\ ~InCourse(n)
    BY <1>1 DEF TakeLock, At, InCourse, MidSteps
  <2>4. \A m \in Updates : Harmless(m)
    BY <2>2, <2>3 DEF Harmless
  <2> QED
    BY <1>1, <2>4, MendingFrame DEF TakeLock
<1>2. CASE (\E n \in Updates : LoadRequest(n)) \/ RefuseRequest \/ SupervisorStarts
  <2>1. \A m \in Updates : Harmless(m)
    BY <1>2 DEF LoadRequest, RefuseRequest, SupervisorStarts, Harmless
  <2>2. \/ recovery' = recovery
        \/ recovery'.at \in {"off", "load", "look"} /\ recovery.at \in {"off", "load", "look"}
    BY <1>2, NothingStarted DEF LoadRequest, RefuseRequest, SupervisorStarts, Recovery
  <2> QED
    BY <1>2, <2>1, <2>2, MendingFrame DEF LoadRequest, RefuseRequest, SupervisorStarts, files
<1>3. CASE LaunchHelper
  <2>1. commandFaults' # commandFaults + 1
    BY PlatformUpdatesAssumption DEF Untroubled, PlatformTypes
  <2>2. /\ GoesTo(held.op.id, "lock")
        /\ UNCHANGED <<override, previous, plans, state, runs, recovery>>
        /\ supervisor = "launching"
    BY <1>3, <2>1 DEF LaunchHelper, CommandFails
  <2>3. held.op.id \in Updates /\ updater[held.op.id].at = "off"
    BY <2>2 DEF PlatformTypes, Requesting, PlatformSound, RequestsSound, Alive
  <2>4. /\ updater'[held.op.id].at = "lock"
        /\ \A m \in Updates : m # held.op.id => updater'[m] = updater[m]
    BY <2>2, <2>3, HelperGoes DEF UpdaterSteps, PlatformTypes
  <2>5. \A m \in Updates : Harmless(m)
    BY <2>3, <2>4 DEF Harmless, InCourse, MidSteps
  <2> QED
    BY <2>2, <2>5, MendingFrame DEF Untroubled
<1>4. CASE AcceptUpdate
  <2>1. /\ state' = held /\ supervisor = "checking"
        /\ UNCHANGED <<override, previous, runs, recovery, updater, hostCrashes>>
    BY <1>4 DEF AcceptUpdate
  <2>2. state'.op.status = "accepted" /\ state'.op.stage = "accepted"
    BY <2>1 DEF PlatformSound, RequestsSound, Requesting
  <2>3. \A m \in Updates : MendingHelper(m)'
    BY <2>1, <2>2 DEF Mending, MendingHelper, LeadsBack
  <2>4. MendingRecovery'
    BY <2>1, <2>2 DEF Mending, MendingRecovery, Abandoned, ChangedStages, Changed
  <2> QED
    BY <2>2, <2>3, <2>4 DEF Mending
<1> QED
  BY <1>1, <1>2, <1>3, <1>4

(* A helper on its way forth. *)
LEMMA MendingForth ==
  ASSUME PlatformTypes, PlatformSound, Mending, Untroubled, NEW n \in Updates,
         \/ ReadPlan(n) \/ Prepare(n) \/ Pull(n) \/ WriteOverride(n) \/ MarkStage(n)
         \/ SwitchService(n) \/ AwaitService(n) \/ FinishUpdate(n)
  PROVE  Mending'
<1>1. commandFaults' # commandFaults + 1
  BY PlatformUpdatesAssumption DEF Untroubled, PlatformTypes
<1>2. updater \in [Updates -> Helper] /\ updater[n] \in Helper
  BY DEF PlatformTypes
<1>3. CASE ReadPlan(n) /\ ~InCourse(n)
  <2>1. /\ updater'[n].at = "restore" /\ ~updater'[n].known
        /\ \A m \in Updates : m # n => updater'[m] = updater[m]
        /\ UNCHANGED <<override, previous, plans, state, runs, recovery>>
    BY <1>3, PlanLost
  <2>2. updater[n].at = "read"
    BY <1>3 DEF ReadPlan, At
  <2>3. \A m \in Updates : Harmless(m)
    BY <1>3, <2>1, <2>2 DEF Harmless
  <2> QED
    BY <2>1, <2>3, MendingFrame DEF Untroubled
<1>4. CASE ReadPlan(n) /\ InCourse(n)
  <2>1. updater[n].at = "read" /\ n \in plans /\ state.op.id = n
    BY <1>4, CourseAlone DEF ReadPlan, At, CourseSound, InCourse, MidSteps
  <2>2. /\ \E new : /\ new = [updater[n] EXCEPT !.at = "prepare", !.had = override # NoFile,
                                               !.read = state, !.known = TRUE]
                    /\ updater' = [updater EXCEPT ![n] = new]
        /\ state' = [state EXCEPT !.op.status = "running", !.op.stage = "early"]
        /\ recovery' = recovery
    BY <1>4, <2>1 DEF ReadPlan
  <2>3. updater'[n].at = "prepare" /\ \A m \in Updates : m # n => updater'[m] = updater[m]
    BY <1>2, <2>2 DEF Helper
  <2>4. state'.op.status = "running"
    BY <2>2 DEF PlatformTypes, SupervisorStates
  <2> QED
    BY <1>4, <2>2, <2>3, <2>4, MendingCourse DEF MidSteps
<1>5. ASSUME updater[n].at \in MidSteps
      PROVE  InCourse(n) /\ CourseSound(n) /\ state.op.status # "rolled-back"
  BY <1>5, CourseAlone DEF InCourse, CourseSound, Unfinished
<1>6. CASE Prepare(n)
  <2>1. /\ updater[n].at = "prepare"
        /\ \E new : /\ new = [updater[n] EXCEPT !.at = "pull", !.prepared = TRUE]
                    /\ updater' = [updater EXCEPT ![n] = new]
        /\ UNCHANGED <<state, recovery>>
    BY <1>1, <1>6 DEF Prepare, At, CommandFails
  <2>2. updater'[n].at = "pull" /\ \A m \in Updates : m # n => updater'[m] = updater[m]
    BY <1>2, <2>1 DEF Helper
  <2> QED
    BY <1>5, <2>1, <2>2, MendingCourse DEF MidSteps
<1>7. CASE WriteOverride(n)
  <2>1. /\ updater[n].at = "write"
        /\ \E new : /\ new = [updater[n] EXCEPT !.at = "stage", !.service = "api"]
                    /\ updater' = [updater EXCEPT ![n] = new]
        /\ UNCHANGED <<state, recovery>>
    BY <1>7 DEF WriteOverride, At
  <2>2. updater'[n].at = "stage" /\ \A m \in Updates : m # n => updater'[m] = updater[m]
    BY <1>2, <2>1 DEF Helper
  <2> QED
    BY <1>5, <2>1, <2>2, MendingCourse DEF MidSteps
<1>8. CASE Pull(n) \/ MarkStage(n)
  <2>1. /\ updater[n].at \in MidSteps
        /\ \E step \in {"write", "up"} : GoesTo(n, step)
        /\ \E stage \in Stages : SaveStage(n, stage)
        /\ UNCHANGED recovery
    BY <1>1, <1>2, <1>8 DEF Pull, MarkStage, At, CommandFails, MidSteps, Stages, Helper, Services
  <2>2. updater'[n].at \in MidSteps /\ \A m \in Updates : m # n => updater'[m] = updater[m]
    BY <1>2, <2>1, HelperGoes DEF MidSteps, UpdaterSteps
  <2>3. state'.op.status = "running"
    BY <2>1 DEF SaveStage, PlatformTypes, SupervisorStates
  <2> QED
    BY <1>5, <2>1, <2>2, <2>3, MendingCourse
<1>9. CASE SwitchService(n)
  <2>1. updater[n].at = "up" /\ GoesTo(n, "wait") /\ UNCHANGED <<state, recovery>>
    BY <1>1, <1>9 DEF SwitchService, At, CommandFails
  <2>2. updater'[n].at \in MidSteps /\ \A m \in Updates : m # n => updater'[m] = updater[m]
    BY <1>2, <2>1, HelperGoes DEF MidSteps, UpdaterSteps
  <2> QED
    BY <1>5, <2>1, <2>2, MendingCourse DEF MidSteps
<1>10. CASE AwaitService(n)
  <2>1. updater[n].at = "wait" /\ UNCHANGED <<state, recovery>>
    BY <1>10 DEF AwaitService, At
  <2>2. updater'[n].at \in MidSteps /\ \A m \in Updates : m # n => updater'[m] = updater[m]
    <3>1. CASE GoesTo(n, "finish")
      BY <1>2, <3>1, HelperGoes DEF MidSteps, UpdaterSteps
    <3>2. CASE \E new : /\ new = [updater[n] EXCEPT !.at = "stage",
                                         !.service = NextService(updater[n].service)]
                        /\ updater' = [updater EXCEPT ![n] = new]
      <4>1. PICK new : /\ new = [updater[n] EXCEPT !.at = "stage",
                                       !.service = NextService(updater[n].service)]
                       /\ updater' = [updater EXCEPT ![n] = new]
        BY <3>2
      <4>2. new.at = "stage"
        BY <1>2, <4>1 DEF Helper
      <4> QED
        BY <1>2, <4>1, <4>2 DEF MidSteps
    <3> QED
      BY <1>1, <1>10, <3>1, <3>2 DEF AwaitService, CommandFails
  <2> QED
    BY <1>5, <2>1, <2>2, MendingCourse DEF MidSteps
<1>11. CASE FinishUpdate(n)
  <2>1. /\ updater[n].at = "finish" /\ GoesTo(n, "tidy") /\ UNCHANGED recovery
        /\ state'.op.stage = "ended" /\ state'.op.status = "succeeded"
    BY <1>11 DEF FinishUpdate, At
  <2>2. updater'[n].at = "tidy" /\ \A m \in Updates : m # n => updater'[m] = updater[m]
    BY <1>2, <2>1, HelperGoes DEF UpdaterSteps
  <2> QED
    BY <1>5, <2>1, <2>2, MendingCourse DEF MidSteps
<1> QED
  BY <1>3, <1>4, <1>6, <1>7, <1>8, <1>9, <1>10, <1>11

(* A helper that gives up puts back what leads back. *)
LEMMA MendingBack ==
  ASSUME PlatformTypes, PlatformSound, Mending, Untroubled, NEW n \in Updates,
         \/ RestoreOverride(n) \/ RecordRollback(n) \/ Downgrade(n) \/ Tidy(n)
  PROVE  Mending'
<1>1. commandFaults' # commandFaults + 1
  BY PlatformUpdatesAssumption DEF Untroubled, PlatformTypes
<1>2. /\ updater \in [Updates -> Helper] /\ updater[n] \in Helper /\ AtWork(n)
      /\ \A m \in Updates : m # n => ~AtWork(m)
  BY DEF PlatformTypes, RestoreOverride, RecordRollback, Downgrade, Tidy, At, AtWork,
         PlatformSound, HelpersSound
<1>3. ASSUME NEW m \in Updates, m # n, updater'[m] = updater[m] PROVE MendingHelper(m)'
  <2>1. updater'[m].at \in {"off", "lock"}
    BY <1>2, <1>3 DEF AtWork
  <2> QED
    BY <2>1 DEF MendingHelper
<1>4. CASE RestoreOverride(n)
  <2>1. /\ updater[n].at = "restore" /\ GoesTo(n, "record")
        /\ UNCHANGED <<previous, plans, state, runs, recovery, hostCrashes>>
    BY <1>4 DEF RestoreOverride, At
  <2>2. /\ updater'[n].at = "record" /\ updater'[n].had = updater[n].had
        /\ updater'[n].known = updater[n].known /\ updater'[n].read = updater[n].read
        /\ \A m \in Updates : m # n => updater'[m] = updater[m]
    BY <1>2, <2>1, HelperGoes DEF UpdaterSteps
  <2>3. CASE ~updater[n].known
    <3>1. override' = override
      BY <1>4, <2>3 DEF RestoreOverride, PlatformSound, HelpersSound
    <3>2. ~InCourse(n)
      BY <2>1, <2>3 DEF InCourse, MidSteps
    <3>3. ASSUME NEW m \in Updates PROVE Harmless(m)
      <4>1. CASE m # n
        BY <2>2, <4>1 DEF Harmless
      <4>2. CASE m = n
        <5>1. ~updater'[n].known
          BY <2>2, <2>3, Zenon
        <5> QED
          BY <2>1, <2>2, <3>2, <4>2, <5>1 DEF Harmless
      <4> QED
        BY <4>1, <4>2
    <3> QED
      BY <2>1, <3>1, <3>3, MendingFrame
  <2>4. CASE updater[n].known
    <3>1. InCourse(n) /\ CourseSound(n) /\ ~Recovering /\ state.op.status # "rolled-back"
      BY <2>1, <2>4, CourseAlone DEF InCourse, CourseSound, Unfinished
    <3>2. InCourse(n)'
      <4>1. updater'[n].known
        BY <2>2, <2>4, Zenon
      <4> QED
        BY <2>2, <4>1 DEF InCourse
    <3>3. LeadsBack(n, IF updater[n].prepared THEN previous[n] ELSE override,
                    updater[n].read.current)
      BY <2>1, <2>4 DEF Mending, MendingHelper
    <3>4. updater[n].read.current # NoFile
      BY <1>2, UpdateNumbers DEF Helper, SupervisorStates
    <3>5. /\ updater[n].had => override' = updater[n].read.current
          /\ ~updater[n].had => updater[n].read.current = 0
      BY <1>4, <3>3, <3>4 DEF RestoreOverride, LeadsBack
    <3>6. LeadsBack(n, override, updater[n].read.current)'
      BY <2>2, <3>5 DEF LeadsBack
    <3>7. MendingHelper(n)'
      BY <2>2, <3>6 DEF MendingHelper
    <3>8. MendingRecovery'
      BY <2>1, <3>1, <3>2 DEF MendingRecovery, Abandoned, Recovering
    <3> QED
      BY <1>3, <2>1, <2>2, <3>1, <3>7, <3>8 DEF Mending
  <2> QED
    BY <2>3, <2>4
<1>5. CASE RecordRollback(n) /\ ~updater[n].known
  <2>1. /\ updater[n].at = "record" /\ GoesTo(n, "tidy")
        /\ UNCHANGED <<override, previous, plans, state, runs, recovery, hostCrashes>>
    BY <1>5 DEF RecordRollback, At, files
  <2>2. updater'[n].at = "tidy" /\ \A m \in Updates : m # n => updater'[m] = updater[m]
    BY <1>2, <2>1, HelperGoes DEF UpdaterSteps
  <2>3. \A m \in Updates : Harmless(m)
    BY <1>5, <2>1, <2>2 DEF Harmless, InCourse, MidSteps
  <2> QED
    BY <2>1, <2>3, MendingFrame
<1>6. CASE RecordRollback(n) /\ updater[n].known
  <2>1. updater[n].at = "record" /\ InCourse(n) /\ ~Recovering /\ updater[n].read.op.id = n
    BY <1>6, CourseAlone DEF RecordRollback, At, InCourse, CourseSound
  <2>2. /\ GoesTo(n, "downgrade")
        /\ UNCHANGED <<override, previous, runs, recovery>>
        /\ state' = [updater[n].read EXCEPT !.op.status = "rolled-back", !.op.stage = "ended"]
    BY <1>6, <2>1 DEF RecordRollback, files
  <2>3. /\ updater'[n].at = "downgrade" /\ updater'[n].had = updater[n].had
        /\ \A m \in Updates : m # n => updater'[m] = updater[m]
    BY <1>2, <2>2, HelperGoes DEF UpdaterSteps
  <2>4. state'.current = updater[n].read.current /\ state'.op.stage = "ended"
    <3>1. updater[n].read \in SupervisorStates
      BY <1>2 DEF Helper
    <3> QED
      BY <2>2, <3>1 DEF SupervisorStates
  <2>5. LeadsBack(n, override, updater[n].read.current)
    BY <1>6, <2>1 DEF Mending, MendingHelper
  <2>6. MendingHelper(n)'
    BY <2>2, <2>3, <2>4, <2>5 DEF MendingHelper, LeadsBack
  <2>7. MendingRecovery'
    BY <2>1, <2>2, <2>4 DEF MendingRecovery, Abandoned, Recovering, ChangedStages
  <2> QED
    BY <1>3, <2>3, <2>6, <2>7 DEF Mending
<1>7. CASE Downgrade(n)
  <2>1. /\ updater[n].at = "downgrade" /\ GoesTo(n, "tidy") /\ UNCHANGED <<state, recovery>>
        /\ Up(Services, Composed(updater[n].had))
    BY <1>1, <1>7 DEF Downgrade, At, CommandFails
  <2>2. updater'[n].at = "tidy" /\ \A m \in Updates : m # n => updater'[m] = updater[m]
    BY <1>2, <2>1, HelperGoes DEF UpdaterSteps
  <2>3. /\ ~Recovering /\ ~InCourse(n)
        /\ state.op.stage \notin ChangedStages
    BY <1>2, <2>1 DEF PlatformSound, HelpersSound, StateSound, InCourse, MidSteps
  <2>4. MendingHelper(n)' /\ MendingRecovery'
    BY <2>1, <2>2, <2>3 DEF MendingHelper, MendingRecovery, Abandoned, Recovering
  <2>5. ASSUME state'.op.status = "rolled-back" PROVE BackAgain'
    <3>1. LeadsBack(n, override, state.current)
      BY <2>1, <2>5 DEF Mending, MendingHelper
    <3>2. updater[n].had \in BOOLEAN /\ state.current \in Releases
      BY <1>2 DEF Helper, PlatformTypes, SupervisorStates
    <3>3. Composed(updater[n].had) = state.current
      BY <3>1, <3>2, MeansComposed DEF LeadsBack
    <3>4. \A s \in Services : runs'[s] = state'.current
      BY <2>1, <3>3 DEF Up
    <3> QED
      BY <3>4 DEF BackAgain, Services
  <2> QED
    BY <1>3, <2>2, <2>4, <2>5 DEF Mending
<1>8. CASE Tidy(n)
  <2>1. /\ updater[n].at = "tidy" /\ updater' = [updater EXCEPT ![n] = NoUpdater]
        /\ UNCHANGED <<override, state, runs, recovery, hostCrashes>>
    BY <1>8 DEF Tidy, At, Untroubled
  <2>2. updater'[n].at = "off" /\ \A m \in Updates : m # n => updater'[m] = updater[m]
    BY <1>2, <2>1, NothingStarted, HelperMoves
  <2>3. state.op.stage \notin ChangedStages
    BY <1>2, <2>1 DEF PlatformSound, StateSound, InCourse, MidSteps
  <2>4. MendingHelper(n)'
    BY <2>2 DEF MendingHelper
  <2>5. MendingRecovery'
    BY <2>1, <2>3 DEF Mending, MendingRecovery, Abandoned, Changed
  <2>6. ASSUME state'.op.status = "rolled-back" PROVE BackAgain'
    <3>1. \A m \in Updates : updater[m].at # "downgrade"
      BY <1>2, <2>1 DEF AtWork
    <3> QED
      BY <2>1, <2>6, <3>1 DEF Mending, BackAgain
  <2> QED
    BY <1>3, <2>2, <2>4, <2>5, <2>6 DEF Mending
<1> QED
  BY <1>4, <1>5, <1>6, <1>7, <1>8

(* The recovery helper puts back what the helper that died had saved. *)
LEMMA MendingRecovers ==
  ASSUME PlatformTypes, PlatformSound, Mending, Untroubled,
         \/ RecoveryLoads \/ RecoveryLooks \/ RecoveryRestores \/ RecoverySwitches
         \/ RecoveryRecords \/ RecoverySwitchesSupervisor \/ RecoveryTidies \/ RecoveryFails
  PROVE  Mending'
<1>1. commandFaults' # commandFaults + 1 /\ hostCrashes' = hostCrashes
  BY PlatformUpdatesAssumption DEF Untroubled, PlatformTypes
<1>2. Recovering /\ updater' = updater
  BY DEF Recovering, RecoveryLoads, RecoveryLooks, RecoveryRestores, RecoverySwitches,
         RecoveryRecords, RecoverySwitchesSupervisor, RecoveryTidies, RecoveryFails, RecoveryAt
<1>3. /\ recovery.id \in Updates
      /\ \A m \in Updates : ~InCourse(m) /\ updater[m].at # "downgrade"
      /\ recovery.at \in {"look", "restore", "up", "record"} =>
             state = recovery.read /\ Unfinished(state) /\ state.op.status # "rolled-back"
  BY <1>2, WhileRecovering DEF Unfinished
<1>4. \A m \in Updates : MendingHelper(m)'
  BY <1>2, <1>3 DEF MendingHelper, InCourse
<1>5. /\ recovery \in Recovery /\ recovery.had \in BOOLEAN
      /\ recovery.read \in SupervisorStates
  BY DEF PlatformTypes, Recovery
<1>6. ASSUME NEW step \in PlatformRecoverySteps, NEW had \in BOOLEAN,
             \/ RecoveryGoes(step) /\ had = recovery.had
             \/ recovery' = [recovery EXCEPT !.at = step, !.had = had]
      PROVE  /\ recovery'.at = step /\ recovery'.had = had
             /\ recovery'.id = recovery.id /\ recovery'.read = recovery.read
             /\ Changed' <=> Changed
  BY <1>5, <1>6, RecoveryMoves DEF Changed
<1>7. CASE RecoveryLoads
  <2>1. recovery.at = "load" /\ recovery'.at \in {"off", "look"}
    BY <1>5, <1>7, NothingStarted DEF RecoveryLoads, RecoveryAt, Recovery
  <2> QED
    BY <1>1, <1>2, <1>7, <2>1, MendingFrame DEF RecoveryLoads, files, Harmless
<1>8. CASE RecoveryLooks
  <2>1. recovery.at = "look" /\ state = recovery.read /\ Unfinished(state)
    BY <1>3, <1>8 DEF RecoveryLooks, RecoveryAt
  <2>2. UNCHANGED <<override, previous, plans, state, runs>>
    BY <1>8 DEF RecoveryLooks, files
  <2>3. CASE recovery' = NoRecovery
    BY <1>1, <1>2, <2>1, <2>2, <2>3, NothingStarted, MendingFrame DEF Harmless
  <2>4. CASE recovery' = [recovery EXCEPT !.at = IF Changed THEN "restore" ELSE "record"]
    <3>1. /\ recovery'.at = IF Changed THEN "restore" ELSE "record"
          /\ recovery'.read = recovery.read
      BY <1>5, <2>4 DEF Recovery
    <3>2. Changed' <=> Changed
      BY <3>1 DEF Changed
    <3>3. Abandoned' => Abandoned
      BY <1>2, <2>1, <2>2 DEF Abandoned, InCourse
    <3>4. Changed => Abandoned
      BY <1>3, <2>1 DEF Abandoned, Changed, ChangedStages
    <3>5. MendingRecovery'
      BY <1>1, <2>2, <3>1, <3>2, <3>3, <3>4 DEF Mending, MendingRecovery, Means
    <3> QED
      BY <1>3, <1>4, <2>1, <2>2, <3>5 DEF Mending
  <2> QED
    BY <1>8, <2>3, <2>4 DEF RecoveryLooks
<1>9. CASE RecoveryRestores
  <2>1. /\ recovery.at = "restore" /\ state = recovery.read /\ Unfinished(state) /\ Changed
        /\ state.op.id = recovery.id
    BY <1>3, <1>9 DEF RecoveryRestores, RecoveryAt, PlatformSound, RecoverySound
  <2>2. Abandoned
    BY <1>3, <2>1 DEF Abandoned, Changed, ChangedStages
  <2>3. Means(previous[recovery.id], state.current) /\ hostCrashes = 1
    BY <2>1, <2>2 DEF Mending, MendingRecovery
  <2>4. UNCHANGED <<state, runs>>
    BY <1>9 DEF RecoveryRestores
  <2>5. \/ recovery'.at = "failed"
        \/ /\ recovery'.at = "up" /\ recovery'.read = recovery.read
           /\ recovery'.had => override' = recovery.read.current
           /\ ~recovery'.had => recovery.read.current = 0
    <3>1. "up" \in PlatformRecoverySteps /\ "failed" \in PlatformRecoverySteps
      BY DEF PlatformRecoverySteps
    <3>2. CASE previous[recovery.id] # NoFile
      <4>1. /\ override' = previous[recovery.id]
            /\ recovery' = [recovery EXCEPT !.at = "up", !.had = TRUE]
        BY <1>9, <3>2 DEF RecoveryRestores
      <4>2. recovery'.at = "up" /\ recovery'.had = TRUE /\ recovery'.read = recovery.read
        BY <1>6, <3>1, <4>1
      <4> QED
        BY <2>1, <2>3, <3>2, <4>1, <4>2 DEF Means
    <3>3. CASE previous[recovery.id] = NoFile
      <4>1. \/ RecoveryGoes("failed")
            \/ recovery' = [recovery EXCEPT !.at = "up", !.had = FALSE]
        BY <1>9, <3>3 DEF RecoveryRestores
      <4>2. \/ recovery'.at = "failed"
            \/ recovery'.at = "up" /\ recovery'.had = FALSE /\ recovery'.read = recovery.read
        BY <1>5, <1>6, <3>1, <4>1
      <4> QED
        BY <2>1, <2>3, <3>3, <4>2 DEF Means
    <3> QED
      BY <3>2, <3>3
  <2>6. ~Abandoned'
    BY <2>5 DEF Abandoned
  <2>7. MendingRecovery'
    BY <1>1, <2>3, <2>5, <2>6 DEF MendingRecovery
  <2> QED
    BY <1>3, <1>4, <2>1, <2>4, <2>7 DEF Mending
<1>10. CASE RecoverySwitches
  <2>1. /\ recovery.at = "up" /\ state = recovery.read /\ Unfinished(state)
        /\ Up({"api", "web"}, Composed(recovery.had)) /\ RecoveryGoes("record")
        /\ UNCHANGED state
    BY <1>1, <1>3, <1>10 DEF RecoverySwitches, RecoveryAt, CommandFails
  <2>2. /\ hostCrashes = 1
        /\ recovery.had => override = recovery.read.current
        /\ ~recovery.had => recovery.read.current = 0
    BY <2>1 DEF Mending, MendingRecovery
  <2>3. Composed(recovery.had) = recovery.read.current
    <3>1. recovery.read.current \in Releases
      BY <1>5 DEF SupervisorStates
    <3> QED
      BY <1>5, <2>2, <3>1, MeansComposed
  <2>4. recovery'.at = "record" /\ recovery'.read = recovery.read
    BY <1>5, <1>6, <2>1 DEF PlatformRecoverySteps
  <2>5. \A s \in {"api", "web"} : runs'[s] = recovery.read.current
    BY <2>1, <2>3 DEF Up, Services
  <2>6. MendingRecovery'
    BY <1>1, <2>2, <2>4, <2>5 DEF MendingRecovery, Abandoned
  <2> QED
    BY <1>3, <1>4, <2>1, <2>6 DEF Mending
<1>11. CASE RecoveryRecords
  <2>1. /\ recovery.at = "record" /\ UNCHANGED <<runs, override>>
        /\ RecoveryGoes(IF recovery.read.op.stage = "supervisor" THEN "supervisor" ELSE "tidy")
        /\ state' = [recovery.read EXCEPT
                        !.op.status = IF Changed THEN "rolled-back" ELSE "failed",
                        !.op.stage = "ended"]
    BY <1>11 DEF RecoveryRecords, RecoveryAt, files
  <2>2. /\ state'.current = recovery.read.current /\ state'.op.stage = "ended"
        /\ state'.op.status = "rolled-back" => Changed
    BY <1>5, <2>1 DEF SupervisorStates
  <2>3. recovery'.at = IF recovery.read.op.stage = "supervisor" THEN "supervisor" ELSE "tidy"
    BY <1>5, <1>6, <2>1 DEF PlatformRecoverySteps
  <2>4. Changed => hostCrashes = 1 /\ \A s \in {"api", "web"} : runs[s] = recovery.read.current
    BY <2>1 DEF Mending, MendingRecovery
  <2>5. MendingRecovery'
    BY <1>1, <2>2, <2>3, <2>4 DEF MendingRecovery, Abandoned, Changed
  <2>6. state'.op.status = "rolled-back" => BackAgain'
    BY <1>1, <2>1, <2>2, <2>4 DEF BackAgain
  <2> QED
    BY <1>4, <2>5, <2>6 DEF Mending
<1>12. CASE RecoverySwitchesSupervisor
  <2>1. /\ recovery.at = "supervisor" /\ UNCHANGED state /\ RecoveryGoes("tidy")
        /\ runs' = [s \in Services |-> IF s \in {"supervisor"}
                                       THEN Composed(previous[recovery.id] # NoFile)
                                       ELSE runs[s]]
    BY <1>1, <1>12 DEF RecoverySwitchesSupervisor, RecoveryAt, CommandFails, Up
  <2>2. runs'["api"] = runs["api"] /\ runs'["web"] = runs["web"]
    BY <2>1 DEF Services
  <2>3. recovery'.at = "tidy" /\ hostCrashes = 1 /\ state.op.stage \notin ChangedStages
    BY <1>5, <1>6, <2>1
       DEF PlatformRecoverySteps, Mending, MendingRecovery, PlatformSound, RecoverySound
  <2>4. MendingRecovery'
    BY <2>1, <2>3 DEF MendingRecovery, Abandoned
  <2> QED
    BY <1>1, <1>3, <1>4, <2>1, <2>2, <2>3, <2>4 DEF Mending, BackAgain
<1>13. CASE RecoveryTidies
  <2>1. /\ recovery.at = "tidy" /\ recovery'.at = "off" /\ UNCHANGED <<state, runs>>
        /\ state.op.stage \notin ChangedStages
    BY <1>13, NothingStarted DEF RecoveryTidies, RecoveryAt, PlatformSound, RecoverySound
  <2>2. MendingRecovery'
    BY <2>1 DEF MendingRecovery, Abandoned
  <2> QED
    BY <1>1, <1>3, <1>4, <2>1, <2>2 DEF Mending, BackAgain
<1>14. CASE RecoveryFails
  <2>1. /\ recovery'.at = "off"
        /\ state' = [recovery.read EXCEPT !.op.status = "failed", !.op.stage = "ended"]
    BY <1>14, NothingStarted DEF RecoveryFails
  <2>2. state'.op.status = "failed" /\ state'.op.stage = "ended"
    BY <1>5, <2>1 DEF SupervisorStates
  <2>3. MendingRecovery'
    BY <2>1, <2>2 DEF MendingRecovery, Abandoned, ChangedStages
  <2> QED
    BY <1>4, <2>2, <2>3 DEF Mending
<1> QED
  BY <1>7, <1>8, <1>9, <1>10, <1>11, <1>12, <1>13, <1>14

-----------------------------------------------------------------------------
(* PlatformUpdate: a single trouble is followed by a rollback that leads back *)

(* Every step keeps a calm host calm, as long as it brings no trouble. *)
LEMMA CalmKept ==
  ASSUME PlatformTypes, PlatformSound, Calm, Untroubled, [PlatformNext]_platformVars
  PROVE  Calm'
<1>1. commandFaults' # commandFaults + 1 /\ hostCrashes' # hostCrashes + 1
  BY PlatformUpdatesAssumption DEF Untroubled, PlatformTypes
<1>2. recovery.at = "off" /\ \A n \in Updates : ~At(n, "downgrade")
  BY DEF Calm, CalmHelper, Recovering, At
<1>3. ASSUME NEW n \in Updates, Downgrade(n) \/ UpdaterDies(n) PROVE FALSE
  BY <1>1, <1>2, <1>3 DEF Downgrade, UpdaterDies, HostCrashes
<1>4. CASE \/ RecoveryLoads \/ RecoveryLooks \/ RecoveryRestores \/ RecoverySwitches
           \/ RecoveryRecords \/ RecoverySwitchesSupervisor \/ RecoveryTidies
           \/ RecoveryFails \/ HostRestarts
  BY <1>1, <1>2, <1>4
     DEF RecoveryLoads, RecoveryLooks, RecoveryRestores, RecoverySwitches, RecoveryRecords,
         RecoverySwitchesSupervisor, RecoveryTidies, RecoveryFails, RecoveryAt, HostRestarts,
         HostCrashes
<1>5. CASE UNCHANGED platformVars
  BY <1>5 DEF platformVars, Calm, CalmHelper, SavedBy, Means, Untouched, Awaited, Recovering,
              Requesting
<1> QED
  BY <1>3, <1>4, <1>5, CalmRequests, CalmAside, CalmStarts, CalmPrepares, CalmSwitches
     DEF PlatformNext

(* A first trouble leaves what leads back. *)
LEMMA FirstTrouble ==
  ASSUME PlatformTypes, PlatformSound, Calm, PlatformNext, AllTroubles = 0, AllTroubles' = 1
  PROVE  Mending'
<1>1. \/ CommandFails /\ hostCrashes' = hostCrashes
      \/ HostCrashes /\ commandFaults' = commandFaults
  BY TroublesGrow
<1>2. commandFaults = 0 /\ hostCrashes = 0
  BY TroublesGrow DEF AllTroubles
<1>3. CASE HostCrashes /\ commandFaults' = commandFaults
  <2>1. hostCrashes' = 1
    BY <1>2, <1>3 DEF HostCrashes
  <2>2. \/ \E n \in Updates : UpdaterDies(n)
        \/ HostRestarts
    BY <1>2, <2>1
       DEF PlatformNext, LoadRequest, TakeLock, ReadPlan, Prepare, Pull, WriteOverride, MarkStage,
           SwitchService, AwaitService, FinishUpdate, RestoreOverride, RecordRollback, Downgrade,
           Tidy, RefuseRequest, AcceptUpdate, LaunchHelper, SupervisorStarts, RecoveryLoads,
           RecoveryLooks, RecoveryRestores, RecoverySwitches, RecoveryRecords,
           RecoverySwitchesSupervisor, RecoveryTidies, RecoveryFails
  <2>3. \A m \in Updates : updater'[m] \in {updater[m], NoUpdater}
    BY <2>2 DEF UpdaterDies, HostRestarts, PlatformTypes
  <2>4. UNCHANGED <<files, state, runs>> /\ recovery'.at = "off"
    BY <2>2, NothingStarted DEF UpdaterDies, HostRestarts, Calm, Recovering
  <2> QED
    BY <2>1, <2>3, <2>4, DeathMending
<1>4. CASE CommandFails /\ hostCrashes' = hostCrashes
  <2>1. commandFaults' # commandFaults /\ hostCrashes' # hostCrashes + 1
    BY <1>2, <1>4 DEF CommandFails
  <2>2. \/ LaunchHelper
        \/ \E n \in Updates :
              \/ Prepare(n) \/ Pull(n) \/ SwitchService(n) \/ AwaitService(n) \/ Downgrade(n)
        \/ RecoverySwitches \/ RecoverySwitchesSupervisor
    BY <2>1
       DEF PlatformNext, LoadRequest, TakeLock, ReadPlan, WriteOverride, MarkStage, FinishUpdate,
           RestoreOverride, RecordRollback, Tidy, UpdaterDies, RefuseRequest, AcceptUpdate,
           SupervisorStarts, RecoveryLoads, RecoveryLooks, RecoveryRestores, RecoveryRecords,
           RecoveryTidies, RecoveryFails, HostRestarts, HostCrashes
  <2>3. recovery.at = "off" /\ \A n \in Updates : ~At(n, "downgrade")
    BY DEF Calm, CalmHelper, Recovering, At
  <2>4. CASE LaunchHelper
    BY <1>4, <2>4, LaunchMending
  <2>5. ASSUME NEW n \in Updates,
               Prepare(n) \/ Pull(n) \/ SwitchService(n) \/ AwaitService(n)
        PROVE  Mending'
    <3>1. /\ updater[n].at \in MidSteps /\ GoesTo(n, "restore")
          /\ UNCHANGED <<held, files, state, recovery>>
      BY <2>1, <2>5 DEF Prepare, Pull, SwitchService, AwaitService, At, MidSteps, files
    <3> QED
      BY <3>1, GivesUpMending
  <2> QED
    BY <2>2, <2>3, <2>4, <2>5
       DEF Downgrade, RecoverySwitches, RecoverySwitchesSupervisor, RecoveryAt
<1> QED
  BY <1>1, <1>3, <1>4

(* Until a second trouble, every step keeps what leads back. *)
LEMMA MendingKept ==
  ASSUME PlatformTypes, PlatformSound, Mending, Untroubled, [PlatformNext]_platformVars
  PROVE  Mending'
<1>1. hostCrashes' # hostCrashes + 1
  BY PlatformUpdatesAssumption DEF Untroubled, PlatformTypes
<1>2. ASSUME (\E n \in Updates : UpdaterDies(n)) \/ HostRestarts PROVE FALSE
  BY <1>1, <1>2 DEF UpdaterDies, HostRestarts, HostCrashes
<1>3. CASE UNCHANGED platformVars
  BY <1>3 DEF platformVars, Mending, MendingHelper, LeadsBack, MendingRecovery, Changed, Means,
              Abandoned, Unfinished, InCourse, BackAgain
<1> QED
  BY <1>2, <1>3, MendingRequests, MendingForth, MendingBack, MendingRecovers DEF PlatformNext

(* An overlap is never forgotten. *)
LEMMA OverlapStays ==
  ASSUME [PlatformNext]_platformVars, overlap
  PROVE  overlap'
<1>1. ASSUME NEW n \in Updates,
             \/ LoadRequest(n) \/ TakeLock(n) \/ ReadPlan(n) \/ Prepare(n) \/ Pull(n)
             \/ WriteOverride(n) \/ MarkStage(n) \/ SwitchService(n) \/ AwaitService(n)
             \/ FinishUpdate(n) \/ RestoreOverride(n) \/ RecordRollback(n) \/ Downgrade(n)
             \/ Tidy(n) \/ UpdaterDies(n)
      PROVE  overlap'
  BY <1>1 DEF LoadRequest, TakeLock, ReadPlan, Prepare, Pull, WriteOverride, MarkStage,
              SwitchService, AwaitService, FinishUpdate, RestoreOverride, RecordRollback,
              Downgrade, Tidy, UpdaterDies
<1>2. CASE \/ RefuseRequest \/ AcceptUpdate \/ LaunchHelper \/ SupervisorStarts
           \/ HostRestarts \/ RecoveryLoads \/ RecoveryLooks \/ RecoveryRestores
           \/ RecoverySwitches \/ RecoveryRecords \/ RecoverySwitchesSupervisor
           \/ RecoveryTidies \/ RecoveryFails
  BY <1>2 DEF RefuseRequest, AcceptUpdate, LaunchHelper, SupervisorStarts, HostRestarts,
              RecoveryLoads, RecoveryLooks, RecoveryRestores, RecoverySwitches, RecoveryRecords,
              RecoverySwitchesSupervisor, RecoveryTidies, RecoveryFails
<1>3. CASE UNCHANGED platformVars
  BY <1>3 DEF platformVars
<1> QED
  BY <1>1, <1>2, <1>3 DEF PlatformNext

(* An installation is calm before its first trouble, and mending until the second. *)
THEOREM TroubleInvariance == PlatformSpec => []TroubleInv
<1>1. PlatformInit => TroubleInv
  <2> SUFFICES ASSUME PlatformInit PROVE Calm /\ AllTroubles = 0
    BY DEF TroubleInv
  <2>1. /\ override \in {NoFile, 0, 1}
        /\ state = [Fresh EXCEPT !.current = IF override = 1 THEN 1 ELSE 0]
        /\ runs = [s \in Services |-> state.current]
        /\ supervisor = "serving" /\ recovery = NoRecovery
        /\ \A n \in Updates : updater[n] = NoUpdater /\ previous[n] = NoFile
    BY DEF PlatformInit
  <2>2. /\ state.current = IF override = 1 THEN 1 ELSE 0
        /\ state.op.status = "none" /\ state.op.stage = "ended"
    BY <2>1, NothingStarted DEF SupervisorStates
  <2>3. Means(override, state.current) /\ \A s \in Services : runs[s] = state.current
    BY <2>1, <2>2 DEF Means, NoFile
  <2>4. \A n \in Updates : CalmHelper(n)
    BY <2>1, NothingStarted DEF CalmHelper, MidSteps, SwitchSteps
  <2> QED
    BY <2>1, <2>2, <2>3, <2>4, NothingStarted
       DEF Calm, Recovering, Requesting, ChangedStages, AllTroubles, PlatformInit
<1>2. PlatformInv /\ TroubleInv /\ [PlatformNext]_platformVars => TroubleInv'
  <2> SUFFICES ASSUME PlatformInv, TroubleInv, [PlatformNext]_platformVars, ~overlap'
               PROVE  (AllTroubles' = 0 => Calm') /\ (AllTroubles' = 1 => Mending')
    BY DEF TroubleInv
  <2>1. ~overlap /\ PlatformTypes /\ PlatformSound
    BY OverlapStays DEF PlatformInv
  <2>2. /\ AllTroubles = 0 => Calm
        /\ AllTroubles = 1 => Mending
    BY <2>1 DEF TroubleInv
  <2>3. /\ AllTroubles \in Nat
        /\ \/ AllTroubles' = AllTroubles /\ Untroubled
           \/ AllTroubles' = AllTroubles + 1
    BY <2>1, TroublesGrow DEF Untroubled
  <2>4. ASSUME AllTroubles = 0, AllTroubles' = 1 PROVE Mending'
    <3>1. PlatformNext
      BY <2>4 DEF platformVars, AllTroubles
    <3> QED
      BY <2>1, <2>2, <2>4, <3>1, FirstTrouble
  <2>5. ASSUME AllTroubles = 0, Untroubled PROVE Calm'
    BY <2>1, <2>2, <2>5, CalmKept
  <2>6. ASSUME AllTroubles = 1, Untroubled PROVE Mending'
    BY <2>1, <2>2, <2>6, MendingKept
  <2> QED
    BY <2>3, <2>4, <2>5, <2>6
<1> QED
  BY <1>1, <1>2, PlatformInvariant, PTL DEF PlatformSpec

\* Of a single trouble a rollback takes the API and the web application back to the release
\* that the state names, and of a single failing command the Supervisor too.
OneTroubleGoesBack ==
    ~overlap /\ AllTroubles <= 1 /\ QuietHost /\ state.op.status = "rolled-back" => BackAgain

(* RolledBackRunsPrevious does not hold of the code.  This is what is left of it: one  *)
(* failing command or one crash, at whatever step of an update, a rollback, a request  *)
(* or a start of the Supervisor, is followed by a rollback to the last release that    *)
(* succeeded, but for the Supervisor after a crash, the case that the run finds.       *)
THEOREM RollbackLeadsBack == PlatformSpec => []OneTroubleGoesBack
<1>1. PlatformInv /\ TroubleInv => OneTroubleGoesBack
  <2> SUFFICES ASSUME PlatformInv, TroubleInv, ~overlap, AllTroubles <= 1, QuietHost,
                      state.op.status = "rolled-back"
               PROVE  BackAgain
    BY DEF OneTroubleGoesBack
  <2>1. AllTroubles \in {0, 1}
    BY PlatformUpdatesAssumption DEF PlatformInv, PlatformTypes, AllTroubles
  <2>2. AllTroubles = 1 /\ Mending
    BY <2>1 DEF TroubleInv, Calm
  <2>3. \A n \in Updates : updater[n].at # "downgrade"
    BY DEF QuietHost, Alive
  <2> QED
    BY <2>2, <2>3 DEF Mending
<1> QED
  BY <1>1, PlatformInvariant, TroubleInvariance, PTL

(* In particular a command that fails once is followed by a rollback of all three services, *)
(* as ADR-111 promises.                                                                      *)
THEOREM FailureRollsBack ==
  PlatformSpec => [](~overlap /\ hostCrashes = 0 /\ commandFaults <= 1 => RolledBackRunsPrevious)
<1>1. PlatformInv /\ OneTroubleGoesBack /\ ~overlap /\ hostCrashes = 0 /\ commandFaults <= 1 =>
          RolledBackRunsPrevious
  BY PlatformUpdatesAssumption
     DEF PlatformInv, PlatformTypes, OneTroubleGoesBack, RolledBackRunsPrevious, AllTroubles,
         BackAgain, Services
<1> QED
  BY <1>1, PlatformInvariant, RollbackLeadsBack, PTL
=============================================================================
