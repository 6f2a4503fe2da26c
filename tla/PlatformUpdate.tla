--------------------------- MODULE PlatformUpdate ---------------------------
(***************************************************************************)
(* The Supervisor of a self-hosted installation and the helpers that       *)
(* update it: the request the Supervisor accepts, the one-shot update      *)
(* helper (PlatformUpdater.applyPlan), the recovery helper a restarted     *)
(* Supervisor launches (recoverInterruptedUpdate), the files they share    *)
(* (state.json, update.lock, the plan, the release override of Compose and *)
(* the copy of the previous override) and the three services.  Update n    *)
(* installs release n + 1; release 0 is what docker-compose.yml alone      *)
(* runs.                                                                   *)
(***************************************************************************)
EXTENDS Integers

CONSTANTS MaxPlatformUpdates,   \* bound on accepted updates
          MaxCommandFaults,     \* bound on failing docker commands
          MaxHostCrashes        \* bound on crashes of a helper or of the host

ASSUME PlatformUpdatesAssumption ==
    MaxPlatformUpdates \in Nat /\ MaxCommandFaults \in Nat /\ MaxHostCrashes \in Nat

Updates == 1 .. MaxPlatformUpdates
Releases == 0 .. MaxPlatformUpdates + 1
NoFile == -1
Services == {"api", "web", "supervisor"}

VARIABLES
    override,     \* the release override: the release it names, or NoFile
    previous,     \* by update: the saved copy of the override, or NoFile
    lock,         \* whether update.lock exists
    plans,        \* the updates whose plan file exists
    state,        \* state.json: currentVersion, whether currentImages is set, operation
    runs,         \* the release each service runs
    supervisor,   \* the Supervisor process
    updater,      \* by update: its helper
    recovery,     \* the recovery helper and the state it has read
    held,         \* the state in the memory of the request handler, with its operation
    overlap,      \* history: an update took the lock while a recovery or another update worked
    commandFaults, hostCrashes

platformVars == <<override, previous, lock, plans, state, runs, supervisor,
                  updater, recovery, held, overlap, commandFaults, hostCrashes>>

files == <<override, previous, lock, plans>>

Stages == {"accepted", "early", "switching", "api", "web", "supervisor", "ended"}

NoUpdate == [id |-> 0, status |-> "none", stage |-> "ended"]

SupervisorStates ==
    [current: Releases, images: BOOLEAN,
     op: [id: 0 .. MaxPlatformUpdates, stage: Stages,
          status: {"none", "accepted", "running", "succeeded", "failed", "rolled-back"}]]

UpdaterSteps == {"off", "lock", "read", "prepare", "pull", "write", "stage", "up",
                 "wait", "finish", "restore", "record", "downgrade", "tidy"}

PlatformTypeOK ==
    /\ override \in Releases \cup {NoFile}
    /\ previous \in [Updates -> Releases \cup {NoFile}]
    /\ lock \in BOOLEAN
    /\ plans \subseteq Updates
    /\ state \in SupervisorStates
    /\ runs \in [Services -> Releases]
    /\ supervisor \in {"down", "serving", "checking", "launching"}
    /\ updater \in [Updates -> [at: UpdaterSteps, service: Services, had: BOOLEAN,
                                prepared: BOOLEAN, read: SupervisorStates, known: BOOLEAN]]
    /\ recovery \in [at: {"off", "load", "look", "restore", "up", "record", "supervisor",
                          "tidy", "failed"},
                     id: 0 .. MaxPlatformUpdates, read: SupervisorStates, had: BOOLEAN]
    /\ held \in SupervisorStates
    /\ overlap \in BOOLEAN
    /\ commandFaults \in 0 .. MaxCommandFaults
    /\ hostCrashes \in 0 .. MaxHostCrashes

Fresh == [current |-> 0, images |-> FALSE, op |-> NoUpdate]
NoUpdater == [at |-> "off", service |-> "api", had |-> FALSE, prepared |-> FALSE,
              read |-> Fresh, known |-> FALSE]
NoRecovery == [at |-> "off", id |-> 0, read |-> Fresh, had |-> FALSE]

(***************************************************************************)
(* A source installation has no override or an empty one; a bootstrapped   *)
(* release has its override, but adopt-current-release leaves              *)
(* currentImages null until the first update of its own.                   *)
(***************************************************************************)
PlatformInit ==
    /\ override \in {NoFile, 0, 1}
    /\ previous = [n \in Updates |-> NoFile]
    /\ lock = FALSE
    /\ plans = {}
    /\ state = [Fresh EXCEPT !.current = IF override = 1 THEN 1 ELSE 0]
    /\ runs = [s \in Services |-> state.current]
    /\ supervisor = "serving"
    /\ updater = [n \in Updates |-> NoUpdater]
    /\ recovery = NoRecovery
    /\ held = Fresh
    /\ overlap = FALSE
    /\ commandFaults = 0
    /\ hostCrashes = 0

CommandFails ==
    /\ commandFaults < MaxCommandFaults
    /\ commandFaults' = commandFaults + 1

HostCrashes ==
    /\ hostCrashes < MaxHostCrashes
    /\ hostCrashes' = hostCrashes + 1

Unfinished(st) == st.op.status \in {"accepted", "running"}

\* what Compose runs with the override file, or with docker-compose.yml alone
Composed(withOverride) == IF withOverride /\ override # NoFile THEN override ELSE 0

\* compose up: the Supervisor is replaced, and restarted, only when its image changes
Up(services, release) ==
    /\ runs' = [s \in Services |-> IF s \in services THEN release ELSE runs[s]]
    /\ supervisor' = IF runs'["supervisor"] # runs["supervisor"] THEN "down" ELSE supervisor

\* a compose up that fails may have replaced some of the services
UpPartly(services, release) == \E replaced \in SUBSET services : Up(replaced, release)

At(n, step) == updater[n].at = step
GoesTo(n, step) == updater' = [updater EXCEPT ![n].at = step]

(***************************************************************************)
(* The Supervisor.                                                         *)
(***************************************************************************)
\* POST /v1/update: the handler loads the state once; its operation gets an id of its own
LoadRequest(n) ==
    /\ supervisor = "serving"
    /\ ~Unfinished(state)
    /\ n = held.op.id + 1
    /\ supervisor' = "checking"
    /\ held' = [state EXCEPT !.op = [id |-> n, status |-> "accepted", stage |-> "accepted"]]
    /\ UNCHANGED <<overlap, files, state, runs, updater, recovery, commandFaults, hostCrashes>>

\* the release does not verify
RefuseRequest ==
    /\ supervisor = "checking"
    /\ supervisor' = "serving"
    /\ UNCHANGED <<held, overlap, files, state, runs, updater, recovery, commandFaults,
                   hostCrashes>>

\* the state it had loaded is saved with the operation, then the plan is written
AcceptUpdate ==
    /\ supervisor = "checking"
    /\ supervisor' = "launching"
    /\ state' = held
    /\ plans' = plans \cup {held.op.id}
    /\ UNCHANGED <<held, overlap, override, previous, lock, runs, updater, recovery,
                   commandFaults, hostCrashes>>

\* a docker run that fails may have started the helper all the same, without its plan
LaunchHelper ==
    /\ supervisor = "launching"
    /\ supervisor' = "serving"
    /\ \/ /\ GoesTo(held.op.id, "lock")
          /\ UNCHANGED <<plans, state, commandFaults>>
       \/ /\ CommandFails
          /\ plans' = plans \ {held.op.id}
          /\ state' = [held EXCEPT !.op.status = "failed", !.op.stage = "ended"]
          /\ \/ GoesTo(held.op.id, "lock")
             \/ UNCHANGED updater
    /\ UNCHANGED <<held, overlap, override, previous, lock, runs, recovery, hostCrashes>>

Alive(n) == updater[n].at # "off"

NobodyLooks(n) == FALSE                               \* mutant

\* docker ps, filtered by the label of the update
StillUpdating(n) == Alive(n)

\* launchRecoveryHelper, before the server listens
SupervisorStarts ==
    /\ supervisor = "down"
    /\ supervisor' = "serving"
    /\ recovery' = IF /\ Unfinished(state)
                      /\ ~StillUpdating(state.op.id)
                      /\ recovery.at = "off"
                   THEN [NoRecovery EXCEPT !.at = "load", !.id = state.op.id]
                   ELSE recovery
    /\ UNCHANGED <<held, overlap, files, state, runs, updater, commandFaults, hostCrashes>>

(***************************************************************************)
(* The update helper.                                                      *)
(***************************************************************************)
\* has taken the lock and not ended
AtWork(n) == updater[n].at \notin {"off", "lock"}

\* without the lock the helper ends before its try block: nothing is cleaned up
TakeLock(n) ==
    /\ At(n, "lock")
    /\ GoesTo(n, IF lock THEN "off" ELSE "read")
    /\ lock' = TRUE
    /\ overlap' = (overlap \/ (~lock /\ (recovery.at # "off" \/ \E m \in Updates : AtWork(m))))
    /\ UNCHANGED <<held, override, previous, plans, state, runs, supervisor, recovery,
                   commandFaults, hostCrashes>>

ReadPlan(n) ==
    /\ At(n, "read")
    /\ \/ /\ n \in plans /\ state.op.id = n
          /\ updater' = [updater EXCEPT
                 ![n] = [@ EXCEPT !.at = "prepare", !.had = override # NoFile,
                                  !.read = state, !.known = TRUE]]
          /\ state' = [state EXCEPT !.op.status = "running", !.op.stage = "early"]
       \/ \* the plan is gone, or the state names another operation
          /\ ~(n \in plans /\ state.op.id = n)
          /\ updater' = [updater EXCEPT
                 ![n] = [@ EXCEPT !.at = "restore", !.read = state, !.known = n \in plans]]
          /\ UNCHANGED state
    /\ UNCHANGED <<held, overlap, files, runs, supervisor, recovery, commandFaults, hostCrashes>>

\* the release is verified and the current override saved under the update's id
Prepare(n) ==
    /\ At(n, "prepare")
    /\ \/ /\ updater' = [updater EXCEPT ![n] = [@ EXCEPT !.at = "pull", !.prepared = TRUE]]
          /\ previous' = [previous EXCEPT ![n] = IF updater[n].had THEN override ELSE @]
          /\ UNCHANGED commandFaults
       \/ /\ CommandFails
          /\ GoesTo(n, "restore")
          /\ UNCHANGED previous
    /\ UNCHANGED <<held, overlap, override, lock, plans, state, runs, supervisor, recovery,
                   hostCrashes>>

\* updateOperation: the helper's copy of its operation replaces the one in the state
SaveStage(n, stage) ==
    state' = [state EXCEPT !.op = [id |-> n, status |-> "running", stage |-> stage]]

\* backup and image pulls, then the stage "switching"
Pull(n) ==
    /\ At(n, "pull")
    /\ \/ GoesTo(n, "write") /\ SaveStage(n, "switching") /\ UNCHANGED commandFaults
       \/ CommandFails /\ GoesTo(n, "restore") /\ UNCHANGED state
    /\ UNCHANGED <<held, overlap, files, runs, supervisor, recovery, hostCrashes>>

WriteOverride(n) ==
    /\ At(n, "write")
    /\ override' = n + 1
    /\ updater' = [updater EXCEPT ![n] = [@ EXCEPT !.at = "stage", !.service = "api"]]
    /\ UNCHANGED <<held, overlap, previous, lock, plans, state, runs, supervisor, recovery,
                   commandFaults,
                   hostCrashes>>

MarkStage(n) ==
    /\ At(n, "stage")
    /\ SaveStage(n, updater[n].service)
    /\ GoesTo(n, "up")
    /\ UNCHANGED <<held, overlap, files, runs, supervisor, recovery, commandFaults, hostCrashes>>

SwitchService(n) ==
    /\ At(n, "up")
    /\ \/ /\ Up({updater[n].service}, Composed(TRUE))
          /\ GoesTo(n, "wait")
          /\ UNCHANGED commandFaults
       \/ /\ CommandFails
          /\ GoesTo(n, "restore")
          /\ UpPartly({updater[n].service}, Composed(TRUE))
    /\ UNCHANGED <<held, overlap, files, state, recovery, hostCrashes>>

NextService(s) == IF s = "api" THEN "web" ELSE "supervisor"

\* the Supervisor is healthy only once it listens
Healthy(s) == s = "supervisor" => supervisor # "down"

AwaitService(n) ==
    /\ At(n, "wait")
    /\ \/ /\ Healthy(updater[n].service)
          /\ IF updater[n].service = "supervisor" THEN GoesTo(n, "finish")
             ELSE updater' = [updater EXCEPT
                      ![n] = [@ EXCEPT !.at = "stage",
                                       !.service = NextService(updater[n].service)]]
          /\ UNCHANGED commandFaults
       \/ CommandFails /\ GoesTo(n, "restore")
    /\ UNCHANGED <<held, overlap, files, state, runs, supervisor, recovery, hostCrashes>>

\* the whole state is replaced
FinishUpdate(n) ==
    /\ At(n, "finish")
    /\ state' = [current |-> n + 1, images |-> TRUE,
                 op |-> [id |-> n, status |-> "succeeded", stage |-> "ended"]]
    /\ GoesTo(n, "tidy")
    /\ UNCHANGED <<held, overlap, files, runs, supervisor, recovery, commandFaults, hostCrashes>>

\* the handler: override, state, services, in this order
RestoreOverride(n) ==
    /\ At(n, "restore")
    /\ override' = IF ~updater[n].prepared THEN override
                   ELSE IF ~updater[n].had THEN NoFile
                   ELSE IF previous[n] # NoFile THEN previous[n] ELSE override
    /\ GoesTo(n, "record")
    /\ UNCHANGED <<held, overlap, previous, lock, plans, state, runs, supervisor, recovery,
                   commandFaults,
                   hostCrashes>>

\* the state as the helper first read it, with the operation it read marked
RecordRollback(n) ==
    /\ At(n, "record")
    /\ state' = IF updater[n].known
                THEN [updater[n].read EXCEPT !.op.status = "rolled-back", !.op.stage = "ended"]
                ELSE state
    /\ GoesTo(n, IF updater[n].known /\ updater[n].read.op.id = n THEN "downgrade" ELSE "tidy")
    /\ UNCHANGED <<held, overlap, files, runs, supervisor, recovery, commandFaults, hostCrashes>>

\* a failing rollback command is swallowed
Downgrade(n) ==
    /\ At(n, "downgrade")
    /\ \/ Up(Services, Composed(updater[n].had)) /\ UNCHANGED commandFaults
       \/ CommandFails /\ UpPartly(Services, Composed(updater[n].had))
    /\ GoesTo(n, "tidy")
    /\ UNCHANGED <<held, overlap, files, state, recovery, hostCrashes>>

Tidy(n) ==
    /\ At(n, "tidy")
    /\ plans' = plans \ {n}
    /\ previous' = [previous EXCEPT ![n] = NoFile]
    /\ lock' = FALSE
    /\ updater' = [updater EXCEPT ![n] = NoUpdater]
    /\ UNCHANGED <<held, overlap, override, state, runs, supervisor, recovery, commandFaults,
                   hostCrashes>>

(***************************************************************************)
(* The recovery helper works on the state it has read.                     *)
(***************************************************************************)
RecoveryAt(step) == recovery.at = step
RecoveryGoes(step) == recovery' = [recovery EXCEPT !.at = step]

RecoveryLoads ==
    /\ RecoveryAt("load")
    /\ recovery' = IF state.op.id = recovery.id /\ Unfinished(state)
                   THEN [recovery EXCEPT !.at = "look", !.read = state]
                   ELSE NoRecovery
    /\ UNCHANGED <<held, overlap, files, state, runs, supervisor, updater, commandFaults,
                   hostCrashes>>

Changed == recovery.read.op.stage \in {"switching", "api", "web", "supervisor"}

RecoveryLooks ==
    /\ RecoveryAt("look")
    /\ recovery' = IF StillUpdating(recovery.id) THEN NoRecovery
                   ELSE [recovery EXCEPT !.at = IF Changed THEN "restore" ELSE "record"]
    /\ UNCHANGED <<held, overlap, files, state, runs, supervisor, updater, commandFaults,
                   hostCrashes>>

NeverSigned == FALSE                                  \* mutant

SignedInstallation == recovery.read.images

\* the saved override is moved, not copied
RecoveryRestores ==
    /\ RecoveryAt("restore")
    /\ LET saved == previous[recovery.id] IN
       \/ /\ saved # NoFile
          /\ override' = saved
          /\ previous' = [previous EXCEPT ![recovery.id] = NoFile]
          /\ recovery' = [recovery EXCEPT !.at = "up", !.had = TRUE]
       \/ /\ saved = NoFile /\ SignedInstallation
          /\ RecoveryGoes("failed")
          /\ UNCHANGED <<override, previous>>
       \/ /\ saved = NoFile /\ ~SignedInstallation
          /\ override' = NoFile
          /\ recovery' = [recovery EXCEPT !.at = "up", !.had = FALSE]
          /\ UNCHANGED previous
    /\ UNCHANGED <<held, overlap, lock, plans, state, runs, supervisor, updater, commandFaults,
                   hostCrashes>>

RecoverySwitches ==
    /\ RecoveryAt("up")
    /\ \/ /\ Up({"api", "web"}, Composed(recovery.had))
          /\ RecoveryGoes("record")
          /\ UNCHANGED commandFaults
       \/ /\ CommandFails
          /\ RecoveryGoes("failed")
          /\ UpPartly({"api", "web"}, Composed(recovery.had))
    /\ UNCHANGED <<held, overlap, files, state, updater, hostCrashes>>

RecoveryRecords ==
    /\ RecoveryAt("record")
    /\ state' = [recovery.read EXCEPT !.op.status = IF Changed THEN "rolled-back" ELSE "failed",
                                      !.op.stage = "ended"]
    /\ RecoveryGoes(IF recovery.read.op.stage = "supervisor" THEN "supervisor" ELSE "tidy")
    /\ UNCHANGED <<held, overlap, files, runs, supervisor, updater, commandFaults, hostCrashes>>

\* asks again whether the saved override exists
RecoverySwitchesSupervisor ==
    /\ RecoveryAt("supervisor")
    /\ \/ /\ Up({"supervisor"}, Composed(previous[recovery.id] # NoFile))
          /\ RecoveryGoes("tidy")
          /\ UNCHANGED commandFaults
       \/ /\ CommandFails
          /\ RecoveryGoes("failed")
          /\ UpPartly({"supervisor"}, Composed(previous[recovery.id] # NoFile))
    /\ UNCHANGED <<held, overlap, files, state, updater, hostCrashes>>

RecoveryTidies ==
    /\ RecoveryAt("tidy")
    /\ plans' = plans \ {recovery.id}
    /\ previous' = [previous EXCEPT ![recovery.id] = NoFile]
    /\ lock' = FALSE
    /\ recovery' = NoRecovery
    /\ UNCHANGED <<held, overlap, override, state, runs, supervisor, updater, commandFaults,
                   hostCrashes>>

\* neither the lock nor the plan is removed
RecoveryFails ==
    /\ RecoveryAt("failed")
    /\ state' = [recovery.read EXCEPT !.op.status = "failed", !.op.stage = "ended"]
    /\ recovery' = NoRecovery
    /\ UNCHANGED <<held, overlap, files, runs, supervisor, updater, commandFaults, hostCrashes>>

(***************************************************************************)
(* Crashes: one helper dies, or the host restarts and the Supervisor with  *)
(* it (restart: unless-stopped; the helpers are run with --rm).            *)
(***************************************************************************)
UpdaterDies(n) ==
    /\ Alive(n)
    /\ HostCrashes
    /\ updater' = [updater EXCEPT ![n] = NoUpdater]
    /\ UNCHANGED <<held, overlap, files, state, runs, supervisor, recovery, commandFaults>>

HostRestarts ==
    /\ HostCrashes
    /\ updater' = [n \in Updates |-> NoUpdater]
    /\ recovery' = NoRecovery
    /\ supervisor' = "down"
    /\ UNCHANGED <<held, overlap, files, state, runs, commandFaults>>

PlatformNext ==
    \/ \E n \in Updates :
           \/ LoadRequest(n) \/ TakeLock(n) \/ ReadPlan(n) \/ Prepare(n) \/ Pull(n)
           \/ WriteOverride(n) \/ MarkStage(n) \/ SwitchService(n) \/ AwaitService(n)
           \/ FinishUpdate(n) \/ RestoreOverride(n) \/ RecordRollback(n) \/ Downgrade(n)
           \/ Tidy(n) \/ UpdaterDies(n)
    \/ RefuseRequest \/ AcceptUpdate \/ LaunchHelper \/ SupervisorStarts
    \/ RecoveryLoads \/ RecoveryLooks \/ RecoveryRestores \/ RecoverySwitches
    \/ RecoveryRecords \/ RecoverySwitchesSupervisor \/ RecoveryTidies \/ RecoveryFails
    \/ HostRestarts

PlatformSpec == PlatformInit /\ [][PlatformNext]_platformVars

-----------------------------------------------------------------------------
QuietHost == recovery.at = "off" /\ \A n \in Updates : ~Alive(n)

(***************************************************************************)
(* Once an update is recorded as succeeded and nothing is at work, all     *)
(* three services run its release and the override names it - unless the   *)
(* update took the lock while a recovery or another helper was still at    *)
(* work (a recovery takes no lock, and removes the one of a later helper). *)
(***************************************************************************)
SucceededRunsRelease ==
    QuietHost /\ state.op.status = "succeeded" /\ ~overlap =>
        /\ override = state.current
        /\ \A s \in Services : runs[s] = state.current

(***************************************************************************)
(* An installation that has been updated once keeps an active release      *)
(* definition through every failure (ADR-114: a failure can no longer      *)
(* remove the only active Compose definition), with the same exception.    *)
(***************************************************************************)
ReleaseDefinitionSurvives == state.images /\ ~overlap => override > 0

(***************************************************************************)
(* What ADR-111, ADR-113 and updater.test.ts promise of a rollback: the    *)
(* services run the last completed configuration.  The model violates it.  *)
(***************************************************************************)
RolledBackRunsPrevious ==
    QuietHost /\ state.op.status = "rolled-back" =>
        \A s \in Services : runs[s] = state.current

=============================================================================
