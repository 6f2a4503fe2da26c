----------------------------- MODULE ReleaseProofs -----------------------------
(***************************************************************************)
(* Proofs about what may be deployed: ArtifactIngestion, for every number  *)
(* of processes, claims and faults, and ProductionApprovals, for every     *)
(* number of reviewers, requests, operations, changes and mishaps.         *)
(***************************************************************************)
EXTENDS ArtifactIngestion, ProductionApprovals, TLAPS

-----------------------------------------------------------------------------
(* ArtifactIngestion *)

IngesterState == [at: IngesterSteps, generation: -1 .. MaxIngestions, keyed: BOOLEAN, sure: BOOLEAN]
ArtifactRow == [status: ArtifactStatuses, owner: Ingesters \cup {0},
                generation: 0 .. MaxIngestions, lapsed: BOOLEAN]

\* What excuses an artifact without its object.
Excused == retention = "mark" \/ halfPruned \/ lateDelete

\* A process that has confirmed the object and still has its claim may rely on it.
ConfirmedHasObject ==
    \A w \in Ingesters :
        ingester[w].at \in {"assert", "publish"} /\ Fenced(w) => object \/ Excused

\* Only a process that held the lease on its failure path deletes.
DeletesSure == \A w \in Ingesters : ingester[w].at = "delete" => ingester[w].sure

ArtifactInv ==
    /\ ArtifactTypeOK
    /\ AvailableHasObject
    /\ ConfirmedHasObject
    /\ DeletesSure

(* What the type invariant says, with the rows and processes as sets of records. *)
LEMMA ArtifactFacts ==
  ASSUME ArtifactInv
  PROVE  /\ origin \in {"github", "gitea"} /\ object \in BOOLEAN
         /\ artifact \in ArtifactRow /\ ingester \in [Ingesters -> IngesterState]
         /\ artifact.generation \in 0 .. MaxIngestions
         /\ retention \in {"idle", "delete", "mark"}
         /\ lateDelete \in BOOLEAN /\ halfPruned \in BOOLEAN
         /\ artifactFaults \in 0 .. MaxArtifactFaults
  BY DEF ArtifactInv, ArtifactTypeOK, ArtifactRow, IngesterState

(* One process moves: it goes to a step, or to a whole new state. *)
LEMMA IngesterMoves ==
  ASSUME ArtifactInv, NEW w \in Ingesters, NEW new \in IngesterState,
         ingester' = [ingester EXCEPT ![w] = new]
  PROVE  /\ ingester' \in [Ingesters -> IngesterState]
         /\ ingester'[w] = new
         /\ \A v \in Ingesters : v # w => ingester'[v] = ingester[v]
  BY ArtifactFacts

(* Moves() keeps the claim of the process. *)
LEMMA MovesState ==
  ASSUME ArtifactInv, NEW w \in Ingesters, NEW step \in IngesterSteps, Moves(w, step)
  PROVE  /\ ingester' \in [Ingesters -> IngesterState]
         /\ ingester'[w].at = step /\ ingester'[w].generation = ingester[w].generation
         /\ ingester'[w].sure = ingester[w].sure
         /\ \A v \in Ingesters : v # w => ingester'[v] = ingester[v]
<1> DEFINE new == [ingester[w] EXCEPT !.at = step]
<1>1. /\ new \in IngesterState /\ new.at = step
      /\ new.generation = ingester[w].generation /\ new.sure = ingester[w].sure
  BY ArtifactFacts DEF IngesterState
<1>2. ingester' = [ingester EXCEPT ![w] = new]
  BY DEF Moves
<1> HIDE DEF new
<1> QED
  BY <1>1, <1>2, IngesterMoves

(* An upset is counted within its bound. *)
LEMMA UpsetCounted ==
  ASSUME ArtifactInv, ArtifactUpset \/ UNCHANGED artifactFaults
  PROVE  artifactFaults' \in 0 .. MaxArtifactFaults
  BY ArtifactFacts, IngestersAssumption DEF ArtifactUpset

(* The states of a process, and the row after a release or an acceptance. *)
LEMMA ReleasedRow ==
  ASSUME ArtifactInv, NEW status \in ArtifactStatuses
  PROVE  /\ ReleasedAs(status) \in ArtifactRow
         /\ ReleasedAs(status).status = status /\ ReleasedAs(status).owner = 0
  BY ArtifactFacts DEF ReleasedAs, ArtifactRow

Backed == object \/ Excused

(* A step that leaves the row alone. *)
LEMMA SameRow ==
  ASSUME ArtifactInv, ArtifactTypeOK', DeletesSure', UNCHANGED artifact,
         Backed => Backed',
         NEW w, \A v \in Ingesters : v # w => ingester'[v] = ingester[v],
         w \in Ingesters /\ ingester'[w].at \in {"assert", "publish"} =>
             \/ Backed'
             \/ /\ ingester[w].at \in {"assert", "publish"}
                /\ ingester'[w].generation = ingester[w].generation
  PROVE  ArtifactInv'
<1>1. AvailableHasObject'
  BY DEF ArtifactInv, AvailableHasObject, Backed, Excused
<1>2. ConfirmedHasObject'
  <2> SUFFICES ASSUME NEW v \in Ingesters, ingester'[v].at \in {"assert", "publish"}, Fenced(v)'
               PROVE  Backed'
    BY DEF ConfirmedHasObject, Backed
  <2>1. CASE v = w
    BY <2>1 DEF ArtifactInv, ConfirmedHasObject, Backed, Fenced
  <2>2. CASE v # w
    BY <2>2 DEF ArtifactInv, ConfirmedHasObject, Backed, Fenced
  <2> QED
    BY <2>1, <2>2
<1> QED
  BY <1>1, <1>2 DEF ArtifactInv

(* A step after which the row is neither offered nor claimed. *)
LEMMA UnclaimedRow ==
  ASSUME ArtifactTypeOK', DeletesSure',
         artifact'.status # "available",
         artifact'.status # "ingesting" \/ artifact'.owner = 0
  PROVE  ArtifactInv'
<1>1. \A w \in Ingesters : ~Fenced(w)'
  BY IngestersAssumption DEF Fenced
<1> QED
  BY <1>1 DEF ArtifactInv, AvailableHasObject, ConfirmedHasObject

(* DeletesSure, when one process moves. *)
LEMMA SureKept ==
  ASSUME ArtifactInv, NEW w \in Ingesters, \A v \in Ingesters : v # w => ingester'[v] = ingester[v],
         ingester'[w].at = "delete" => ingester'[w].sure
  PROVE  DeletesSure'
  BY DEF ArtifactInv, DeletesSure

(* accept(), and the way to a claim of the Gitea path. *)
LEMMA ArrivalKeeps ==
  ASSUME ArtifactInv, NEW w \in Ingesters, Accept(w) \/ Look(w) \/ Reserve(w)
  PROVE  ArtifactInv'
<1>1. UNCHANGED <<origin, object, retention, lateDelete, halfPruned, artifactFaults>>
  BY DEF Accept, Look, Reserve
<1>2. PICK new \in IngesterState :
        /\ ingester' = [ingester EXCEPT ![w] = new]
        /\ new.at \in {"claim", "reserve", "idle"}
  <2>1. ASSUME NEW step \in {"claim"}, Moves(w, step)
        PROVE  \E new \in IngesterState : ingester' = [ingester EXCEPT ![w] = new] /\ new.at = "claim"
    <3> DEFINE new == [ingester[w] EXCEPT !.at = step]
    <3>1. new \in IngesterState /\ new.at = "claim"
      BY <2>1, ArtifactFacts DEF IngesterState, IngesterSteps
    <3>2. ingester' = [ingester EXCEPT ![w] = new]
      BY <2>1 DEF Moves
    <3> HIDE DEF new
    <3> QED
      BY <3>1, <3>2
  <2>2. Idling \in IngesterState /\ Idling.at = "idle"
    BY IngestersAssumption DEF Idling, IngesterState, IngesterSteps
  <2>3. CASE Look(w)
    <3> DEFINE g == IF artifact.status = "available" THEN artifact.generation ELSE -1
               new == [Idling EXCEPT !.at = "reserve", !.generation = g]
    <3>1. g \in -1 .. MaxIngestions
      BY ArtifactFacts, IngestersAssumption
    <3>2. ingester' = [ingester EXCEPT ![w] = new]
      BY <2>3 DEF Look
    <3> HIDE DEF g
    <3>3. new \in IngesterState /\ new.at = "reserve"
      BY <3>1 DEF Idling, IngesterState, IngesterSteps
    <3> HIDE DEF new
    <3> QED
      BY <3>2, <3>3
  <2>4. CASE Accept(w) \/ Reserve(w)
    <3>1. Moves(w, "claim") \/ ingester' = [ingester EXCEPT ![w] = Idling]
      BY <2>4 DEF Accept, Reserve
    <3> QED
      BY <2>1, <2>2, <3>1
  <2> QED
    BY <2>3, <2>4
<1>3. /\ ingester' \in [Ingesters -> IngesterState]
      /\ ingester'[w].at \notin {"assert", "publish", "delete"}
      /\ \A v \in Ingesters : v # w => ingester'[v] = ingester[v]
  BY <1>2, IngesterMoves
<1>4. DeletesSure'
  BY <1>3, SureKept
<1>5. CASE UNCHANGED artifact
  <2>1. ArtifactTypeOK'
    BY <1>1, <1>3, <1>5, ArtifactFacts DEF ArtifactTypeOK, ArtifactRow, IngesterState
  <2>2. Backed => Backed'
    BY <1>1 DEF Backed, Excused
  <2> QED
    BY <1>3, <1>4, <1>5, <2>1, <2>2, SameRow
<1>6. CASE artifact' = Waiting
  <2>1. artifact' \in ArtifactRow /\ artifact'.status = "accepted"
    BY <1>6, ArtifactFacts DEF Waiting, ArtifactRow, ArtifactStatuses
  <2>2. ArtifactTypeOK'
    BY <1>1, <1>3, <2>1, ArtifactFacts DEF ArtifactTypeOK, ArtifactRow, IngesterState
  <2> QED
    BY <1>4, <2>1, <2>2, UnclaimedRow
<1> QED
  BY <1>5, <1>6 DEF Accept, Look, Reserve

(* A claim is of a generation no other process has. *)
LEMMA ClaimKeeps ==
  ASSUME ArtifactInv, NEW w \in Ingesters, ClaimIngestion(w)
  PROVE  ArtifactInv'
<1>1. UNCHANGED <<origin, object, retention, lateDelete, halfPruned, artifactFaults>>
  BY DEF ClaimIngestion
<1>2. CASE ingester' = [ingester EXCEPT ![w] = Idling] /\ UNCHANGED artifact
  <2>1. Idling \in IngesterState /\ Idling.at = "idle"
    BY IngestersAssumption DEF Idling, IngesterState, IngesterSteps
  <2>2. /\ ingester' \in [Ingesters -> IngesterState] /\ ingester'[w].at = "idle"
        /\ \A v \in Ingesters : v # w => ingester'[v] = ingester[v]
    BY <1>2, <2>1, IngesterMoves
  <2>3. ArtifactTypeOK'
    BY <1>1, <1>2, <2>2, ArtifactFacts DEF ArtifactTypeOK, ArtifactRow, IngesterState
  <2>4. DeletesSure' /\ (Backed => Backed')
    BY <1>1, <2>2, SureKept DEF Backed, Excused
  <2> QED
    BY <1>2, <2>2, <2>3, <2>4, SameRow
<1>3. CASE /\ artifact.generation < MaxIngestions
           /\ artifact' = [status |-> "ingesting", owner |-> w, lapsed |-> FALSE,
                           generation |-> artifact.generation + 1]
           /\ ingester' = [ingester EXCEPT
                  ![w] = [at |-> IF origin = "github" THEN "fetch" ELSE "put",
                          generation |-> artifact.generation + 1,
                          keyed |-> origin = "gitea", sure |-> FALSE]]
  <2> DEFINE g == artifact.generation + 1
             new == [at |-> IF origin = "github" THEN "fetch" ELSE "put", generation |-> g,
                     keyed |-> origin = "gitea", sure |-> FALSE]
  <2>1. g \in 0 .. MaxIngestions /\ g \in -1 .. MaxIngestions
    BY <1>3, ArtifactFacts, IngestersAssumption
  <2>2. /\ ingester' = [ingester EXCEPT ![w] = new]
        /\ artifact' = [status |-> "ingesting", owner |-> w, lapsed |-> FALSE, generation |-> g]
    BY <1>3
  <2> HIDE DEF g
  <2>3. new \in IngesterState /\ new.at \in {"fetch", "put"}
    <3>1. (IF origin = "github" THEN "fetch" ELSE "put") \in {"fetch", "put"}
      OBVIOUS
    <3>2. (origin = "gitea") \in BOOLEAN
      OBVIOUS
    <3> QED
      BY <2>1, <3>1, <3>2 DEF IngesterState, IngesterSteps
  <2> HIDE DEF new
  <2>4. /\ ingester' \in [Ingesters -> IngesterState] /\ ingester'[w].at \in {"fetch", "put"}
        /\ \A v \in Ingesters : v # w => ingester'[v] = ingester[v]
    BY <2>2, <2>3, IngesterMoves
  <2>5. artifact' \in ArtifactRow /\ artifact'.status = "ingesting" /\ artifact'.owner = w
    BY <2>1, <2>2 DEF ArtifactRow, ArtifactStatuses
  <2>6. ArtifactTypeOK'
    BY <1>1, <2>4, <2>5, ArtifactFacts DEF ArtifactTypeOK, ArtifactRow, IngesterState
  <2>7. DeletesSure'
    BY <2>4, SureKept
  <2>8. AvailableHasObject' /\ ConfirmedHasObject'
    BY <2>4, <2>5 DEF AvailableHasObject, ConfirmedHasObject, Fenced
  <2> QED
    BY <2>6, <2>7, <2>8 DEF ArtifactInv
<1> QED
  BY <1>2, <1>3, Zenon DEF ClaimIngestion

(* A process that moves, with the row as it is and the object no less there. *)
LEMMA WorkerKeeps ==
  ASSUME ArtifactInv, NEW w \in Ingesters, UNCHANGED <<origin, artifact, retention>>,
         object' \in BOOLEAN, lateDelete' \in BOOLEAN, halfPruned' \in BOOLEAN,
         ArtifactUpset \/ UNCHANGED artifactFaults,
         ingester' \in [Ingesters -> IngesterState],
         \A v \in Ingesters : v # w => ingester'[v] = ingester[v],
         Backed => Backed',
         ingester'[w].at = "delete" => ingester'[w].sure,
         ingester'[w].at \in {"assert", "publish"} =>
             \/ Backed'
             \/ /\ ingester[w].at \in {"assert", "publish"}
                /\ ingester'[w].generation = ingester[w].generation
  PROVE  ArtifactInv'
<1>1. ArtifactTypeOK'
  BY ArtifactFacts, UpsetCounted DEF ArtifactTypeOK, ArtifactRow, IngesterState
<1>2. DeletesSure'
  BY SureKept
<1> QED
  BY <1>1, <1>2, SameRow

(* The work under the lease: Confirm() looks at the object before anything     *)
(* relies on it.                                                               *)
LEMMA WorkKeeps ==
  ASSUME ArtifactInv, NEW w \in Ingesters, Fetch(w) \/ Put(w) \/ Confirm(w) \/ AssertLease(w)
  PROVE  ArtifactInv'
<1>1. CASE Fetch(w)
  <2>1. /\ UNCHANGED <<origin, artifact, object, retention, lateDelete, halfPruned>>
        /\ ArtifactUpset \/ UNCHANGED artifactFaults
        /\ Moves(w, "failing") \/ ingester' = [ingester EXCEPT ![w].at = "put", ![w].keyed = TRUE]
    BY <1>1 DEF Fetch
  <2>2. PICK new \in IngesterState :
           ingester' = [ingester EXCEPT ![w] = new] /\ new.at \in {"failing", "put"}
    <3>1. CASE Moves(w, "failing")
      <4> DEFINE new == [ingester[w] EXCEPT !.at = "failing"]
      <4>1. new \in IngesterState /\ new.at = "failing"
        BY ArtifactFacts DEF IngesterState, IngesterSteps
      <4>2. ingester' = [ingester EXCEPT ![w] = new]
        BY <3>1 DEF Moves
      <4> HIDE DEF new
      <4> QED
        BY <4>1, <4>2
    <3>2. CASE ingester' = [ingester EXCEPT ![w].at = "put", ![w].keyed = TRUE]
      <4> DEFINE new == [ingester[w] EXCEPT !.at = "put", !.keyed = TRUE]
      <4>1. new \in IngesterState /\ new.at = "put"
        BY ArtifactFacts DEF IngesterState, IngesterSteps
      <4>2. ingester' = [ingester EXCEPT ![w] = new]
        BY <3>2
      <4> HIDE DEF new
      <4> QED
        BY <4>1, <4>2
    <3> QED
      BY <2>1, <3>1, <3>2
  <2>3. /\ ingester' \in [Ingesters -> IngesterState] /\ ingester'[w].at \in {"failing", "put"}
        /\ \A v \in Ingesters : v # w => ingester'[v] = ingester[v]
    BY <2>2, IngesterMoves
  <2>4. /\ object' \in BOOLEAN /\ lateDelete' \in BOOLEAN /\ halfPruned' \in BOOLEAN
        /\ Backed => Backed'
    BY <2>1, ArtifactFacts DEF Backed, Excused
  <2> QED
    BY <2>1, <2>3, <2>4, WorkerKeeps
<1>2. CASE Put(w)
  <2>1. /\ UNCHANGED <<origin, artifact, retention>>
        /\ ArtifactUpset \/ UNCHANGED artifactFaults
        /\ object' = TRUE \/ object' = object
        /\ (Moves(w, "confirm") /\ object') \/ Moves(w, "failing")
    BY <1>2 DEF Put
  <2>2. lateDelete' = (lateDelete /\ ~object') /\ halfPruned' = (halfPruned /\ ~object')
    BY <1>2, Zenon DEF Put
  <2>3. /\ object' \in BOOLEAN /\ lateDelete' \in BOOLEAN /\ halfPruned' \in BOOLEAN
        /\ Backed => Backed'
    <3>1. object' \in BOOLEAN
      BY <2>1, ArtifactFacts
    <3>2. lateDelete' \in BOOLEAN /\ halfPruned' \in BOOLEAN
      BY <2>2, Zenon
    <3>3. CASE object'
      BY <3>1, <3>2, <3>3 DEF Backed
    <3>4. CASE ~object'
      <4>1. ~object /\ retention' = retention
        BY <2>1, <3>4
      <4>2. (lateDelete => lateDelete') /\ (halfPruned => halfPruned')
        BY <2>2, <3>4, Zenon
      <4> QED
        BY <3>1, <3>2, <4>1, <4>2 DEF Backed, Excused
    <3> QED
      BY <3>3, <3>4
  <2>4. /\ ingester' \in [Ingesters -> IngesterState] /\ ingester'[w].at \in {"confirm", "failing"}
        /\ \A v \in Ingesters : v # w => ingester'[v] = ingester[v]
    BY <2>1, MovesState DEF IngesterSteps
  <2>5. ingester'[w].at \notin {"delete", "assert", "publish"}
    BY <2>4
  <2>6. UNCHANGED <<origin, artifact, retention>> /\ (ArtifactUpset \/ UNCHANGED artifactFaults)
    BY <2>1
  <2> QED
    BY <2>3, <2>4, <2>5, <2>6, WorkerKeeps
<1>3. CASE Confirm(w)
  <2>1. /\ UNCHANGED <<origin, artifact, object, retention, lateDelete, halfPruned, artifactFaults>>
        /\ (Moves(w, "assert") /\ object) \/ Moves(w, "failing")
    BY <1>3 DEF Confirm
  <2>2. /\ object' \in BOOLEAN /\ lateDelete' \in BOOLEAN /\ halfPruned' \in BOOLEAN
        /\ Backed => Backed'
    BY <2>1, ArtifactFacts DEF Backed, Excused
  <2>3. /\ ingester' \in [Ingesters -> IngesterState]
        /\ ingester'[w].at = "failing" \/ (ingester'[w].at = "assert" /\ object)
        /\ \A v \in Ingesters : v # w => ingester'[v] = ingester[v]
    BY <2>1, MovesState DEF IngesterSteps
  <2>4. ingester'[w].at = "assert" => Backed'
    BY <2>1, <2>3 DEF Backed
  <2> QED
    BY <2>1, <2>2, <2>3, <2>4, WorkerKeeps
<1>4. CASE AssertLease(w)
  <2>1. /\ UNCHANGED <<origin, artifact, object, retention, lateDelete, halfPruned>>
        /\ ArtifactUpset \/ UNCHANGED artifactFaults
        /\ ingester[w].at = "assert"
        /\ Moves(w, "publish") \/ Moves(w, "failing")
    BY <1>4 DEF AssertLease
  <2>2. /\ object' \in BOOLEAN /\ lateDelete' \in BOOLEAN /\ halfPruned' \in BOOLEAN
        /\ Backed => Backed'
    BY <2>1, ArtifactFacts DEF Backed, Excused
  <2>3. /\ ingester' \in [Ingesters -> IngesterState]
        /\ ingester'[w].at \in {"publish", "failing"}
        /\ ingester'[w].generation = ingester[w].generation
        /\ \A v \in Ingesters : v # w => ingester'[v] = ingester[v]
    BY <2>1, MovesState DEF IngesterSteps
  <2> QED
    BY <2>1, <2>2, <2>3, WorkerKeeps
<1> QED
  BY <1>1, <1>2, <1>3, <1>4

(* Publish() offers the artifact only under the fence, with its object. *)
LEMMA PublishKeeps ==
  ASSUME ArtifactInv, NEW w \in Ingesters, Publish(w)
  PROVE  ArtifactInv'
<1>1. UNCHANGED <<origin, object, retention, lateDelete, halfPruned, artifactFaults>>
  BY DEF Publish
<1>2. CASE Fenced(w)
  <2>1. artifact' = ReleasedAs("available") /\ ingester' = [ingester EXCEPT ![w] = Idling]
    BY <1>2 DEF Publish
  <2>2. Idling \in IngesterState /\ Idling.at = "idle"
    BY IngestersAssumption DEF Idling, IngesterState, IngesterSteps
  <2>3. /\ ingester' \in [Ingesters -> IngesterState] /\ ingester'[w].at = "idle"
        /\ \A v \in Ingesters : v # w => ingester'[v] = ingester[v]
    BY <2>1, <2>2, IngesterMoves
  <2>4. artifact' \in ArtifactRow /\ artifact'.status = "available" /\ artifact'.owner = 0
    BY <2>1, ReleasedRow DEF ArtifactStatuses
  <2>5. ArtifactTypeOK'
    BY <1>1, <2>3, <2>4, ArtifactFacts DEF ArtifactTypeOK, ArtifactRow, IngesterState
  <2>6. DeletesSure'
    BY <2>3, SureKept
  <2>7. AvailableHasObject'
    BY <1>1, <1>2 DEF Publish, ArtifactInv, ConfirmedHasObject, AvailableHasObject, Excused
  <2>8. ConfirmedHasObject'
    BY <2>4 DEF ConfirmedHasObject, Fenced
  <2> QED
    BY <2>5, <2>6, <2>7, <2>8 DEF ArtifactInv
<1>3. CASE ~Fenced(w)
  <2>1. UNCHANGED artifact /\ Moves(w, "failing")
    BY <1>3 DEF Publish
  <2>2. /\ ingester' \in [Ingesters -> IngesterState] /\ ingester'[w].at = "failing"
        /\ \A v \in Ingesters : v # w => ingester'[v] = ingester[v]
    BY <2>1, MovesState DEF IngesterSteps
  <2>3. /\ object' \in BOOLEAN /\ lateDelete' \in BOOLEAN /\ halfPruned' \in BOOLEAN
        /\ Backed => Backed'
    BY <1>1, ArtifactFacts DEF Backed, Excused
  <2> QED
    BY <1>1, <2>1, <2>2, <2>3, WorkerKeeps
<1> QED
  BY <1>2, <1>3

(* The failure path: what a process deletes is not relied on, or the lease was *)
(* lost after the check.                                                       *)
LEMMA CleanUpKeeps ==
  ASSUME ArtifactInv, NEW w \in Ingesters, FailureAssert(w) \/ DeletePartial(w)
  PROVE  ArtifactInv'
<1>1. CASE FailureAssert(w)
  <2> DEFINE step == IF ~Holds(w) THEN "release" ELSE IF ingester[w].keyed THEN "delete" ELSE "mark"
             new == [ingester[w] EXCEPT !.at = step, !.sure = Holds(w)]
  <2>1. /\ UNCHANGED <<origin, artifact, object, retention, lateDelete, halfPruned, artifactFaults>>
        /\ ingester' = [ingester EXCEPT ![w] = new]
    BY <1>1 DEF FailureAssert, MayCleanUp
  <2>2. Holds(w) \in BOOLEAN
    BY DEF Holds, Fenced
  <2>3. /\ new \in IngesterState /\ new.at \in {"release", "delete", "mark"}
        /\ new.at = "delete" => new.sure
    <3>1. step \in {"release", "delete", "mark"} /\ (step = "delete" => Holds(w))
      OBVIOUS
    <3> HIDE DEF step
    <3>2. new \in IngesterState /\ new.at = step /\ new.sure = Holds(w)
      BY <2>2, <3>1, ArtifactFacts DEF IngesterState, IngesterSteps
    <3> QED
      BY <3>1, <3>2
  <2> HIDE DEF new
  <2>4. /\ ingester' \in [Ingesters -> IngesterState] /\ ingester'[w] = new
        /\ \A v \in Ingesters : v # w => ingester'[v] = ingester[v]
    BY <2>1, <2>3, IngesterMoves
  <2>5. /\ object' \in BOOLEAN /\ lateDelete' \in BOOLEAN /\ halfPruned' \in BOOLEAN
        /\ Backed => Backed'
    BY <2>1, ArtifactFacts DEF Backed, Excused
  <2> QED
    BY <2>1, <2>3, <2>4, <2>5, WorkerKeeps
<1>2. CASE DeletePartial(w)
  <2>1. /\ UNCHANGED <<origin, artifact, retention, halfPruned>>
        /\ ArtifactUpset \/ UNCHANGED artifactFaults
        /\ object' = FALSE \/ object' = object
        /\ ingester[w].at = "delete" /\ Moves(w, "mark")
        /\ lateDelete' = (lateDelete \/ (ingester[w].sure /\ ~Fenced(w)))
    BY <1>2 DEF DeletePartial
  <2>2. /\ ingester' \in [Ingesters -> IngesterState] /\ ingester'[w].at = "mark"
        /\ \A v \in Ingesters : v # w => ingester'[v] = ingester[v]
    BY <2>1, MovesState DEF IngesterSteps
  <2>3. object' \in BOOLEAN /\ lateDelete' \in BOOLEAN /\ halfPruned' \in BOOLEAN
    BY <2>1, ArtifactFacts
  <2>4. CASE ~Fenced(w)
    <3>1. Backed'
      BY <2>1, <2>4 DEF ArtifactInv, DeletesSure, Backed, Excused
    <3> QED
      BY <2>1, <2>2, <2>3, <3>1, WorkerKeeps
  <2>5. CASE Fenced(w)
    <3>1. ArtifactTypeOK'
      BY <2>1, <2>2, <2>3, ArtifactFacts, UpsetCounted DEF ArtifactTypeOK, ArtifactRow, IngesterState
    <3>2. DeletesSure'
      BY <2>2, SureKept
    <3>3. AvailableHasObject'
      BY <2>1, <2>5 DEF AvailableHasObject, Fenced
    <3>4. \A v \in Ingesters : v # w => ~Fenced(v)'
      BY <2>1, <2>5 DEF Fenced
    <3>5. ConfirmedHasObject'
      BY <2>2, <3>4 DEF ConfirmedHasObject
    <3> QED
      BY <3>1, <3>2, <3>3, <3>5 DEF ArtifactInv
  <2> QED
    BY <2>4, <2>5
<1> QED
  BY <1>1, <1>2

(* The steps that end the work of a process, and the recovery of the row. *)
LEMMA EndsKeep ==
  ASSUME ArtifactInv,
         NEW w \in Ingesters, MarkFailed(w) \/ ReleaseIngestion(w) \/ IngesterStops(w)
  PROVE  ArtifactInv'
<1>1. /\ UNCHANGED <<origin, object, retention, lateDelete, halfPruned>>
      /\ ArtifactUpset \/ UNCHANGED artifactFaults
      /\ ingester' = [ingester EXCEPT ![w] = Idling]
  BY DEF MarkFailed, ReleaseIngestion, IngesterStops
<1>2. Idling \in IngesterState /\ Idling.at = "idle"
  BY IngestersAssumption DEF Idling, IngesterState, IngesterSteps
<1>3. /\ ingester' \in [Ingesters -> IngesterState]
      /\ ingester'[w].at \notin {"delete", "assert", "publish"}
      /\ \A v \in Ingesters : v # w => ingester'[v] = ingester[v]
  BY <1>1, <1>2, IngesterMoves
<1>4. CASE UNCHANGED artifact
  <2>1. /\ object' \in BOOLEAN /\ lateDelete' \in BOOLEAN /\ halfPruned' \in BOOLEAN
        /\ Backed => Backed'
    BY <1>1, ArtifactFacts DEF Backed, Excused
  <2>2. UNCHANGED <<origin, artifact, retention>>
    BY <1>1, <1>4
  <2> QED
    BY <1>1, <1>3, <2>1, <2>2, WorkerKeeps
<1>5. ASSUME NEW status \in {"failed", "ingesting"}, artifact' = ReleasedAs(status)
      PROVE  ArtifactInv'
  <2>1. artifact' \in ArtifactRow /\ artifact'.status = status /\ artifact'.owner = 0
    BY <1>5, ReleasedRow DEF ArtifactStatuses
  <2>2. ArtifactTypeOK'
    BY <1>1, <1>3, <2>1, ArtifactFacts, UpsetCounted DEF ArtifactTypeOK, ArtifactRow, IngesterState
  <2>3. DeletesSure'
    BY <1>3, SureKept
  <2> QED
    BY <2>1, <2>2, <2>3, UnclaimedRow
<1> QED
  BY <1>4, <1>5 DEF MarkFailed, ReleaseIngestion, IngesterStops

(* The lease runs out, and recovery fails the row. *)
LEMMA LapseKeeps ==
  ASSUME ArtifactInv, LeaseLapses \/ RecoverArtifact
  PROVE  ArtifactInv'
<1>1. /\ UNCHANGED <<origin, object, ingester, retention, lateDelete, halfPruned>>
      /\ ArtifactUpset \/ UNCHANGED artifactFaults
  BY DEF LeaseLapses, RecoverArtifact
<1>2. DeletesSure'
  BY <1>1 DEF ArtifactInv, DeletesSure
<1>3. CASE LeaseLapses
  <2>1. /\ artifact' \in ArtifactRow /\ artifact'.status = artifact.status
        /\ artifact'.owner = artifact.owner /\ artifact'.generation = artifact.generation
    BY <1>3, ArtifactFacts DEF LeaseLapses, ArtifactRow
  <2>2. ArtifactTypeOK'
    BY <1>1, <2>1, ArtifactFacts, UpsetCounted DEF ArtifactTypeOK, ArtifactRow, IngesterState
  <2>3. AvailableHasObject'
    BY <1>1, <2>1 DEF ArtifactInv, AvailableHasObject
  <2>4. ConfirmedHasObject'
    BY <1>1, <2>1 DEF ArtifactInv, ConfirmedHasObject, Fenced, Excused
  <2> QED
    BY <1>2, <2>2, <2>3, <2>4 DEF ArtifactInv
<1>4. CASE RecoverArtifact
  <2>1. artifact' \in ArtifactRow /\ artifact'.status = "failed" /\ artifact'.owner = 0
    BY <1>4, ReleasedRow DEF RecoverArtifact, ArtifactStatuses
  <2>2. ArtifactTypeOK'
    BY <1>1, <2>1, ArtifactFacts, UpsetCounted DEF ArtifactTypeOK, ArtifactRow, IngesterState
  <2> QED
    BY <1>2, <2>1, <2>2, UnclaimedRow
<1> QED
  BY <1>3, <1>4

(* Retention: between its delete and its mark it is its own excuse, and        *)
(* history keeps the excuse of a sweep that stops there.                       *)
LEMMA RetentionKeeps ==
  ASSUME ArtifactInv, RetentionFinds \/ RetentionDeletes \/ RetentionMarks \/ RetentionStops
  PROVE  ArtifactInv'
<1>1. /\ UNCHANGED <<origin, ingester, lateDelete>>
      /\ ArtifactUpset \/ UNCHANGED artifactFaults
  BY DEF RetentionFinds, RetentionDeletes, RetentionMarks, RetentionStops
<1>2. DeletesSure'
  BY <1>1 DEF ArtifactInv, DeletesSure
<1>3. artifactFaults' \in 0 .. MaxArtifactFaults
  BY <1>1, UpsetCounted
<1>4. CASE RetentionMarks
  <2>1. /\ UNCHANGED <<object, halfPruned>> /\ retention' = "idle"
        /\ artifact' \in ArtifactRow /\ artifact'.status = "failed"
    BY <1>4, ArtifactFacts DEF RetentionMarks, ArtifactRow, ArtifactStatuses
  <2>2. ArtifactTypeOK'
    BY <1>1, <1>3, <2>1, ArtifactFacts DEF ArtifactTypeOK, ArtifactRow, IngesterState
  <2> QED
    BY <1>2, <2>1, <2>2, UnclaimedRow
<1>5. CASE RetentionFinds \/ RetentionDeletes \/ RetentionStops
  <2>1. /\ UNCHANGED artifact
        /\ retention' \in {"idle", "delete", "mark"}
        /\ object' \in BOOLEAN /\ halfPruned' \in BOOLEAN
    BY <1>5, ArtifactFacts DEF RetentionFinds, RetentionDeletes, RetentionStops
  <2>2. Backed => Backed'
    <3>1. CASE RetentionFinds
      BY <3>1 DEF RetentionFinds, Backed, Excused
    <3>2. CASE RetentionDeletes
      BY <3>2 DEF RetentionDeletes, Backed, Excused
    <3>3. CASE RetentionStops
      BY <3>3 DEF RetentionStops, Backed, Excused
    <3> QED
      BY <1>5, <3>1, <3>2, <3>3
  <2>3. ArtifactTypeOK'
    BY <1>1, <1>3, <2>1, ArtifactFacts DEF ArtifactTypeOK, ArtifactRow, IngesterState
  <2>4. AvailableHasObject'
    BY <2>1, <2>2 DEF ArtifactInv, AvailableHasObject, Backed, Excused
  <2>5. ConfirmedHasObject'
    BY <1>1, <2>1, <2>2 DEF ArtifactInv, ConfirmedHasObject, Fenced, Backed
  <2> QED
    BY <1>2, <2>3, <2>4, <2>5 DEF ArtifactInv
<1> QED
  BY <1>4, <1>5

(* Every step of the ingestion keeps the invariant. *)
LEMMA ArtifactStepKeeps ==
  ASSUME ArtifactInv, [ArtifactNext]_artifactVars
  PROVE  ArtifactInv'
<1>1. ASSUME NEW w \in Ingesters,
             \/ Accept(w) \/ Look(w) \/ Reserve(w) \/ ClaimIngestion(w)
             \/ Fetch(w) \/ Put(w) \/ Confirm(w) \/ AssertLease(w) \/ Publish(w)
             \/ FailureAssert(w) \/ DeletePartial(w) \/ MarkFailed(w)
             \/ ReleaseIngestion(w) \/ IngesterStops(w)
      PROVE  ArtifactInv'
  BY <1>1, ArrivalKeeps, ClaimKeeps, WorkKeeps, PublishKeeps, CleanUpKeeps, EndsKeep, Zenon
<1>2. CASE UNCHANGED artifactVars
  BY <1>2 DEF artifactVars, ArtifactInv, ArtifactTypeOK, AvailableHasObject,
              ConfirmedHasObject, DeletesSure, Fenced, Excused
<1> QED
  BY <1>1, <1>2, LapseKeeps, RetentionKeeps, Zenon DEF ArtifactNext

(* The inductive invariant of ArtifactIngestion. *)
THEOREM ArtifactInvariant == ArtifactSpec => []ArtifactInv
<1>1. ASSUME ArtifactInit  PROVE ArtifactInv
  <2> USE <1>1
  <2>1. Idling \in IngesterState /\ Idling.at = "idle"
    BY IngestersAssumption DEF Idling, IngesterState, IngesterSteps
  <2>2. ingester \in [Ingesters -> IngesterState] /\ \A w \in Ingesters : ingester[w].at = "idle"
    BY <2>1 DEF ArtifactInit
  <2>3. artifact \in ArtifactRow /\ artifact.status = "absent"
    BY IngestersAssumption DEF ArtifactInit, ArtifactRow, ArtifactStatuses
  <2>4. ArtifactTypeOK
    <3>1. origin \in {"github", "gitea"} /\ object = FALSE /\ retention = "idle"
          /\ lateDelete = FALSE /\ halfPruned = FALSE
      BY DEF ArtifactInit
    <3>2. artifactFaults \in 0 .. MaxArtifactFaults
      BY IngestersAssumption DEF ArtifactInit
    <3> QED
      BY <2>2, <2>3, <3>1, <3>2 DEF ArtifactTypeOK, ArtifactRow, IngesterState
  <2> QED
    BY <2>2, <2>3, <2>4 DEF ArtifactInv, AvailableHasObject, ConfirmedHasObject, DeletesSure
<1>2. ArtifactInv /\ [ArtifactNext]_artifactVars => ArtifactInv'
  BY ArtifactStepKeeps
<1> QED
  BY <1>1, <1>2, PTL DEF ArtifactSpec

(* The type invariant. *)
THEOREM ArtifactTypes == ArtifactSpec => []ArtifactTypeOK
<1>1. ArtifactInv => ArtifactTypeOK
  BY DEF ArtifactInv
<1> QED
  BY <1>1, ArtifactInvariant, PTL

(* An artifact that is offered for deployment has its object, whoever retried, *)
(* crashed or cleaned up, with the two exceptions that the property names.     *)
THEOREM OfferedArtifactsExist == ArtifactSpec => []AvailableHasObject
<1>1. ArtifactInv => AvailableHasObject
  BY DEF ArtifactInv
<1> QED
  BY <1>1, ArtifactInvariant, PTL

-----------------------------------------------------------------------------
(* ProductionApprovals *)

ReviewSteps == {"idle", "read", "matched", "claimed", "begun", "locked", "scheduled"}
RequestStatuses == {"absent", "pending", "approving", "stale", "cancelled", "rejected", "approved"}
ProdOpStatuses == {"absent", "claimed", "running", "lost", "done", "undone"}
InputRevisions == [source : Nat, config : Nat, revision : Nat, settings : Nat]
ProdOpRow == [status : ProdOpStatuses, request : Requests \cup {0}]
RequestRow == [status : RequestStatuses, token : InputRevisions]
ReviewState == [pc : ReviewSteps, request : Requests \cup {0}, op : ProdOps \cup {0}]

ApprovalsTypeOK ==
    /\ inputs \in InputRevisions /\ draft \in InputRevisions
    /\ prodLock \in ProdOps \cup {0}
    /\ prodOp \in [ProdOps -> ProdOpRow]
    /\ request \in [Requests -> RequestRow]
    /\ review \in [Reviewers -> ReviewState]

\* A reviewer whose claim on the request has been granted and is not given back.
Holding(r) == review[r].pc \in {"claimed", "begun", "locked", "scheduled"}

Started(o) == prodOp[o].status \in {"running", "done"}

\* The lock names the one operation that has not ended.
LockHeld ==
    \A o \in ProdOps :
        /\ prodOp[o].status \in {"claimed", "running", "lost"} <=> prodLock = o
        /\ prodOp[o].status = "absent" => prodOp[o].request = 0

\* What a reviewer knows of its request and of its operation.
ReviewSound(r) ==
    /\ review[r].pc # "idle" => /\ review[r].request \in Requests
                                /\ request[review[r].request].status # "absent"
    /\ Holding(r) => request[review[r].request].status # "pending"
    /\ review[r].op # 0 <=> review[r].pc \in {"locked", "scheduled"}
    /\ review[r].op # 0 => prodOp[review[r].op].request = review[r].request
    /\ review[r].pc = "locked" =>
          \/ prodOp[review[r].op].status = "claimed"
          \/ /\ prodOp[review[r].op].status = "undone"
             /\ request[review[r].request].token.revision < inputs.revision
    /\ review[r].pc = "scheduled" => Started(review[r].op)

\* The settings of the target do not change without its revision: whoever read
\* the revision of now has read the settings of now.
RevisionTells(t) ==
    /\ t.revision <= inputs.revision
    /\ t.revision = inputs.revision => t.settings = inputs.settings

RevisionsTell ==
    /\ RevisionTells(Nothing) /\ RevisionTells(draft)
    /\ \A q \in Requests : RevisionTells(request[q].token)

\* The claim is exclusive.
OneHolder ==
    \A r, s \in Reviewers :
        Holding(r) /\ Holding(s) /\ review[r].request = review[s].request => r = s

\* A request whose operation was started and stored with it cannot be claimed
\* again, and whoever still holds it holds it for that operation.
StartedForGood ==
    \A o \in ProdOps : Started(o) /\ prodOp[o].request \notin unlinked \cup {0} =>
        /\ request[prodOp[o].request].status \notin {"absent", "pending"}
        /\ \A r \in Reviewers :
               Holding(r) /\ review[r].request = prodOp[o].request => review[r].op = o

ApprovalsInv ==
    /\ ApprovalsTypeOK
    /\ RevisionsTell
    /\ LockHeld
    /\ \A r \in Reviewers : ReviewSound(r)
    /\ OneHolder
    /\ StartedForGood
    /\ RunsWhatWasApproved
    /\ OneDeploymentPerRequest

(* 0 stands for no request and for no operation. *)
LEMMA ApprovalIds == 0 \notin Requests /\ 0 \notin ProdOps
  BY ApprovalsAssumption DEF Requests, ProdOps

(* A started operation that is not an absent one has been numbered. *)
LEMMA FreeIsAbsent ==
  ASSUME NEW ids, NEW row, NEW i \in Free(ids, row)
  PROVE  i \in ids /\ row[i].status = "absent"
  BY DEF Free

(* A comparison of revisions is one of what is used. *)
LEMMA ApprovedIsUsed ==
  ASSUME ApprovalsInv, NEW q \in Requests, AsApproved(q)
  PROVE  UsesApproved(q)
  BY DEF ApprovalsInv, RevisionsTell, RevisionTells, AsApproved, UsesApproved

(* The inputs change, or are read into a draft. *)
LEMMA InputsKeep ==
  ASSUME ApprovalsInv,
         \/ EditSource \/ EditConfig \/ TouchTarget \/ CountOperations \/ EditTarget \/ ReadSnapshot
         \/ DisconnectAgent /\ UNCHANGED <<prodLock, prodOp>>
  PROVE  ApprovalsInv'
<1>1. UNCHANGED <<prodLock, prodOp, request, review, unlinked>>
  BY DEF EditSource, EditConfig, TouchTarget, CountOperations, EditTarget, ReadSnapshot, DisconnectAgent
<1>2. inputs \in InputRevisions /\ draft \in InputRevisions /\ RevisionsTell
  BY DEF ApprovalsInv, ApprovalsTypeOK
<1>3. /\ inputs' \in InputRevisions
      /\ inputs'.revision = inputs.revision => inputs'.settings = inputs.settings
      /\ inputs'.revision >= inputs.revision
      /\ draft' \in {draft, inputs} /\ (draft' # draft => inputs' = inputs)
  <2>1. CASE EditSource \/ EditConfig
    BY <1>2, <2>1 DEF EditSource, EditConfig, InputRevisions
  <2>2. CASE TouchTarget \/ DisconnectAgent
    BY <1>2, <2>2 DEF TouchTarget, DisconnectAgent, InputRevisions
  <2>3. CASE EditTarget
    <3>1. /\ inputs' = [source |-> inputs.source, config |-> inputs.config,
                       revision |-> inputs.revision + 1, settings |-> inputs.settings + 1]
          /\ draft' = draft
      BY <1>2, <2>3 DEF EditTarget, InputRevisions
    <3>2. /\ inputs.source \in Nat /\ inputs.config \in Nat /\ inputs.revision \in Nat
          /\ inputs.settings \in Nat
      BY <1>2 DEF InputRevisions
    <3> QED
      BY <3>1, <3>2 DEF InputRevisions
  <2>4. CASE CountOperations \/ ReadSnapshot
    BY <1>2, <2>4 DEF CountOperations, ReadSnapshot, InputRevisions
  <2> QED
    BY <2>1, <2>2, <2>3, <2>4
<1>4. ApprovalsTypeOK'
  BY <1>1, <1>2, <1>3 DEF ApprovalsInv, ApprovalsTypeOK
<1>6. RevisionsTell'
  <2>1. Nothing \in InputRevisions /\ \A q \in Requests : request[q].token \in InputRevisions
    BY DEF Nothing, InputRevisions, ApprovalsInv, ApprovalsTypeOK, RequestRow
  <2>2. RevisionTells(draft)'
    <3>1. CASE draft' = draft
      BY <1>2, <1>3, <3>1 DEF RevisionsTell, RevisionTells, InputRevisions
    <3>2. CASE draft' = inputs /\ inputs' = inputs
      BY <1>2, <3>2 DEF RevisionTells, InputRevisions
    <3> QED
      BY <1>3, <3>1, <3>2
  <2>3. RevisionTells(Nothing)'
    BY <1>2, <1>3 DEF RevisionsTell, RevisionTells, InputRevisions, Nothing
  <2>4. ASSUME NEW q \in Requests  PROVE RevisionTells(request[q].token)'
    <3>1. request[q].token \in InputRevisions /\ RevisionTells(request[q].token)
      BY <1>2, <2>1 DEF RevisionsTell
    <3> QED
      BY <1>1, <1>2, <1>3, <3>1 DEF RevisionTells, InputRevisions
  <2> QED
    BY <1>1, <2>2, <2>3, <2>4 DEF RevisionsTell
<1>7. ASSUME NEW r \in Reviewers  PROVE ReviewSound(r)'
  <2>1. ReviewSound(r)
    BY DEF ApprovalsInv
  <2>2. \A q \in Requests : request[q].token.revision \in Nat
    BY DEF ApprovalsInv, ApprovalsTypeOK, RequestRow, InputRevisions
  <2>3. \A q \in Requests : request[q].token.revision < inputs.revision =>
            request[q].token.revision < inputs'.revision
    BY <1>2, <1>3, <2>2 DEF InputRevisions
  <2> QED
    BY <1>1, <2>1, <2>3 DEF ReviewSound, Holding, Started
<1>8. LockHeld' /\ OneHolder' /\ StartedForGood' /\ OneDeploymentPerRequest'
  BY <1>1 DEF ApprovalsInv, LockHeld, OneHolder, StartedForGood, Holding, Started,
              OneDeploymentPerRequest
<1>9. RunsWhatWasApproved'
  <2> SUFFICES ASSUME NEW r \in Reviewers, review[r].pc = "scheduled",
                      prodOp[review[r].op].status = "running", review[r].op \notin overtaken'
               PROVE  UsesApproved(review[r].request)'
    BY <1>1 DEF RunsWhatWasApproved
  <2>1. review[r].op \in ProdOps /\ prodLock = review[r].op /\ prodLock # 0
    BY ApprovalIds DEF ApprovalsInv, ApprovalsTypeOK, ReviewState, ReviewSound, LockHeld
  <2>2. ~EditConfig /\ ~EditTarget
    BY <2>1 DEF EditConfig, EditTarget
  <2>3. inputs'.config = inputs.config /\ inputs'.settings = inputs.settings /\ overtaken' = overtaken
    BY <1>2, <2>2 DEF EditSource, TouchTarget, CountOperations, ReadSnapshot, DisconnectAgent,
       InputRevisions
  <2> QED
    BY <1>1, <2>3 DEF ApprovalsInv, RunsWhatWasApproved, UsesApproved
<1> QED
  BY <1>4, <1>6, <1>7, <1>8, <1>9 DEF ApprovalsInv

(* Production is stopped or started without a request, or an operation ends,   *)
(* by itself or with the agent of its target.                                  *)
LEMMA OperationsKeep ==
  ASSUME ApprovalsInv, OtherOperation \/ OperationEnds \/ DisconnectAgent,
         ~UNCHANGED <<prodLock, prodOp>>
  PROVE  ApprovalsInv'
<1>1. UNCHANGED <<request, draft, review, overtaken, unlinked>>
  BY DEF OtherOperation, OperationEnds, DisconnectAgent
<1>2. /\ inputs \in InputRevisions /\ inputs' \in InputRevisions
      /\ inputs'.config = inputs.config /\ inputs'.settings = inputs.settings
      /\ inputs'.revision >= inputs.revision
      /\ DisconnectAgent => inputs'.revision > inputs.revision
  BY DEF OtherOperation, OperationEnds, DisconnectAgent, ApprovalsInv, ApprovalsTypeOK, InputRevisions
<1>3. PICK o \in ProdOps, status \in {"running", "done", "undone"} :
        /\ prodOp' = [prodOp EXCEPT ![o].status = status]
        /\ \/ /\ prodOp[o].status = "absent" /\ status = "running"
              /\ prodLock = 0 /\ prodLock' = o
           \/ /\ prodOp[o].status = "running" /\ status = "done"
              /\ prodLock = o /\ prodLock' = 0
           \/ /\ prodOp[o].status \in {"claimed", "lost"} /\ status = "undone"
              /\ prodOp[o].status = "claimed" => DisconnectAgent
              /\ prodLock = o /\ prodLock' = 0
  <2>1. CASE OtherOperation
    <3>1. PICK o \in Free(ProdOps, prodOp) :
             prodLock = 0 /\ prodLock' = o /\ prodOp' = [prodOp EXCEPT ![o].status = "running"]
      BY <2>1 DEF OtherOperation
    <3>2. o \in ProdOps /\ prodOp[o].status = "absent"
      BY FreeIsAbsent
    <3> QED
      BY <3>1, <3>2
  <2>2. CASE OperationEnds \/ DisconnectAgent
    <3>1. /\ prodLock \in ProdOps /\ prodLock' = 0 /\ prodOp' = Closed(prodLock)
          /\ OperationEnds => prodOp[prodLock].status # "claimed"
      BY <2>2 DEF OperationEnds, DisconnectAgent, ApprovalsInv, ApprovalsTypeOK
    <3>2. prodOp[prodLock].status \in {"claimed", "running", "lost"}
      BY <3>1 DEF ApprovalsInv, LockHeld
    <3>3. CASE prodOp[prodLock].status = "running"
      <4>1. prodOp' = [prodOp EXCEPT ![prodLock].status = "done"]
        BY <3>1, <3>3 DEF Closed
      <4> QED
        BY <3>1, <3>3, <4>1
    <3>4. CASE prodOp[prodLock].status # "running"
      <4>1. prodOp' = [prodOp EXCEPT ![prodLock].status = "undone"]
        BY <3>1, <3>4 DEF Closed
      <4> QED
        BY <2>2, <3>1, <3>2, <3>4, <4>1
    <3> QED
      BY <3>3, <3>4
  <2> QED
    BY <2>1, <2>2
<1>4. /\ prodOp' \in [ProdOps -> ProdOpRow] /\ prodOp'[o].status = status
      /\ prodOp'[o].request = prodOp[o].request
      /\ \A p \in ProdOps : p # o => prodOp'[p] = prodOp[p]
  BY <1>3 DEF ApprovalsInv, ApprovalsTypeOK, ProdOpRow, ProdOpStatuses
<1>5. ApprovalsTypeOK' /\ RevisionsTell'
  <2>1. ApprovalsTypeOK'
    BY <1>1, <1>2, <1>3, <1>4 DEF ApprovalsInv, ApprovalsTypeOK
  <2>2. RevisionsTell /\ \A q \in Requests : request[q].token \in InputRevisions
    BY DEF ApprovalsInv, ApprovalsTypeOK, RequestRow
  <2>3. Nothing \in InputRevisions /\ draft \in InputRevisions
    BY DEF Nothing, InputRevisions, ApprovalsInv, ApprovalsTypeOK
  <2>4. ASSUME NEW t \in InputRevisions, RevisionTells(t)  PROVE RevisionTells(t)'
    BY <1>2, <2>4 DEF RevisionTells, InputRevisions
  <2>5. RevisionTells(Nothing)' /\ RevisionTells(draft)'
    BY <1>1, <2>2, <2>3, <2>4 DEF RevisionsTell, RevisionTells
  <2>6. ASSUME NEW q \in Requests  PROVE RevisionTells(request[q].token)'
    BY <1>1, <2>2, <2>4 DEF RevisionsTell, RevisionTells
  <2> QED
    BY <1>1, <2>1, <2>5, <2>6 DEF RevisionsTell
<1>6. LockHeld'
  BY <1>3, <1>4, ApprovalIds DEF ApprovalsInv, LockHeld
<1>7. \A p \in ProdOps : /\ prodOp'[p].request = prodOp[p].request
                         /\ prodOp[p].status = "undone" => prodOp'[p].status = "undone"
                         /\ Started(p) => Started(p)'
                         /\ prodOp[p].status = "claimed" =>
                               \/ prodOp'[p].status = "claimed"
                               \/ prodOp'[p].status = "undone" /\ inputs'.revision > inputs.revision
  BY <1>2, <1>3, <1>4 DEF Started
<1>8. \A p \in ProdOps : prodOp[p].request # 0 => (Started(p)' <=> Started(p))
  BY <1>3, <1>4, ApprovalIds DEF ApprovalsInv, LockHeld, Started
<1>9. ASSUME NEW r \in Reviewers  PROVE ReviewSound(r)'
  <2>1. ReviewSound(r) /\ review[r].op \in ProdOps \cup {0}
    BY DEF ApprovalsInv, ApprovalsTypeOK, ReviewState
  <2>2. review[r].pc = "locked" =>
            /\ request[review[r].request].token \in InputRevisions
            /\ request[review[r].request].token.revision <= inputs.revision
    BY <2>1 DEF ReviewSound, ApprovalsInv, ApprovalsTypeOK, RequestRow, RevisionsTell, RevisionTells
  <2>3. review[r].pc = "locked" =>
            \/ prodOp'[review[r].op].status = "claimed"
            \/ /\ prodOp'[review[r].op].status = "undone"
               /\ request[review[r].request].token.revision < inputs'.revision
    BY <1>2, <1>7, <2>1, <2>2 DEF ReviewSound, InputRevisions
  <2> QED
    BY <1>1, <1>7, <2>1, <2>3 DEF ReviewSound, Holding
<1>10. OneHolder'
  BY <1>1 DEF ApprovalsInv, OneHolder, Holding
<1>11. StartedForGood'
  BY <1>1, <1>7, <1>8 DEF ApprovalsInv, StartedForGood, Holding
<1>12. RunsWhatWasApproved'
  <2> SUFFICES ASSUME NEW r \in Reviewers, review[r].pc = "scheduled",
                      prodOp'[review[r].op].status = "running", review[r].op \notin overtaken
               PROVE  UsesApproved(review[r].request)
    BY <1>1, <1>2 DEF RunsWhatWasApproved, UsesApproved
  <2>1. review[r].op \in ProdOps /\ Started(review[r].op)
    BY ApprovalIds DEF ApprovalsInv, ApprovalsTypeOK, ReviewState, ReviewSound
  <2>2. review[r].op # o
    BY <1>3, <1>4, <2>1 DEF Started
  <2> QED
    BY <1>4, <2>1, <2>2 DEF ApprovalsInv, RunsWhatWasApproved
<1>13. OneDeploymentPerRequest'
  BY <1>1, <1>7, <1>8 DEF ApprovalsInv, OneDeploymentPerRequest, Started
<1> QED
  BY <1>5, <1>6, <1>9, <1>10, <1>11, <1>12, <1>13 DEF ApprovalsInv

(* create(), cancel(), reject() and latest() only touch requests that nobody   *)
(* holds: a request is created, or a pending one is settled.                   *)
LEMMA RequestRowsKeep ==
  ASSUME ApprovalsInv, Create \/ \E q \in Requests : Settle(q)
  PROVE  ApprovalsInv'
<1>1. UNCHANGED <<inputs, prodLock, prodOp, review, edit, mishaps, overtaken, unlinked>>
  BY DEF Create, Settle
<1>2. /\ request' \in [Requests -> RequestRow]
      /\ \A q \in Requests :
            /\ request[q].status # "absent" => /\ request'[q].status # "absent"
                                               /\ request'[q].token = request[q].token
            /\ request'[q].token \in {request[q].token, draft}
            /\ request[q].status \notin {"absent", "pending"} => request'[q] = request[q]
  <2>1. CASE UNCHANGED request
    BY <2>1 DEF ApprovalsInv, ApprovalsTypeOK
  <2>2. ASSUME NEW new \in Free(Requests, request),
               request' = [q \in Requests |->
                    IF q = new THEN [status |-> "pending", token |-> draft]
                    ELSE IF request[q].status = "pending"
                         THEN [request[q] EXCEPT !.status = "stale"] ELSE request[q]]
        PROVE  <1>2!1 /\ <1>2!2
    <3>1. request[new].status = "absent"
      BY FreeIsAbsent
    <3>2. ASSUME NEW q \in Requests  PROVE request[q] \in RequestRow
      BY DEF ApprovalsInv, ApprovalsTypeOK
    <3>3. draft \in InputRevisions
      BY DEF ApprovalsInv, ApprovalsTypeOK
    <3>4. <1>2!1
      BY <2>2, <3>2, <3>3 DEF RequestRow, RequestStatuses
    <3>5. <1>2!2
      BY <2>2, <3>1, <3>2 DEF RequestRow
    <3> QED
      BY <3>4, <3>5
  <2>3. ASSUME NEW q \in Requests, NEW status \in {"cancelled", "rejected", "stale"},
               request[q].status = "pending", SetRequest(q, status)
        PROVE  <1>2!1 /\ <1>2!2
    BY <2>3 DEF SetRequest, ApprovalsInv, ApprovalsTypeOK, RequestRow, RequestStatuses
  <2> QED
    BY <2>1, <2>2, <2>3 DEF Create, Settle
<1>3. ApprovalsTypeOK' /\ RevisionsTell'
  <2>1. draft' \in InputRevisions /\ draft' \in {draft, Nothing}
    BY DEF Create, Settle, Nothing, ApprovalsInv, ApprovalsTypeOK, InputRevisions
  <2>2. ApprovalsTypeOK'
    BY <1>1, <1>2, <2>1 DEF ApprovalsInv, ApprovalsTypeOK
  <2>3. RevisionTells(Nothing)' /\ RevisionTells(draft)'
    BY <1>1, <2>1 DEF ApprovalsInv, RevisionsTell, RevisionTells, Nothing
  <2>4. ASSUME NEW q \in Requests  PROVE RevisionTells(request[q].token)'
    BY <1>1, <1>2 DEF ApprovalsInv, RevisionsTell, RevisionTells
  <2> QED
    BY <2>2, <2>3, <2>4 DEF RevisionsTell
<1>4. ASSUME NEW r \in Reviewers  PROVE ReviewSound(r)'
  <2>1. ReviewSound(r)
    BY DEF ApprovalsInv
  <2> QED
    BY <1>1, <1>2, <2>1 DEF ReviewSound, Holding, Started
<1>5. LockHeld' /\ OneHolder' /\ OneDeploymentPerRequest'
  BY <1>1 DEF ApprovalsInv, LockHeld, OneHolder, Holding, OneDeploymentPerRequest
<1>6. StartedForGood'
  BY <1>1, <1>2 DEF ApprovalsInv, ApprovalsTypeOK, ProdOpRow, StartedForGood, Holding, Started
<1>7. RunsWhatWasApproved'
  <2> SUFFICES ASSUME NEW r \in Reviewers, review[r].pc = "scheduled",
                      prodOp[review[r].op].status = "running", review[r].op \notin overtaken
               PROVE  UsesApproved(review[r].request)'
    BY <1>1 DEF RunsWhatWasApproved
  <2>1. ReviewSound(r) /\ UsesApproved(review[r].request)
    BY DEF ApprovalsInv, RunsWhatWasApproved
  <2> QED
    BY <1>1, <1>2, <2>1 DEF ReviewSound, UsesApproved
<1> QED
  BY <1>3, <1>4, <1>5, <1>6, <1>7 DEF ApprovalsInv

(* One call of approve() moves. *)
LEMMA ReviewMoves ==
  ASSUME ApprovalsInv, NEW r \in Reviewers, NEW new \in ReviewState,
         review' = [review EXCEPT ![r] = new]
  PROVE  /\ review' \in [Reviewers -> ReviewState]
         /\ review'[r] = new
         /\ \A s \in Reviewers : s # r => review'[s] = review[s]
  BY DEF ApprovalsInv, ApprovalsTypeOK

(* A call of approve() that starts nothing in this step: the request becomes   *)
(* pending again only at the hand of its holder, and a claim is only granted   *)
(* on a pending request.  Its own operation may end here, unstarted.           *)
LEMMA UnstartedKeeps ==
  ASSUME ApprovalsInv, NEW r \in Reviewers, NEW new \in ReviewState,
         review' = [review EXCEPT ![r] = new], ReviewSound(r)',
         UNCHANGED <<inputs, draft, overtaken>>, unlinked \subseteq unlinked',
         request' \in [Requests -> RequestRow],
         \A q \in Requests :
            /\ request'[q].token = request[q].token
            /\ request[q].status # "absent" => request'[q].status # "absent"
            /\ request'[q].status = "pending" =>
                  \/ request[q].status = "pending"
                  \/ /\ q = review[r].request /\ Holding(r)
                     /\ review[r].pc = "scheduled" => q \in unlinked',
         new.pc # "scheduled",
         new.pc \in {"claimed", "begun", "locked", "scheduled"} =>
            /\ new.request = review[r].request /\ new.op = review[r].op
            /\ Holding(r) \/ request[review[r].request].status = "pending",
         LockHeld', prodLock' \in ProdOps \cup {0}, prodOp' \in [ProdOps -> ProdOpRow],
         \A o \in ProdOps :
            /\ prodOp'[o].request = prodOp[o].request
            /\ Started(o) \/ Started(o)' => prodOp'[o] = prodOp[o]
            /\ prodOp[o].status \in {"claimed", "undone"} /\ o # review[r].op => prodOp'[o] = prodOp[o]
  PROVE  ApprovalsInv'
<1>1. /\ review' \in [Reviewers -> ReviewState] /\ review'[r] = new
      /\ \A s \in Reviewers : s # r => review'[s] = review[s]
  BY ReviewMoves
<1>2. ApprovalsTypeOK' /\ RevisionsTell'
  BY <1>1 DEF ApprovalsInv, ApprovalsTypeOK, RevisionsTell, RevisionTells, Nothing
<1>3. \A s \in Reviewers : /\ ReviewSound(s) /\ review[s].request \in Requests \cup {0}
                           /\ review[s].op \in ProdOps \cup {0}
  BY DEF ApprovalsInv, ApprovalsTypeOK, ReviewState
<1>4. Holding(r) => review[r].request \in Requests
  BY <1>3 DEF ReviewSound, Holding
<1>5. ASSUME NEW s \in Reviewers, s # r  PROVE ReviewSound(s)'
  <2>1. review'[s] = review[s] /\ (Holding(s)' <=> Holding(s))
    BY <1>1, <1>5 DEF Holding
  <2>2. review[s].pc # "idle" => /\ review[s].request \in Requests
                                 /\ request'[review[s].request].status # "absent"
    BY <1>3 DEF ReviewSound
  <2>3. Holding(s) => request'[review[s].request].status # "pending"
    <3> SUFFICES ASSUME Holding(s), request'[review[s].request].status = "pending"  PROVE FALSE
      OBVIOUS
    <3>1. review[s].request \in Requests /\ request[review[s].request].status # "pending"
      BY <1>3 DEF ReviewSound, Holding
    <3>2. review[s].request = review[r].request /\ Holding(r)
      BY <3>1
    <3> QED
      BY <1>5, <3>2 DEF ApprovalsInv, OneHolder
  <2>4. CASE review[s].op = 0
    BY <1>3, <2>1, <2>2, <2>3, <2>4 DEF ReviewSound
  <2>5. CASE review[s].op # 0
    <3>1. /\ review[s].op \in ProdOps /\ Holding(s)
          /\ prodOp[review[s].op].status \in {"claimed", "undone"} \/ Started(review[s].op)
          /\ prodOp[review[s].op].request = review[s].request
      BY <1>3, <2>5 DEF ReviewSound, Holding
    <3>2. review[s].op # review[r].op
      BY <1>3, <1>5, <2>5, <3>1 DEF ReviewSound, Holding, ApprovalsInv, OneHolder
    <3>3. prodOp'[review[s].op] = prodOp[review[s].op]
      BY <3>1, <3>2
    <3> QED
      BY <1>3, <2>1, <2>2, <2>3, <3>3 DEF ReviewSound, Started
  <2> QED
    BY <2>4, <2>5
<1>6. \A s \in Reviewers : ReviewSound(s)'
  BY <1>5
<1>7. Holding(r)' => /\ review'[r].request = review[r].request /\ review'[r].op = review[r].op
                     /\ Holding(r) \/ request[review[r].request].status = "pending"
  BY <1>1 DEF Holding
<1>8. OneHolder'
  <2> SUFFICES ASSUME NEW s \in Reviewers, s # r, Holding(r)', Holding(s)',
                      review'[r].request = review'[s].request
               PROVE  FALSE
    BY <1>1 DEF ApprovalsInv, OneHolder, Holding
  <2>1. Holding(s) /\ review[r].request = review[s].request
    BY <1>1, <1>7 DEF Holding
  <2> QED
    BY <1>3, <1>7, <2>1 DEF ApprovalsInv, OneHolder, ReviewSound
<1>9. StartedForGood'
  <2> SUFFICES ASSUME NEW o \in ProdOps, Started(o)', prodOp'[o].request \notin unlinked' \cup {0}
               PROVE  /\ request'[prodOp'[o].request].status \notin {"absent", "pending"}
                      /\ \A s \in Reviewers :
                            Holding(s)' /\ review'[s].request = prodOp'[o].request
                               => review'[s].op = o
    BY DEF StartedForGood
  <2>1. /\ prodOp'[o] = prodOp[o] /\ Started(o) /\ prodOp[o].request \notin unlinked \cup {0}
        /\ prodOp[o].request \in Requests
    BY DEF Started, ApprovalsInv, ApprovalsTypeOK, ProdOpRow
  <2>2. /\ request[prodOp[o].request].status \notin {"absent", "pending"}
        /\ \A s \in Reviewers :
              Holding(s) /\ review[s].request = prodOp[o].request => review[s].op = o
    BY <2>1 DEF ApprovalsInv, StartedForGood
  <2>3. request'[prodOp[o].request].status # "pending"
    <3> SUFFICES ASSUME request'[prodOp[o].request].status = "pending"  PROVE FALSE
      OBVIOUS
    <3>1. /\ prodOp[o].request = review[r].request /\ Holding(r) /\ review[r].pc # "scheduled"
      BY <2>1, <2>2
    <3>2. review[r].op = o /\ o # 0
      BY <2>2, <3>1, ApprovalIds
    <3> QED
      BY <1>3, <2>1, <3>1, <3>2 DEF ReviewSound, Started
  <2>4. ASSUME NEW s \in Reviewers, Holding(s)', review'[s].request = prodOp'[o].request
        PROVE  review'[s].op = o
    <3>1. CASE s = r
      BY <1>7, <2>1, <2>2, <2>4, <3>1
    <3>2. CASE s # r
      BY <1>1, <2>1, <2>2, <2>4, <3>2 DEF Holding
    <3> QED
      BY <3>1, <3>2
  <2> QED
    BY <2>1, <2>2, <2>3, <2>4
<1>10. RunsWhatWasApproved'
  <2> SUFFICES ASSUME NEW s \in Reviewers, review'[s].pc = "scheduled",
                      prodOp'[review'[s].op].status = "running", review'[s].op \notin overtaken
               PROVE  UsesApproved(review[s].request)'
    BY DEF RunsWhatWasApproved
  <2>1. s # r /\ review'[s] = review[s]
    BY <1>1
  <2>2. review[s].op \in ProdOps /\ Started(review[s].op) /\ review[s].request \in Requests
    BY <1>3, <2>1, ApprovalIds DEF ReviewSound
  <2>3. UsesApproved(review[s].request)
    BY <2>1, <2>2 DEF ApprovalsInv, RunsWhatWasApproved
  <2> QED
    BY <2>1, <2>2, <2>3 DEF UsesApproved
<1>11. OneDeploymentPerRequest'
  BY DEF ApprovalsInv, OneDeploymentPerRequest, Started
<1> QED
  BY <1>2, <1>6, <1>8, <1>9, <1>10, <1>11 DEF ApprovalsInv

(* The row of one request is written. *)
LEMMA RequestWritten ==
  ASSUME ApprovalsInv, NEW q \in Requests, NEW status \in RequestStatuses \ {"absent"},
         UNCHANGED request \/ SetRequest(q, status)
  PROVE  /\ request' \in [Requests -> RequestRow]
         /\ \A p \in Requests :
               /\ request'[p].token = request[p].token
               /\ request[p].status # "absent" => request'[p].status # "absent"
               /\ \/ request'[p].status = request[p].status
                  \/ p = q /\ request'[p].status = status
  BY DEF ApprovalsInv, ApprovalsTypeOK, RequestRow, SetRequest

(* A call of approve() ends, and its operation has not been started or goes on *)
(* without it.                                                                 *)
LEMMA StopKeeps ==
  ASSUME ApprovalsInv, NEW r \in Reviewers, review[r].pc # "idle", Stop(r),
         NEW status \in RequestStatuses \ {"absent"},
         UNCHANGED request \/ SetRequest(review[r].request, status),
         status = "pending" =>
            Holding(r) /\ (review[r].pc = "scheduled" => review[r].request \in unlinked'),
         UNCHANGED <<inputs, draft, overtaken>>, unlinked \subseteq unlinked',
         LockHeld', prodLock' \in ProdOps \cup {0}, prodOp' \in [ProdOps -> ProdOpRow],
         \A o \in ProdOps :
            /\ prodOp'[o].request = prodOp[o].request
            /\ Started(o) \/ Started(o)' => prodOp'[o] = prodOp[o]
            /\ prodOp[o].status \in {"claimed", "undone"} /\ o # review[r].op => prodOp'[o] = prodOp[o]
  PROVE  ApprovalsInv'
<1>1. NoReview \in ReviewState /\ review' = [review EXCEPT ![r] = NoReview]
  BY DEF Stop, NoReview, ReviewState, ReviewSteps
<1>2. review[r].request \in Requests
  BY DEF ApprovalsInv, ReviewSound
<1>3. review'[r] = NoReview
  BY <1>1, ReviewMoves
<1>4. ReviewSound(r)'
  BY <1>3 DEF ReviewSound, Holding, NoReview
<1>5. NoReview.pc = "idle"
  BY DEF NoReview
<1>6. /\ request' \in [Requests -> RequestRow]
      /\ \A p \in Requests :
            /\ request'[p].token = request[p].token
            /\ request[p].status # "absent" => request'[p].status # "absent"
            /\ \/ request'[p].status = request[p].status
               \/ p = review[r].request /\ request'[p].status = status
  BY <1>2, RequestWritten
<1>7. \A q \in Requests :
            request'[q].status = "pending" =>
                  \/ request[q].status = "pending"
                  \/ /\ q = review[r].request /\ Holding(r)
                     /\ review[r].pc = "scheduled" => q \in unlinked'
  BY <1>6
<1> QED
  BY <1>1, <1>4, <1>5, <1>6, <1>7, UnstartedKeeps

\* The lock and the operations are as they were.
LEMMA SameOps ==
  ASSUME ApprovalsInv, UNCHANGED <<prodLock, prodOp>>
  PROVE  /\ LockHeld' /\ prodLock' \in ProdOps \cup {0} /\ prodOp' \in [ProdOps -> ProdOpRow]
         /\ \A o \in ProdOps :
               prodOp'[o] = prodOp[o] /\ prodOp'[o].request = prodOp[o].request
  BY DEF ApprovalsInv, ApprovalsTypeOK, LockHeld

(* The calls of approve() that end without an operation, or leave it running.  *)
LEMMA EndOfReviewKeeps ==
  ASSUME ApprovalsInv, NEW r \in Reviewers, review[r].pc # "idle", Stop(r),
         NEW status \in RequestStatuses \ {"absent"},
         UNCHANGED request \/ SetRequest(review[r].request, status),
         status = "pending" =>
            Holding(r) /\ (review[r].pc = "scheduled" => review[r].request \in unlinked'),
         UNCHANGED <<inputs, prodLock, prodOp, draft, overtaken>>, unlinked \subseteq unlinked'
  PROVE  ApprovalsInv'
<1>1. \A o \in ProdOps :
            /\ prodOp'[o].request = prodOp[o].request
            /\ Started(o) \/ Started(o)' => prodOp'[o] = prodOp[o]
            /\ prodOp[o].status \in {"claimed", "undone"} /\ o # review[r].op => prodOp'[o] = prodOp[o]
  BY SameOps
<1>2. LockHeld' /\ prodLock' \in ProdOps \cup {0} /\ prodOp' \in [ProdOps -> ProdOpRow]
  BY SameOps
<1>3. UNCHANGED <<inputs, draft, overtaken>>
  OBVIOUS
<1> QED
  BY <1>1, <1>2, <1>3, StopKeeps

(* Its operation ends before it was started. *)
LEMMA ApprovalUndoneKeeps ==
  ASSUME ApprovalsInv, NEW r \in Reviewers, review[r].pc = "locked", Stop(r),
         NEW status \in {"stale", "pending"},
         UNCHANGED request \/ SetRequest(review[r].request, status),
         UNCHANGED <<inputs, draft, overtaken, unlinked>>,
         \/ Undo(review[r].op)
         \/ /\ prodLock = review[r].op /\ prodLock' = prodLock
            /\ prodOp' = [prodOp EXCEPT ![review[r].op].status = "lost"]
  PROVE  ApprovalsInv'
<1> DEFINE o == review[r].op
<1>1. /\ o \in ProdOps /\ prodOp[o].request \in Requests
      /\ \/ prodOp[o].status = "claimed" /\ prodLock = o
         \/ prodOp[o].status = "undone" /\ prodLock # o
  <2>1. ReviewSound(r) /\ review[r] \in ReviewState
    BY DEF ApprovalsInv, ApprovalsTypeOK
  <2>2. /\ o \in ProdOps /\ prodOp[o].request = review[r].request /\ review[r].request \in Requests
        /\ prodOp[o].status \in {"claimed", "undone"}
    BY <2>1, ApprovalIds DEF ReviewSound, ReviewState
  <2>3. prodLock = o <=> prodOp[o].status = "claimed"
    <3>1. prodOp[o].status \in {"claimed", "running", "lost"} <=> prodLock = o
      BY <2>2 DEF ApprovalsInv, LockHeld
    <3> QED
      BY <2>2, <3>1
  <2> QED
    BY <2>2, <2>3
<1>2. o = review[r].op
  OBVIOUS
<1> HIDE DEF o
<1>3. PICK ended \in {"undone", "lost"} :
        /\ prodOp' = [prodOp EXCEPT ![o].status = ended]
        /\ ended = "lost" => prodLock = o /\ prodLock' = o
        /\ ended = "undone" => prodLock' = IF prodLock = o THEN 0 ELSE prodLock
  BY <1>2 DEF Undo
<1>4. /\ prodOp' \in [ProdOps -> ProdOpRow] /\ prodOp'[o].status = ended
      /\ prodOp'[o].request = prodOp[o].request
      /\ \A p \in ProdOps : p # o => prodOp'[p] = prodOp[p]
  BY <1>1, <1>3 DEF ApprovalsInv, ApprovalsTypeOK, ProdOpRow, ProdOpStatuses
<1>5. prodLock' \in ProdOps \cup {0}
  BY <1>1, <1>3 DEF ApprovalsInv, ApprovalsTypeOK
<1>6. LockHeld'
  BY <1>1, <1>3, <1>4, ApprovalIds DEF ApprovalsInv, LockHeld
<1>7. \A p \in ProdOps :
            /\ prodOp'[p].request = prodOp[p].request
            /\ Started(p) \/ Started(p)' => prodOp'[p] = prodOp[p]
            /\ prodOp[p].status \in {"claimed", "undone"} /\ p # review[r].op => prodOp'[p] = prodOp[p]
  BY <1>1, <1>2, <1>4 DEF Started
<1>8. /\ status \in RequestStatuses \ {"absent"} /\ Holding(r)
      /\ review[r].pc # "idle" /\ review[r].pc # "scheduled"
      /\ UNCHANGED <<inputs, draft, overtaken>> /\ unlinked \subseteq unlinked'
  BY DEF RequestStatuses, Holding
<1> QED
  BY <1>4, <1>5, <1>6, <1>7, <1>8, StopKeeps

(* The ways in which a call of approve() ends.                                 *)
LEMMA EndingsKeep ==
  ASSUME ApprovalsInv, NEW r \in Reviewers,
         \/ ReviewStale(r) \/ QuotaReached(r) \/ AuditFails(r)
         \/ ReviewDone(r) \/ LinkFails(r) \/ ReviewCrash(r)
  PROVE  ApprovalsInv'
<1> DEFINE q == review[r].request
<1>1. {"stale", "pending", "approved"} \subseteq RequestStatuses \ {"absent"}
  BY DEF RequestStatuses
<1>2. ReviewSound(r) /\ review[r] \in ReviewState
  BY DEF ApprovalsInv, ApprovalsTypeOK
<1>3. CASE ReviewStale(r) \/ QuotaReached(r)
  <2>1. /\ review[r].pc # "idle" /\ Stop(r) /\ (UNCHANGED request \/ SetRequest(q, "stale"))
        /\ UNCHANGED <<inputs, prodLock, prodOp, draft, overtaken, unlinked>>
    BY <1>3 DEF ReviewStale, QuotaReached, GiveBack
  <2>2. /\ UNCHANGED <<inputs, prodLock, prodOp, draft, overtaken>> /\ unlinked \subseteq unlinked'
    BY <2>1
  <2> QED
    BY <1>1, <2>1, <2>2, EndOfReviewKeeps
<1>4. CASE AuditFails(r)
  <2>1. /\ review[r].pc \in {"claimed", "locked"} /\ Stop(r)
        /\ UNCHANGED request \/ SetRequest(q, "pending")
        /\ UNCHANGED <<inputs, draft, overtaken, unlinked>>
    BY <1>4 DEF AuditFails, GiveBack
  <2>2. CASE review[r].op = 0
    <3>1. UNCHANGED <<prodLock, prodOp>>
      BY <1>4, <2>2 DEF AuditFails
    <3>2. review[r].pc = "claimed"
      BY <1>2, <2>1, <2>2 DEF ReviewSound
    <3>3. /\ UNCHANGED <<inputs, prodLock, prodOp, draft, overtaken>> /\ unlinked \subseteq unlinked'
          /\ review[r].pc # "idle" /\ review[r].pc # "scheduled" /\ Holding(r)
      BY <2>1, <3>1, <3>2 DEF Holding
    <3> QED
      BY <1>1, <2>1, <3>3, EndOfReviewKeeps
  <2>3. CASE review[r].op # 0
    <3>1. Undo(review[r].op) /\ review[r].pc = "locked"
      BY <1>2, <1>4, <2>1, <2>3 DEF AuditFails, ReviewSound
    <3> QED
      BY <2>1, <3>1, ApprovalUndoneKeeps
  <2> QED
    BY <2>2, <2>3
<1>5. CASE ReviewDone(r)
  <2>1. /\ review[r].pc # "idle" /\ Stop(r) /\ SetRequest(q, "approved")
        /\ UNCHANGED <<inputs, prodLock, prodOp, draft, overtaken, unlinked>>
    BY <1>5 DEF ReviewDone
  <2>2. /\ UNCHANGED <<inputs, prodLock, prodOp, draft, overtaken>> /\ unlinked \subseteq unlinked'
    BY <2>1
  <2> QED
    BY <1>1, <2>1, <2>2, EndOfReviewKeeps
<1>6. CASE LinkFails(r)
  <2>1. /\ review[r].pc = "scheduled" /\ Stop(r)
        /\ UNCHANGED request \/ SetRequest(q, "pending")
        /\ UNCHANGED <<inputs, prodLock, prodOp, draft, overtaken>>
        /\ unlinked' = unlinked \cup {q}
    BY <1>6 DEF LinkFails, GiveBack
  <2>2. review[r].pc # "idle" /\ Holding(r) /\ q \in unlinked' /\ unlinked \subseteq unlinked'
    BY <2>1 DEF Holding
  <2> QED
    BY <1>1, <2>1, <2>2, EndOfReviewKeeps
<1>7. CASE ReviewCrash(r)
  <2>1. /\ review[r].pc # "idle" /\ Stop(r)
        /\ UNCHANGED <<inputs, prodLock, request, draft, overtaken, unlinked>>
    BY <1>7 DEF ReviewCrash
  <2>2. CASE review[r].pc = "locked" /\ prodLock = review[r].op
    <3>1. prodOp' = [prodOp EXCEPT ![review[r].op].status = "lost"]
      BY <1>7, <2>2 DEF ReviewCrash
    <3> QED
      BY <2>1, <2>2, <3>1, ApprovalUndoneKeeps
  <2>3. CASE ~(review[r].pc = "locked" /\ prodLock = review[r].op)
    <3>1. /\ UNCHANGED <<inputs, prodLock, prodOp, draft, overtaken>> /\ unlinked \subseteq unlinked'
          /\ UNCHANGED request
      BY <1>7, <2>1, <2>3 DEF ReviewCrash
    <3> QED
      BY <1>1, <2>1, <3>1, EndOfReviewKeeps
  <2> QED
    BY <2>2, <2>3
<1> QED
  BY <1>3, <1>4, <1>5, <1>6, <1>7

(* Go() keeps the request, and there is no operation yet. *)
LEMMA GoState ==
  ASSUME ApprovalsInv, NEW r \in Reviewers, NEW pc, review[r].op = 0, Go(r, pc)
  PROVE  review' = [review EXCEPT ![r] = [pc |-> pc, request |-> review[r].request, op |-> 0]]
<1> DEFINE new == [pc |-> pc, request |-> review[r].request, op |-> 0]
<1>1. [review[r] EXCEPT !.pc = pc] = new
  BY DEF ApprovalsInv, ApprovalsTypeOK, ReviewState
<1>2. review' = [review EXCEPT ![r] = [review[r] EXCEPT !.pc = pc]]
  BY DEF Go
<1> HIDE DEF new
<1>3. review' = [review EXCEPT ![r] = new]
  BY <1>1, <1>2
<1> QED
  BY <1>3 DEF new

(* approve() up to begin(): a pending request is read, compared and claimed.   *)
LEMMA ReviewAdvances ==
  ASSUME ApprovalsInv, NEW r \in Reviewers,
         ReviewRead(r) \/ ReviewMatches(r) \/ ReviewClaim(r) \/ BeginRead(r)
  PROVE  ApprovalsInv'
<1> DEFINE q == review[r].request
<1>1. ReviewSound(r) /\ review[r] \in ReviewState
  BY DEF ApprovalsInv, ApprovalsTypeOK
<1>2. /\ UNCHANGED <<inputs, prodLock, prodOp, draft, overtaken>> /\ unlinked \subseteq unlinked'
  BY DEF ReviewRead, ReviewMatches, ReviewClaim, BeginRead
<1>3. /\ LockHeld' /\ prodLock' \in ProdOps \cup {0} /\ prodOp' \in [ProdOps -> ProdOpRow]
      /\ \A o \in ProdOps :
            /\ prodOp'[o].request = prodOp[o].request
            /\ Started(o) \/ Started(o)' => prodOp'[o] = prodOp[o]
            /\ prodOp[o].status \in {"claimed", "undone"} /\ o # review[r].op => prodOp'[o] = prodOp[o]
  BY <1>2, SameOps
<1>4. ASSUME NEW pc \in {"read", "matched", "begun"}, NEW p \in Requests,
             review' = [review EXCEPT ![r] = [pc |-> pc, request |-> p, op |-> 0]],
             request[p].status # "absent", UNCHANGED request,
             pc = "begun" => review[r].pc = "claimed" /\ p = q
      PROVE  ApprovalsInv'
  <2> DEFINE new == [pc |-> pc, request |-> p, op |-> 0]
  <2>1. new \in ReviewState /\ review' = [review EXCEPT ![r] = new]
        /\ new.pc = pc /\ new.request = p /\ new.op = 0
    BY <1>4 DEF ReviewState, ReviewSteps
  <2> HIDE DEF new
  <2>2. review'[r] = new
    BY <2>1, ReviewMoves
  <2>3. ReviewSound(r)'
    <3>1. pc = "begun" => request[p].status # "pending"
      BY <1>1, <1>4 DEF ReviewSound, Holding
    <3> QED
      BY <1>4, <2>1, <2>2, <3>1 DEF ReviewSound, Holding
  <2>4. new.pc \in {"claimed", "begun", "locked", "scheduled"} =>
            /\ new.request = review[r].request /\ new.op = review[r].op
            /\ Holding(r) \/ request[review[r].request].status = "pending"
    BY <1>1, <1>4, <2>1 DEF ReviewSound, Holding
  <2>5. request' \in [Requests -> RequestRow]
    BY <1>4 DEF ApprovalsInv, ApprovalsTypeOK
  <2> QED
    BY <1>2, <1>3, <1>4, <2>1, <2>3, <2>4, <2>5, UnstartedKeeps
<1>5. ASSUME review[r].pc = "matched", Claimable(q), SetRequest(q, "approving"), Go(r, "claimed")
      PROVE  ApprovalsInv'
  <2> DEFINE new == [pc |-> "claimed", request |-> q, op |-> 0]
  <2>1. /\ new \in ReviewState /\ review' = [review EXCEPT ![r] = new]
        /\ new.pc = "claimed" /\ new.request = q /\ new.op = 0 /\ review[r].op = 0
        /\ q \in Requests
    <3>1. review[r].op = 0 /\ q \in Requests
      BY <1>1, <1>5 DEF ReviewSound
    <3>2. review' = [review EXCEPT ![r] = new]
      BY <1>5, <3>1, GoState
    <3>3. new \in ReviewState
      BY <3>1 DEF ReviewState, ReviewSteps
    <3> QED
      BY <3>1, <3>2, <3>3
  <2> HIDE DEF new
  <2>2. review'[r] = new
    BY <2>1, ReviewMoves
  <2>3. /\ request' \in [Requests -> RequestRow] /\ request'[q].status = "approving"
        /\ \A p \in Requests :
               /\ request'[p].token = request[p].token
               /\ request[p].status # "absent" => request'[p].status # "absent"
               /\ request'[p].status = "pending" => request[p].status = "pending"
    BY <1>5, <2>1 DEF SetRequest, ApprovalsInv, ApprovalsTypeOK, RequestRow, RequestStatuses
  <2>4. ReviewSound(r)'
    BY <2>1, <2>2, <2>3 DEF ReviewSound, Holding
  <2>5. request[q].status = "pending"
    BY <1>5 DEF Claimable
  <2> QED
    BY <1>2, <1>3, <2>1, <2>3, <2>4, <2>5, UnstartedKeeps
<1>6. CASE ReviewRead(r)
  BY <1>4, <1>6 DEF ReviewRead
<1>7. CASE ReviewMatches(r)
  <2>1. review[r].pc = "read" /\ review[r].op = 0 /\ q \in Requests /\ request[q].status # "absent"
    BY <1>1, <1>7 DEF ReviewMatches, ReviewSound
  <2>2. review' = [review EXCEPT ![r] = [pc |-> "matched", request |-> q, op |-> 0]]
    <3>1. Go(r, "matched")
      BY <1>7 DEF ReviewMatches
    <3> QED
      BY <2>1, <3>1, GoState
  <2> QED
    BY <1>4, <1>7, <2>1, <2>2 DEF ReviewMatches
<1>8. CASE ReviewClaim(r)
  <2>1. CASE Claimable(q)
    BY <1>5, <1>8, <2>1 DEF ReviewClaim
  <2>2. CASE ~Claimable(q)
    <3>1. Stop(r) /\ UNCHANGED request /\ review[r].pc # "idle"
      BY <1>8, <2>2 DEF ReviewClaim
    <3>2. "stale" \in RequestStatuses \ {"absent"}
      BY DEF RequestStatuses
    <3> QED
      BY <1>2, <3>1, <3>2, EndOfReviewKeeps
  <2> QED
    BY <2>1, <2>2
<1>9. CASE BeginRead(r)
  <2>1. CASE AsApproved(q)
    <3>1. /\ review[r].pc = "claimed" /\ review[r].op = 0 /\ q \in Requests
          /\ request[q].status # "absent"
      BY <1>1, <1>9 DEF BeginRead, ReviewSound
    <3>2. review' = [review EXCEPT ![r] = [pc |-> "begun", request |-> q, op |-> 0]]
      <4>1. Go(r, "begun")
        BY <1>9, <2>1 DEF BeginRead
      <4> QED
        BY <3>1, <4>1, GoState
    <3> QED
      BY <1>4, <1>9, <2>1, <3>1, <3>2 DEF BeginRead
  <2>2. CASE ~AsApproved(q)
    <3>1. Stop(r) /\ (UNCHANGED request \/ SetRequest(q, "stale")) /\ review[r].pc # "idle"
      BY <1>9, <2>2 DEF BeginRead, GiveBack
    <3>2. "stale" \in RequestStatuses \ {"absent"}
      BY DEF RequestStatuses
    <3> QED
      BY <1>2, <3>1, <3>2, EndOfReviewKeeps
  <2> QED
    BY <2>1, <2>2
<1> QED
  BY <1>6, <1>7, <1>8, <1>9

\* What begin() does when it takes the environment for operation o.
TakesLock(r, o) ==
    /\ review[r].pc = "begun" /\ prodOp[o].status = "absent"
    /\ prodLock = 0 /\ prodLock' = o
    /\ prodOp' \in [ProdOps -> ProdOpRow]
    /\ prodOp'[o].status = "claimed" /\ prodOp'[o].request = review[r].request
    /\ \A p \in ProdOps : p # o => prodOp'[p] = prodOp[p]
    /\ review' \in [Reviewers -> ReviewState]
    /\ review'[r].pc = "locked" /\ review'[r].request = review[r].request /\ review'[r].op = o
    /\ \A s \in Reviewers : s # r => review'[s] = review[s]
    /\ UNCHANGED <<inputs, request, draft, overtaken, unlinked>>

(* begin() takes the environment for a new operation of the request.           *)
LEMMA LockTaken ==
  ASSUME ApprovalsInv, NEW r \in Reviewers, NEW o \in ProdOps, TakesLock(r, o)
  PROVE  ApprovalsInv'
<1> DEFINE q == review[r].request
<1>1. \A s \in Reviewers : ReviewSound(s) /\ review[s] \in ReviewState
  BY DEF ApprovalsInv, ApprovalsTypeOK
<1>2. q \in Requests /\ review[r].op = 0 /\ Holding(r) /\ request[q].status \notin {"absent", "pending"}
  BY <1>1 DEF ReviewSound, Holding, TakesLock
<1>3. /\ prodOp' \in [ProdOps -> ProdOpRow]
      /\ prodOp'[o].status = "claimed" /\ prodOp'[o].request = q
      /\ \A p \in ProdOps : p # o => prodOp'[p] = prodOp[p]
  BY DEF TakesLock
<1>4. /\ review'[r].pc = "locked" /\ review'[r].request = q /\ review'[r].op = o
      /\ \A s \in Reviewers : s # r => review'[s] = review[s]
  BY DEF TakesLock
<1>5. UNCHANGED <<inputs, request, draft, overtaken, unlinked>> /\ prodOp[o].status = "absent"
  BY DEF TakesLock
<1>6. ApprovalsTypeOK' /\ RevisionsTell'
  BY <1>3, <1>5 DEF TakesLock, ApprovalsInv, ApprovalsTypeOK, RevisionsTell, RevisionTells, Nothing
<1>7. LockHeld'
  BY <1>3, ApprovalIds DEF TakesLock, ApprovalsInv, LockHeld
<1>8. \A p \in ProdOps : Started(p)' => p # o /\ Started(p) /\ prodOp'[p] = prodOp[p]
  BY <1>3 DEF Started
<1>9. \A s \in Reviewers : /\ Holding(s)' <=> Holding(s)
                           /\ review'[s].request = review[s].request
  BY <1>2, <1>4 DEF Holding
<1>10. \A s \in Reviewers : review[s].op # o
  BY <1>1, <1>5, ApprovalIds DEF ReviewSound, Started
<1>11. ASSUME NEW s \in Reviewers  PROVE ReviewSound(s)'
  <2>1. CASE s = r
    BY <1>2, <1>3, <1>4, <1>5, <2>1, ApprovalIds DEF ReviewSound, Holding
  <2>2. CASE s # r
    <3>1. review'[s] = review[s] /\ review[s].op # o /\ ReviewSound(s)
      BY <1>1, <1>4, <1>10, <2>2
    <3>2. review[s].op # 0 => review[s].op \in ProdOps /\ prodOp'[review[s].op] = prodOp[review[s].op]
      BY <1>1, <1>3, <3>1 DEF ReviewState
    <3>3. request' = request /\ inputs' = inputs
      BY <1>5
    <3> QED
      BY <3>1, <3>2, <3>3 DEF ReviewSound, Holding, Started
  <2> QED
    BY <2>1, <2>2
<1>12. OneHolder'
  BY <1>9 DEF ApprovalsInv, OneHolder
<1>13. StartedForGood'
  <2> SUFFICES ASSUME NEW p \in ProdOps, Started(p)', prodOp'[p].request \notin unlinked \cup {0}
               PROVE  /\ request[prodOp'[p].request].status \notin {"absent", "pending"}
                      /\ \A s \in Reviewers :
                            Holding(s)' /\ review'[s].request = prodOp'[p].request
                               => review'[s].op = p
    BY <1>5 DEF StartedForGood
  <2>1. p # o /\ Started(p) /\ prodOp'[p] = prodOp[p]
    BY <1>8
  <2>2. /\ request[prodOp[p].request].status \notin {"absent", "pending"}
        /\ \A s \in Reviewers :
              Holding(s) /\ review[s].request = prodOp[p].request => review[s].op = p
    BY <2>1 DEF ApprovalsInv, StartedForGood
  <2>3. prodOp[p].request # q
    BY <1>2, <2>2, ApprovalIds
  <2> QED
    BY <1>4, <1>9, <2>1, <2>2, <2>3
<1>14. RunsWhatWasApproved'
  <2> SUFFICES ASSUME NEW s \in Reviewers, review'[s].pc = "scheduled",
                      prodOp'[review'[s].op].status = "running", review'[s].op \notin overtaken
               PROVE  UsesApproved(review[s].request)'
    BY <1>5 DEF RunsWhatWasApproved
  <2>1. s # r /\ review'[s] = review[s] /\ inputs' = inputs /\ request' = request
    BY <1>4, <1>5
  <2>2. prodOp[review[s].op].status = "running"
    BY <1>1, <1>3, <1>10, <2>1, ApprovalIds DEF ReviewSound, ReviewState
  <2>3. UsesApproved(review[s].request)
    BY <2>1, <2>2 DEF ApprovalsInv, RunsWhatWasApproved
  <2> QED
    BY <2>1, <2>3 DEF UsesApproved
<1>15. OneDeploymentPerRequest'
  BY <1>5, <1>8 DEF ApprovalsInv, OneDeploymentPerRequest, Started
<1> QED
  BY <1>6, <1>7, <1>11, <1>12, <1>13, <1>14, <1>15 DEF ApprovalsInv

(* The second comparison, under the lock: the operation of the holder starts.  *)
LEMMA ApprovalStartKeeps ==
  ASSUME ApprovalsInv, NEW r \in Reviewers, review[r].pc = "locked",
         AsApproved(review[r].request), Go(r, "scheduled"),
         prodOp' = [prodOp EXCEPT ![review[r].op].status = "running"],
         UNCHANGED <<inputs, prodLock, request, draft, overtaken, unlinked>>
  PROVE  ApprovalsInv'
<1> DEFINE q == review[r].request
           o == review[r].op
           new == [review[r] EXCEPT !.pc = "scheduled"]
<1>1. \A s \in Reviewers : ReviewSound(s) /\ review[s] \in ReviewState
  BY DEF ApprovalsInv, ApprovalsTypeOK
<1>2. /\ q \in Requests /\ o \in ProdOps /\ Holding(r) /\ request[q].status \notin {"absent", "pending"}
      /\ prodOp[o].status = "claimed" /\ prodOp[o].request = q
  <2>1. q \in Requests /\ o \in ProdOps
    BY <1>1 DEF ReviewSound, ReviewState
  <2>2. ~(request[q].token.revision < inputs.revision)
    <3>1. request[q].token.revision = inputs.revision /\ inputs.revision \in Nat
      BY DEF AsApproved, ApprovalsInv, ApprovalsTypeOK, InputRevisions
    <3> QED
      BY <3>1
  <2> QED
    BY <1>1, <2>1, <2>2 DEF ReviewSound, Holding
<1>3. new \in ReviewState /\ new.pc = "scheduled" /\ new.request = q /\ new.op = o
  BY <1>1 DEF ReviewState, ReviewSteps
<1>4. review' = [review EXCEPT ![r] = new]
  BY DEF Go
<1> HIDE DEF new
<1>5. /\ review' \in [Reviewers -> ReviewState] /\ review'[r] = new
      /\ \A s \in Reviewers : s # r => review'[s] = review[s]
  BY <1>3, <1>4, ReviewMoves
<1>6. prodOp' = [prodOp EXCEPT ![o].status = "running"]
  OBVIOUS
<1> HIDE DEF o
<1>7. /\ prodOp' \in [ProdOps -> ProdOpRow]
      /\ prodOp'[o].status = "running" /\ prodOp'[o].request = q
      /\ \A p \in ProdOps : p # o => prodOp'[p] = prodOp[p]
  BY <1>2, <1>6 DEF ApprovalsInv, ApprovalsTypeOK, ProdOpRow, ProdOpStatuses
<1>8. ApprovalsTypeOK' /\ RevisionsTell'
  BY <1>5, <1>7 DEF ApprovalsInv, ApprovalsTypeOK, RevisionsTell, RevisionTells, Nothing
<1>9. LockHeld'
  BY <1>2, <1>7 DEF ApprovalsInv, LockHeld
<1>10. \A s \in Reviewers : /\ Holding(s)' <=> Holding(s)
                            /\ review'[s].request = review[s].request
                            /\ review'[s].op = review[s].op
  BY <1>2, <1>3, <1>5 DEF Holding, o
<1>11. \A s \in Reviewers : s # r /\ review[s].op # 0 => review[s].op # o
  <2> SUFFICES ASSUME NEW s \in Reviewers, s # r, review[s].op # 0, review[s].op = o  PROVE FALSE
    OBVIOUS
  <2>1. Holding(s) /\ review[s].request = q
    BY <1>1, <1>2 DEF ReviewSound, Holding
  <2> QED
    BY <1>2, <2>1 DEF ApprovalsInv, OneHolder
<1>12. ASSUME NEW s \in Reviewers  PROVE ReviewSound(s)'
  <2>1. CASE s = r
    BY <1>2, <1>3, <1>5, <1>7, <2>1, ApprovalIds DEF ReviewSound, Holding, Started
  <2>2. CASE s # r
    <3>1. review'[s] = review[s] /\ ReviewSound(s)
      BY <1>1, <1>5, <2>2
    <3>2. review[s].op # 0 => review[s].op \in ProdOps /\ prodOp'[review[s].op] = prodOp[review[s].op]
      BY <1>1, <1>7, <1>11, <2>2 DEF ReviewState
    <3> QED
      BY <3>1, <3>2 DEF ReviewSound, Holding, Started
  <2> QED
    BY <2>1, <2>2
<1>13. OneHolder'
  BY <1>10 DEF ApprovalsInv, OneHolder
<1>14. \A p \in ProdOps : Started(p) /\ prodOp[p].request \notin unlinked \cup {0} =>
           prodOp[p].request # q
  BY <1>2 DEF ApprovalsInv, StartedForGood, Started, o
<1>15. \A p \in ProdOps : Started(p)' <=> p = o \/ Started(p)
  BY <1>7 DEF Started
<1>16. StartedForGood'
  <2> SUFFICES ASSUME NEW p \in ProdOps, Started(p)', prodOp'[p].request \notin unlinked \cup {0}
               PROVE  /\ request[prodOp'[p].request].status \notin {"absent", "pending"}
                      /\ \A s \in Reviewers :
                            Holding(s)' /\ review'[s].request = prodOp'[p].request
                               => review'[s].op = p
    BY DEF StartedForGood
  <2>1. CASE p = o
    BY <1>2, <1>3, <1>5, <1>7, <1>10, <2>1 DEF ApprovalsInv, OneHolder
  <2>2. CASE p # o
    BY <1>7, <1>10, <1>15, <2>2 DEF ApprovalsInv, StartedForGood
  <2> QED
    BY <2>1, <2>2
<1>17. RunsWhatWasApproved'
  <2> SUFFICES ASSUME NEW s \in Reviewers, review'[s].pc = "scheduled",
                      prodOp'[review'[s].op].status = "running", review'[s].op \notin overtaken
               PROVE  UsesApproved(review[s].request)
    BY <1>10 DEF RunsWhatWasApproved, UsesApproved
  <2>1. CASE s = r
    BY <1>2, <2>1, ApprovedIsUsed
  <2>2. CASE s # r
    <3>1. review'[s] = review[s] /\ review[s].op \in ProdOps /\ review[s].op # o
      BY <1>1, <1>5, <1>11, <2>2 DEF ReviewSound, ReviewState
    <3> QED
      BY <1>7, <3>1 DEF ApprovalsInv, RunsWhatWasApproved
  <2> QED
    BY <2>1, <2>2
<1>18. OneDeploymentPerRequest'
  <2> SUFFICES ASSUME NEW p \in ProdOps, NEW u \in ProdOps, p # u,
                      prodOp'[p].request = prodOp'[u].request,
                      prodOp'[p].request \notin unlinked \cup {0}, Started(p)', Started(u)'
               PROVE  FALSE
    BY DEF OneDeploymentPerRequest, Started
  <2>1. CASE p # o /\ u # o
    BY <1>7, <1>15, <2>1 DEF ApprovalsInv, OneDeploymentPerRequest, Started
  <2>2. CASE p = o
    BY <1>7, <1>14, <1>15, <2>2
  <2>3. CASE u = o
    BY <1>7, <1>14, <1>15, <2>3
  <2> QED
    BY <2>1, <2>2, <2>3
<1> QED
  BY <1>8, <1>9, <1>12, <1>13, <1>16, <1>17, <1>18 DEF ApprovalsInv

(* begin() under the approval.                                                 *)
LEMMA ApprovalBeginKeeps ==
  ASSUME ApprovalsInv, NEW r \in Reviewers, BeginLock(r) \/ BeginRecheck(r)
  PROVE  ApprovalsInv'
<1> DEFINE q == review[r].request
<1>1. UNCHANGED <<inputs, draft, edit, mishaps, overtaken, unlinked>>
  BY DEF BeginLock, BeginRecheck
<1>2. CASE BeginLock(r)
  <2>1. review[r].pc = "begun"
    BY <1>2 DEF BeginLock
  <2>2. PICK o \in Free(ProdOps, prodOp) :
           \/ /\ prodLock = 0 /\ prodLock' = o
              /\ prodOp' = [prodOp EXCEPT ![o] = [status |-> "claimed", request |-> q]]
              /\ review' = [review EXCEPT ![r].pc = "locked", ![r].op = o]
              /\ UNCHANGED request
           \/ GiveBack(r, "pending") /\ UNCHANGED <<prodLock, prodOp>>
    BY <1>2 DEF BeginLock
  <2>3. o \in ProdOps /\ prodOp[o].status = "absent"
    BY FreeIsAbsent
  <2>4. CASE GiveBack(r, "pending") /\ UNCHANGED <<prodLock, prodOp>>
    <3>1. /\ Stop(r) /\ (UNCHANGED request \/ SetRequest(q, "pending"))
          /\ review[r].pc # "idle" /\ review[r].pc # "scheduled" /\ Holding(r)
          /\ "pending" \in RequestStatuses \ {"absent"}
      BY <2>1, <2>4 DEF GiveBack, Holding, RequestStatuses
    <3>2. UNCHANGED <<inputs, prodLock, prodOp, draft, overtaken>> /\ unlinked \subseteq unlinked'
      BY <1>1, <2>4
    <3> QED
      BY <3>1, <3>2, EndOfReviewKeeps
  <2>5. CASE /\ prodLock = 0 /\ prodLock' = o
             /\ prodOp' = [prodOp EXCEPT ![o] = [status |-> "claimed", request |-> q]]
             /\ review' = [review EXCEPT ![r].pc = "locked", ![r].op = o]
             /\ UNCHANGED request
    <3>1. review[r] \in ReviewState /\ q \in Requests
      BY <2>1 DEF ApprovalsInv, ApprovalsTypeOK, ReviewSound
    <3>2. /\ prodOp' \in [ProdOps -> ProdOpRow]
          /\ prodOp'[o].status = "claimed" /\ prodOp'[o].request = q
          /\ \A p \in ProdOps : p # o => prodOp'[p] = prodOp[p]
      BY <2>3, <2>5, <3>1 DEF ApprovalsInv, ApprovalsTypeOK, ProdOpRow, ProdOpStatuses
    <3>3. /\ review' \in [Reviewers -> ReviewState]
          /\ \A s \in Reviewers : s # r => review'[s] = review[s]
      BY <2>3, <2>5, <3>1 DEF ApprovalsInv, ApprovalsTypeOK, ReviewState, ReviewSteps
    <3>4. review'[r].pc = "locked" /\ review'[r].request = q /\ review'[r].op = o
      BY <2>5, <3>1 DEF ApprovalsInv, ApprovalsTypeOK, ReviewState
    <3> QED
      BY <1>1, <2>1, <2>3, <2>5, <3>2, <3>3, <3>4, LockTaken DEF TakesLock
  <2> QED
    BY <2>2, <2>4, <2>5
<1>3. CASE BeginRecheck(r)
  <2>1. review[r].pc = "locked"
    BY <1>3 DEF BeginRecheck
  <2>2. CASE AsApproved(q)
    <3>1. /\ prodOp' = [prodOp EXCEPT ![review[r].op].status = "running"] /\ Go(r, "scheduled")
          /\ UNCHANGED <<prodLock, request>>
      BY <1>3, <2>2 DEF BeginRecheck, Rechecked
    <3> QED
      BY <1>1, <2>1, <2>2, <3>1, ApprovalStartKeeps
  <2>3. CASE ~AsApproved(q)
    <3>1. /\ Undo(review[r].op)
          /\ Stop(r) /\ (UNCHANGED request \/ SetRequest(q, "stale"))
      BY <1>3, <2>3 DEF BeginRecheck, Rechecked, GiveBack
    <3> QED
      BY <1>1, <2>1, <3>1, ApprovalUndoneKeeps
  <2> QED
    BY <2>2, <2>3
<1> QED
  BY <1>2, <1>3

(* Every step about production and its requests keeps the invariant. *)
LEMMA ApprovalsStepKeeps ==
  ASSUME ApprovalsInv, [ApprovalsNext]_approvalVars
  PROVE  ApprovalsInv'
<1>1. ASSUME NEW r \in Reviewers,
             \/ ReviewRead(r) \/ ReviewMatches(r) \/ ReviewStale(r) \/ ReviewClaim(r)
             \/ BeginRead(r) \/ BeginLock(r) \/ QuotaReached(r) \/ BeginRecheck(r) \/ AuditFails(r)
             \/ ReviewDone(r) \/ LinkFails(r) \/ ReviewCrash(r)
      PROVE  ApprovalsInv'
  BY <1>1, EndingsKeep, ReviewAdvances, ApprovalBeginKeeps, Zenon
<1>2. CASE UNCHANGED approvalVars
  BY <1>2 DEF approvalVars, ApprovalsInv, ApprovalsTypeOK, LockHeld, ReviewSound, OneHolder,
     StartedForGood, Holding, Started, RunsWhatWasApproved, OneDeploymentPerRequest, UsesApproved,
     RevisionsTell, RevisionTells, Nothing
<1>3. CASE \/ EditSource \/ EditConfig \/ TouchTarget \/ CountOperations \/ EditTarget
           \/ ReadSnapshot \/ Create \/ \E q \in Requests : Settle(q)
  BY <1>3, InputsKeep, RequestRowsKeep, Zenon
<1>4. CASE OtherOperation \/ OperationEnds \/ DisconnectAgent
  <2>1. UNCHANGED <<prodLock, prodOp>> => DisconnectAgent
    BY <1>4, ApprovalIds, FreeIsAbsent DEF OtherOperation, OperationEnds, ApprovalsInv, ApprovalsTypeOK
  <2> QED
    BY <1>4, <2>1, InputsKeep, OperationsKeep, Zenon
<1> QED
  BY <1>1, <1>2, <1>3, <1>4, Zenon DEF ApprovalsNext

(* The inductive invariant of ProductionApprovals. *)
THEOREM ApprovalsInvariant == ApprovalsSpec => []ApprovalsInv
<1>1. ASSUME ApprovalsInit  PROVE ApprovalsInv
  <2> USE <1>1
  <2>1. ApprovalsTypeOK
    BY DEF ApprovalsInit, ApprovalsTypeOK, InputRevisions, Nothing, ProdOpRow, ProdOpStatuses,
           RequestRow, RequestStatuses, ReviewState, ReviewSteps, NoReview
  <2>5. RevisionsTell
    BY DEF ApprovalsInit, RevisionsTell, RevisionTells, Nothing
  <2>2. /\ \A o \in ProdOps : prodOp[o].status = "absent" /\ prodOp[o].request = 0
        /\ \A r \in Reviewers : review[r].pc = "idle" /\ review[r].op = 0
        /\ prodLock = 0
    BY DEF ApprovalsInit, NoReview
  <2>3. LockHeld /\ OneHolder /\ StartedForGood /\ RunsWhatWasApproved /\ OneDeploymentPerRequest
    BY <2>2, ApprovalIds DEF LockHeld, OneHolder, StartedForGood, RunsWhatWasApproved,
       OneDeploymentPerRequest, Holding, Started
  <2>4. \A r \in Reviewers : ReviewSound(r)
    BY <2>2 DEF ReviewSound, Holding
  <2> QED
    BY <2>1, <2>3, <2>4, <2>5 DEF ApprovalsInv
<1>2. ApprovalsInv /\ [ApprovalsNext]_approvalVars => ApprovalsInv'
  BY ApprovalsStepKeeps
<1> QED
  BY <1>1, <1>2, PTL DEF ApprovalsSpec

(* A deployment that an approval has started finds the configuration and the   *)
(* target the reviewer approved, unless a change had counted the operations    *)
(* before it began.                                                            *)
THEOREM ApprovedIsWhatRuns == ApprovalsSpec => []RunsWhatWasApproved
<1>1. ApprovalsInv => RunsWhatWasApproved
  BY DEF ApprovalsInv
<1> QED
  BY <1>1, ApprovalsInvariant, PTL

(* One approval starts one deployment, unless the first could not be stored    *)
(* with the request.                                                           *)
THEOREM OneApprovalOneDeployment == ApprovalsSpec => []OneDeploymentPerRequest
<1>1. ApprovalsInv => OneDeploymentPerRequest
  BY DEF ApprovalsInv
<1> QED
  BY <1>1, ApprovalsInvariant, PTL

=============================================================================
