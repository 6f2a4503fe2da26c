------------------------- MODULE ArtifactIngestion -------------------------
(***************************************************************************)
(* One BuildArtifact row, its object in the artifact store, the processes  *)
(* that fill it and the retention sweep that empties it.  A row comes from *)
(* a GitHub build (ProjectArtifactIngestion) or from a Gitea image         *)
(* (ProjectRegistryArtifactCapture); both run under the renewable,         *)
(* generation-fenced lease of ProjectArtifactExecutionLease.  The object's *)
(* key depends only on the row and its digest, so every retry writes the   *)
(* same object and every clean-up deletes it.                              *)
(***************************************************************************)
EXTENDS Integers

CONSTANTS Ingesters,          \* control-plane processes
          MaxIngestions,      \* bound on the claims of the row
          MaxArtifactFaults   \* bound on crashes, lapsed leases and store errors

ASSUME IngestersAssumption ==
    Ingesters \subseteq Nat \ {0} /\ MaxIngestions \in Nat /\ MaxArtifactFaults \in Nat

VARIABLES
    origin,      \* "github" or "gitea": which of the two paths fills the row
    artifact,    \* the row: status, ingestionOwner (0 = NULL), generation, lease
    object,      \* whether the artifact store holds the object
    ingester,    \* what each process is doing, and the claim it holds
    retention,   \* the retention sweep
    lateDelete,  \* history: a process deleted after losing a lease it had checked
    halfPruned,  \* history: retention stopped between its delete and its mark
    artifactFaults

artifactVars == <<origin, artifact, object, ingester, retention, lateDelete,
                  halfPruned, artifactFaults>>

ArtifactStatuses == {"absent", "accepted", "ingesting", "available", "failed"}
IngesterSteps == {"idle", "reserve", "claim", "fetch", "put", "confirm", "assert",
                  "publish", "failing", "delete", "mark", "release"}

ArtifactTypeOK ==
    /\ origin \in {"github", "gitea"}
    /\ artifact \in [status: ArtifactStatuses, owner: Ingesters \cup {0},
                     generation: 0 .. MaxIngestions, lapsed: BOOLEAN]
    /\ object \in BOOLEAN
    /\ ingester \in [Ingesters -> [at: IngesterSteps, generation: -1 .. MaxIngestions,
                                   keyed: BOOLEAN, sure: BOOLEAN]]
    /\ retention \in {"idle", "delete", "mark"}
    /\ lateDelete \in BOOLEAN
    /\ halfPruned \in BOOLEAN
    /\ artifactFaults \in 0 .. MaxArtifactFaults

Idling == [at |-> "idle", generation |-> -1, keyed |-> FALSE, sure |-> FALSE]

ArtifactInit ==
    /\ origin \in {"github", "gitea"}
    /\ artifact = [status |-> "absent", owner |-> 0, generation |-> 0, lapsed |-> FALSE]
    /\ object = FALSE
    /\ ingester = [w \in Ingesters |-> Idling]
    /\ retention = "idle"
    /\ lateDelete = FALSE
    /\ halfPruned = FALSE
    /\ artifactFaults = 0

ArtifactUpset ==
    /\ artifactFaults < MaxArtifactFaults
    /\ artifactFaults' = artifactFaults + 1

Moves(w, step) == ingester' = [ingester EXCEPT ![w].at = step]

(***************************************************************************)
(* The lease.  Every write of the holder names its claim (the fence); a    *)
(* renewal also wants the lease not to have run out.                       *)
(***************************************************************************)
Fenced(w) ==
    /\ artifact.status = "ingesting"
    /\ artifact.owner = w
    /\ artifact.generation = ingester[w].generation

Holds(w) == Fenced(w) /\ ~artifact.lapsed

\* accept(), and what reserve() leaves: the row waits for a claim
Waiting == [artifact EXCEPT !.status = "accepted", !.owner = 0, !.lapsed = FALSE]

ReleasedAs(status) == [artifact EXCEPT !.status = status, !.owner = 0, !.lapsed = FALSE]

(***************************************************************************)
(* How a process comes to the row.                                         *)
(***************************************************************************)
\* a webhook announces a finished build, or announces it again
Accept(w) ==
    /\ origin = "github"
    /\ ingester[w].at = "idle"
    /\ artifact.generation < MaxIngestions
    /\ artifact' = Waiting
    /\ Moves(w, "claim")
    /\ UNCHANGED <<origin, object, retention, lateDelete, halfPruned, artifactFaults>>

\* a Gitea image is wanted: an available row whose object is there is used as it
\* is; one whose object is missing is remembered by its generation
Look(w) ==
    /\ origin = "gitea"
    /\ ingester[w].at = "idle"
    /\ ~(artifact.status = "available" /\ object)
    /\ artifact.generation < MaxIngestions
    /\ ingester' = [ingester EXCEPT
           ![w] = [Idling EXCEPT !.at = "reserve",
                       !.generation = IF artifact.status = "available"
                                      THEN artifact.generation ELSE -1]]
    /\ UNCHANGED <<origin, artifact, object, retention, lateDelete, halfPruned,
                   artifactFaults>>

\* an available row is reopened only when it is still the one whose object was
\* missing; otherwise somebody has captured the image in the meantime
Reserve(w) ==
    /\ ingester[w].at = "reserve"
    /\ \/ /\ artifact.status \in {"accepted", "ingesting"}
          /\ Moves(w, "claim")
          /\ UNCHANGED artifact
       \/ /\ \/ artifact.status \in {"absent", "failed"}
             \/ artifact.status = "available"
                    /\ artifact.generation = ingester[w].generation
          /\ Moves(w, "claim")
          /\ artifact' = Waiting
       \/ /\ artifact.status = "available"
          /\ artifact.generation # ingester[w].generation
          /\ ingester' = [ingester EXCEPT ![w] = Idling]
          /\ UNCHANGED artifact
    /\ UNCHANGED <<origin, object, retention, lateDelete, halfPruned, artifactFaults>>

ClaimIngestion(w) ==
    /\ ingester[w].at = "claim"
    /\ IF /\ artifact.status \in {"accepted", "failed"}
          /\ artifact.owner = 0
          /\ artifact.generation < MaxIngestions
       THEN /\ artifact' = [status |-> "ingesting", owner |-> w, lapsed |-> FALSE,
                            generation |-> artifact.generation + 1]
            /\ ingester' = [ingester EXCEPT
                   ![w] = [at |-> IF origin = "github" THEN "fetch" ELSE "put",
                           generation |-> artifact.generation + 1,
                           keyed |-> origin = "gitea", sure |-> FALSE]]
       ELSE /\ ingester' = [ingester EXCEPT ![w] = Idling]
            /\ UNCHANGED artifact
    /\ UNCHANGED <<origin, object, retention, lateDelete, halfPruned, artifactFaults>>

(***************************************************************************)
(* The work under the lease.                                               *)
(***************************************************************************)
\* the archive is downloaded and its identity verified, the lease asserted after
\* each; an assertion that fails ends in the same handler as a failed download
Fetch(w) ==
    /\ ingester[w].at = "fetch"
    /\ \/ /\ Holds(w)
          /\ ingester' = [ingester EXCEPT ![w].at = "put", ![w].keyed = TRUE]
          /\ UNCHANGED artifactFaults
       \/ /\ ~Holds(w)
          /\ Moves(w, "failing")
          /\ UNCHANGED artifactFaults
       \/ /\ ArtifactUpset
          /\ Moves(w, "failing")
    /\ UNCHANGED <<origin, artifact, object, retention, lateDelete, halfPruned>>

\* a put whose answer is lost has stored the object all the same
Put(w) ==
    /\ ingester[w].at = "put"
    /\ \/ /\ object' = TRUE
          /\ Moves(w, "confirm")
          /\ UNCHANGED artifactFaults
       \/ /\ ArtifactUpset
          /\ object' \in {object, TRUE}
          /\ Moves(w, "failing")
    /\ lateDelete' = (lateDelete /\ ~object')
    /\ halfPruned' = (halfPruned /\ ~object')
    /\ UNCHANGED <<origin, artifact, retention>>

Confirm(w) ==
    /\ ingester[w].at = "confirm"
    /\ Moves(w, IF object THEN "assert" ELSE "failing")
    /\ UNCHANGED <<origin, artifact, object, retention, lateDelete, halfPruned,
                   artifactFaults>>

\* assert(); a GitHub build may load the image into the local daemon here
AssertLease(w) ==
    /\ ingester[w].at = "assert"
    /\ \/ /\ Moves(w, IF Holds(w) THEN "publish" ELSE "failing")
          /\ UNCHANGED artifactFaults
       \/ /\ ArtifactUpset
          /\ Moves(w, "failing")
    /\ UNCHANGED <<origin, artifact, object, retention, lateDelete, halfPruned>>

Publish(w) ==
    /\ ingester[w].at = "publish"
    /\ IF Fenced(w)
       THEN /\ artifact' = ReleasedAs("available")
            /\ ingester' = [ingester EXCEPT ![w] = Idling]
       ELSE /\ Moves(w, "failing")
            /\ UNCHANGED artifact
    /\ UNCHANGED <<origin, object, retention, lateDelete, halfPruned, artifactFaults>>

(***************************************************************************)
(* The failure path: only a process that still holds the lease may clean   *)
(* up.  The check, the delete and the mark are three steps.                *)
(***************************************************************************)
NotAsked(w) == TRUE                                  \* mutant

MayCleanUp(w) == Holds(w)

FailureAssert(w) ==
    /\ ingester[w].at = "failing"
    /\ ingester' = [ingester EXCEPT
           ![w].at = IF ~MayCleanUp(w) THEN "release"
                     ELSE IF ingester[w].keyed THEN "delete" ELSE "mark",
           ![w].sure = Holds(w)]
    /\ UNCHANGED <<origin, artifact, object, retention, lateDelete, halfPruned,
                   artifactFaults>>

\* a failing delete is logged and the row marked all the same
DeletePartial(w) ==
    /\ ingester[w].at = "delete"
    /\ \/ object' = FALSE /\ UNCHANGED artifactFaults
       \/ ArtifactUpset /\ UNCHANGED object
    /\ Moves(w, "mark")
    /\ lateDelete' = (lateDelete \/ (ingester[w].sure /\ ~Fenced(w)))
    /\ UNCHANGED <<origin, artifact, retention, halfPruned>>

MarkFailed(w) ==
    /\ ingester[w].at = "mark"
    /\ artifact' = IF Fenced(w) THEN ReleasedAs("failed") ELSE artifact
    /\ ingester' = [ingester EXCEPT ![w] = Idling]
    /\ UNCHANGED <<origin, object, retention, lateDelete, halfPruned, artifactFaults>>

\* release() of a process that stops without having finished: the row stays
\* "ingesting" with no owner until it is accepted again or recovered
ReleaseIngestion(w) ==
    /\ ingester[w].at = "release"
    /\ artifact' = IF Fenced(w) THEN ReleasedAs("ingesting") ELSE artifact
    /\ ingester' = [ingester EXCEPT ![w] = Idling]
    /\ UNCHANGED <<origin, object, retention, lateDelete, halfPruned, artifactFaults>>

(***************************************************************************)
(* Processes stop, leases run out, interrupted rows are recovered.         *)
(***************************************************************************)
IngesterStops(w) ==
    /\ ingester[w].at # "idle"
    /\ ArtifactUpset
    /\ ingester' = [ingester EXCEPT ![w] = Idling]
    /\ UNCHANGED <<origin, artifact, object, retention, lateDelete, halfPruned>>

\* a process that has stopped, or is held up for longer than the lease
LeaseLapses ==
    /\ artifact.owner # 0 /\ ~artifact.lapsed
    /\ \/ ingester[artifact.owner].at = "idle" /\ UNCHANGED artifactFaults
       \/ ingester[artifact.owner].at # "idle" /\ ArtifactUpset
    /\ artifact' = [artifact EXCEPT !.lapsed = TRUE]
    /\ UNCHANGED <<origin, object, ingester, retention, lateDelete, halfPruned>>

RecoverArtifact ==
    /\ \/ artifact.status = "ingesting" /\ (artifact.lapsed \/ artifact.owner = 0)
       \/ artifact.status = "accepted" /\ artifact.owner = 0
    /\ artifact' = ReleasedAs("failed")
    /\ UNCHANGED <<origin, object, ingester, retention, lateDelete, halfPruned,
                   artifactFaults>>

(***************************************************************************)
(* Retention: find an old row with an object and no reference, delete the  *)
(* object, mark the row by its id alone.                                   *)
(***************************************************************************)
RetentionFinds ==
    /\ retention = "idle"
    /\ artifact.status = "available"
    /\ retention' = "delete"
    /\ UNCHANGED <<origin, artifact, object, ingester, lateDelete, halfPruned,
                   artifactFaults>>

RetentionDeletes ==
    /\ retention = "delete"
    /\ \/ object' = FALSE /\ retention' = "mark" /\ UNCHANGED artifactFaults
       \/ ArtifactUpset /\ retention' = "idle" /\ UNCHANGED object
    /\ UNCHANGED <<origin, artifact, ingester, lateDelete, halfPruned>>

\* the owner is left as it is
RetentionMarks ==
    /\ retention = "mark"
    /\ artifact' = [artifact EXCEPT !.status = "failed"]
    /\ retention' = "idle"
    /\ UNCHANGED <<origin, object, ingester, lateDelete, halfPruned, artifactFaults>>

RetentionStops ==
    /\ retention # "idle"
    /\ ArtifactUpset
    /\ halfPruned' = (halfPruned \/ (retention = "mark" /\ ~object))
    /\ retention' = "idle"
    /\ UNCHANGED <<origin, artifact, object, ingester, lateDelete>>

ArtifactNext ==
    \/ \E w \in Ingesters :
           \/ Accept(w) \/ Look(w) \/ Reserve(w) \/ ClaimIngestion(w)
           \/ Fetch(w) \/ Put(w) \/ Confirm(w) \/ AssertLease(w) \/ Publish(w)
           \/ FailureAssert(w) \/ DeletePartial(w) \/ MarkFailed(w)
           \/ ReleaseIngestion(w) \/ IngesterStops(w)
    \/ LeaseLapses \/ RecoverArtifact
    \/ RetentionFinds \/ RetentionDeletes \/ RetentionMarks \/ RetentionStops

ArtifactSpec == ArtifactInit /\ [][ArtifactNext]_artifactVars

(***************************************************************************)
(* An artifact that is offered for deployment has its object, whoever      *)
(* retried, crashed or cleaned up: the two exceptions are a retention      *)
(* sweep between its delete and its mark, and a process whose lease was    *)
(* lost between the check on its failure path and the delete that follows. *)
(***************************************************************************)
AvailableHasObject ==
    artifact.status = "available" /\ ~object =>
        retention = "mark" \/ halfPruned \/ lateDelete

=============================================================================
