--------------------------- MODULE ProjectDeletion ---------------------------
(***************************************************************************)
(* Deleting a project (ProjectDeletion.execute): the checks it makes, the  *)
(* work it cancels, the teardown and the purge, source control, the row.   *)
(* Meanwhile its members deploy, remove and cancel, a target is            *)
(* disconnected or reconnected, and the Agent works on.  The project has   *)
(* one environment on an Agent and one that InitPad deploys itself.        *)
(***************************************************************************)
EXTENDS Integers

CONSTANTS Deleters,        \* requests that delete the project
          MaxDelRequests   \* bound on what the members and the targets do meanwhile

ASSUME DeletersAssumption == Deleters \subseteq Nat \ {0} /\ MaxDelRequests \in Nat

VARIABLES
    projectRow,     \* the Project row
    source,         \* the repository in source control
    objects,        \* whether the artifact store holds objects of the project
    remote,         \* the Agent-backed Environment row, and its target's managementState
    delJobs,        \* its agent_jobs: the latest deploy, the latest remove, an older success
    agentHost,      \* the Agent's server: the job being worked on, what runs there
    plain,          \* the environment InitPad deploys itself: row, workload, leftovers
    deleter,        \* what each deletion is doing, with the row it read
    delRequests,
    waived,         \* history: someone accepted cleanup debt, or abandoned a target
    lateWork,       \* history: work began after a deletion had checked, fenced or removed
    disowned        \* history: a leased deploy was cancelled by a member or a disconnect, or a
                    \* deletion stopped after it had cancelled an operation but not its job

deletionVars == <<projectRow, source, objects, remote, delJobs, agentHost, plain, deleter,
                  delRequests, waived, lateWork, disowned>>

\* 'ended' stands for every end of a job the check does not count, 'unsettled' for an
\* environment that deploys or failed, 'release' for both 'delete' and 'detach'.
DelJobStates == {"ended", "queued", "leased", "succeeded"}
RepoActions == {"release", "gone"}

\* What runs on the server: what a deploy was to serve, or only what a failed one left there.
Runs == {"nothing", "stray", "served"}
DeployEnds == {"served", "rolledBack", "lost", "leftBehind"}
DelSteps == {"idle", "debt", "check", "operations", "jobs", "teardownAgent", "teardownPlain",
             "purge", "source", "row"}

NotDeleting == [at |-> "idle", action |-> "release", debt |-> FALSE, seen |-> [managed |-> TRUE,
                status |-> "empty", version |-> FALSE, lock |-> "none"]]

RemoteRows == [managed: BOOLEAN, status: {"empty", "unsettled", "running"},
               version: BOOLEAN, lock: {"none", "deploy", "remove"}]

DeletionTypeOK ==
    /\ projectRow \in {"present", "deleted"}
    /\ source \in {"kept", "released", "gone"}
    /\ objects \in BOOLEAN
    /\ remote \in RemoteRows
    /\ delJobs \in [deploy: DelJobStates, remove: DelJobStates \ {"succeeded"}, earlier: BOOLEAN]
    /\ agentHost \in [busy: {"none", "deploy", "remove"}, runs: Runs]
    /\ plain \in {"empty", "up", "left", "unreached"}
    /\ deleter \in [Deleters -> [at: DelSteps, action: RepoActions, debt: BOOLEAN,
                                 seen: RemoteRows]]
    /\ delRequests \in 0 .. MaxDelRequests
    /\ {waived, lateWork, disowned} \subseteq BOOLEAN

DeletionInit ==
    /\ projectRow = "present"
    /\ source = "kept"
    /\ objects = TRUE
    /\ remote = [managed |-> TRUE, status |-> "empty", version |-> FALSE, lock |-> "none"]
    /\ delJobs = [deploy |-> "ended", remove |-> "ended", earlier |-> FALSE]
    /\ agentHost = [busy |-> "none", runs |-> "nothing"]
    /\ plain = "up"
    /\ deleter = [d \in Deleters |-> NotDeleting]
    /\ delRequests = 0
    /\ waived = FALSE
    /\ lateWork = FALSE
    /\ disowned = FALSE

OpenJobs == {"queued", "leased"}
Cancelled(status) == IF status \in OpenJobs THEN "ended" ELSE status
CancelledJobs == [delJobs EXCEPT !.deploy = Cancelled(@), !.remove = Cancelled(@)]

DelRequest ==
    /\ delRequests < MaxDelRequests
    /\ delRequests' = delRequests + 1

Deleting == \E d \in Deleters : deleter[d].at # "idle"
Unchecked == {"idle", "debt", "check"}
BeforeFence == Unchecked \cup {"operations", "jobs"}

\* A deploy that is queued now escapes a deletion that has fenced the jobs, or that does not
\* look at them, because its row says that the target is not managed.
Overlooks(d) ==
    \/ deleter[d].at \notin BeforeFence
    \/ deleter[d].at # "idle" /\ ~deleter[d].seen.managed

PastTeardown(d) == deleter[d].at \in {"purge", "source", "row"}

-----------------------------------------------------------------------------
(* The members, the Agent and the target.                                  *)

\* One unfinished deploy job at a time: an interrupted deletion may leave one without a lock.
QueueDeploy ==
    /\ DelRequest
    /\ projectRow = "present" /\ remote.managed /\ remote.lock = "none"
    /\ delJobs.deploy \notin OpenJobs
    /\ remote' = [remote EXCEPT !.status = "unsettled", !.lock = "deploy"]
    /\ delJobs' = [delJobs EXCEPT !.deploy = "queued",
                                  !.earlier = @ \/ delJobs.deploy = "succeeded"]
    /\ lateWork' = (lateWork \/ \E d \in Deleters : Overlooks(d))
    /\ UNCHANGED <<projectRow, source, objects, agentHost, plain, deleter, waived, disowned>>

LeaseDeploy ==
    /\ delJobs.deploy = "queued" /\ remote.managed /\ agentHost.busy = "none"
    /\ delJobs' = [delJobs EXCEPT !.deploy = "leased"]
    /\ agentHost' = [agentHost EXCEPT !.busy = "deploy"]
    /\ lateWork' = (lateWork \/ \E d \in Deleters : deleter[d].at \notin Unchecked)
    /\ UNCHANGED <<projectRow, source, objects, remote, plain, deleter, delRequests, waived,
                   disowned>>

\* A deploy that fails may put its predecessor back, lose it, or leave its candidate running.
AfterDeploy(end) ==
    CASE end = "served" -> "served"
      [] end = "rolledBack" -> agentHost.runs
      [] end = "lost" -> "nothing"
      [] end = "leftBehind" -> IF agentHost.runs = "served" THEN "served" ELSE "stray"

\* The Agent ends a deploy.  The answer counts only while the job is leased, the projection
\* only while the operation holds the lock.
EndDeploy(end) ==
    /\ agentHost.busy = "deploy"
    /\ agentHost' = [busy |-> "none", runs |-> AfterDeploy(end)]
    /\ LET works == end = "served" IN
       IF delJobs.deploy = "leased"
       THEN /\ delJobs' = [delJobs EXCEPT !.deploy = IF works THEN "succeeded" ELSE "ended"]
            /\ remote' = IF remote.lock # "deploy" THEN remote
                         ELSE [remote EXCEPT !.lock = "none", !.version = @ \/ works,
                                             !.status = IF works THEN "running" ELSE "unsettled"]
       ELSE UNCHANGED <<delJobs, remote>>
    /\ UNCHANGED <<projectRow, source, objects, plain, deleter, delRequests, waived, lateWork,
                   disowned>>

\* ProjectEnvironmentLifecycle.remove with a version, and without one.
QueueRemove ==
    /\ DelRequest
    /\ projectRow = "present" /\ remote.managed /\ remote.lock = "none"
    /\ remote.status # "empty"
    /\ IF remote.version
       THEN /\ remote' = [remote EXCEPT !.lock = "remove"]
            /\ delJobs' = [delJobs EXCEPT !.remove = "queued"]
       ELSE /\ remote' = [remote EXCEPT !.status = "empty"]
            /\ UNCHANGED delJobs
    /\ UNCHANGED <<projectRow, source, objects, agentHost, plain, deleter, waived, lateWork,
                   disowned>>

LeaseRemove ==
    /\ delJobs.remove = "queued" /\ remote.managed /\ agentHost.busy = "none"
    /\ delJobs' = [delJobs EXCEPT !.remove = "leased"]
    /\ agentHost' = [agentHost EXCEPT !.busy = "remove"]
    /\ UNCHANGED <<projectRow, source, objects, remote, plain, deleter, delRequests, waived,
                   lateWork, disowned>>

EndRemove(works) ==
    /\ agentHost.busy = "remove"
    /\ agentHost' = [busy |-> "none", runs |-> IF works THEN "nothing" ELSE agentHost.runs]
    /\ IF delJobs.remove = "leased"
       THEN /\ delJobs' = [delJobs EXCEPT !.remove = "ended"]
            /\ remote' = IF remote.lock # "remove" THEN remote
                         ELSE [remote EXCEPT !.lock = "none", !.version = @ /\ ~works,
                                             !.status = IF works THEN "empty" ELSE "unsettled"]
       ELSE UNCHANGED <<delJobs, remote>>
    /\ UNCHANGED <<projectRow, source, objects, plain, deleter, delRequests, waived, lateWork,
                   disowned>>

\* A member cancels the operation: its jobs are cancelled and a removal is queued instead.
CancelAndClean ==
    /\ DelRequest
    /\ projectRow = "present" /\ remote.managed /\ remote.lock # "none"
    /\ delJobs' = [CancelledJobs EXCEPT !.remove = "queued"]
    /\ remote' = [remote EXCEPT !.lock = "remove"]
    /\ disowned' = (disowned \/ delJobs.deploy = "leased")
    /\ UNCHANGED <<projectRow, source, objects, agentHost, plain, deleter, waived, lateWork>>

\* The retention sweep drops jobs that ended 90 days ago: none of a running deletion's time.
SweepJobs ==
    /\ projectRow = "present" /\ ~Deleting
    /\ delJobs.earlier \/ delJobs.deploy = "succeeded"
    /\ delJobs' = [delJobs EXCEPT !.earlier = FALSE,
                                  !.deploy = IF @ = "succeeded" THEN "ended" ELSE @]
    /\ UNCHANGED <<projectRow, source, objects, remote, agentHost, plain, deleter, delRequests,
                   waived, lateWork, disowned>>

\* TargetsService.makeUnavailable(), and an Agent's enroll() that takes the target back.
DisconnectTarget ==
    /\ DelRequest
    /\ projectRow = "present" /\ remote.managed
    /\ delJobs' = CancelledJobs
    /\ remote' = [remote EXCEPT !.managed = FALSE, !.lock = "none",
                                !.status = IF remote.lock = "none" THEN @ ELSE "unsettled"]
    /\ disowned' = (disowned \/ delJobs.deploy = "leased")
    /\ UNCHANGED <<projectRow, source, objects, agentHost, plain, deleter, waived, lateWork>>

ReconnectTarget ==
    /\ projectRow = "present" /\ ~remote.managed
    /\ remote' = [remote EXCEPT !.managed = TRUE]
    /\ UNCHANGED <<projectRow, source, objects, delJobs, agentHost, plain, deleter,
                   delRequests, waived, lateWork, disowned>>

\* abandonOnUnmanagedTarget: a member gives up what a disconnected target may still run.
AbandonDeployment ==
    /\ projectRow = "present" /\ ~remote.managed /\ remote.status # "empty"
    /\ remote' = [remote EXCEPT !.status = "empty", !.version = FALSE]
    /\ waived' = TRUE
    /\ UNCHANGED <<projectRow, source, objects, delJobs, agentHost, plain, deleter, delRequests,
                   lateWork, disowned>>

DeployPlain ==
    /\ DelRequest
    /\ projectRow = "present" /\ source = "kept" /\ plain # "up"
    /\ plain' = "up"
    /\ objects' = TRUE
    /\ lateWork' = (lateWork \/ \E d \in Deleters : PastTeardown(d))
    /\ UNCHANGED <<projectRow, source, remote, delJobs, agentHost, deleter, waived, disowned>>

\* The repository disappears in source control.
RepositoryVanishes ==
    /\ DelRequest
    /\ projectRow = "present" /\ source = "kept"
    /\ source' = "gone"
    /\ UNCHANGED <<projectRow, objects, remote, delJobs, agentHost, plain, deleter, waived,
                   lateWork, disowned>>

-----------------------------------------------------------------------------
(* The deletion.                                                           *)

Proceed(d, step) == deleter' = [deleter EXCEPT ![d].at = step]
Refuse(d) == deleter' = [deleter EXCEPT ![d] = NotDeleting]

ReadProject(d) ==
    /\ deleter[d].at = "idle" /\ projectRow = "present"
    /\ \E action \in RepoActions, debt \in BOOLEAN :
          /\ action = "gone" => source = "gone" /\ ~debt
          /\ deleter' = [deleter EXCEPT ![d] = [at |-> "debt", action |-> action,
                                                debt |-> debt, seen |-> remote]]
    /\ UNCHANGED <<projectRow, source, objects, remote, delJobs, agentHost, plain, delRequests,
                   waived, lateWork, disowned>>

HasDeploymentState(row) == row.status # "empty" \/ row.version \/ row.lock # "none"

CheckDebt(d) ==
    /\ deleter[d].at = "debt"
    /\ LET abandoned == ~deleter[d].seen.managed /\ HasDeploymentState(deleter[d].seen)
           accepted == deleter[d].debt \/ deleter[d].action = "gone"
       IN  /\ IF abandoned /\ ~accepted THEN Refuse(d) ELSE Proceed(d, "check")
           /\ waived' = (waived \/ (abandoned /\ accepted))
    /\ UNCHANGED <<projectRow, source, objects, remote, delJobs, agentHost, plain, delRequests,
                   lateWork, disowned>>

\* A mutant: a deploy the Agent has leased but not finished does not count.
OnlyFinishedDeploys == {"succeeded"}

\* The statuses of a deploy job that make mayHoldRemoteWorkload true.
TellingDeploys == {"leased", "succeeded"}

MayHoldRemoteWorkload(row) ==
    \/ row.version
    \/ row.status = "running"
    \/ delJobs.deploy \in TellingDeploys
    \/ delJobs.earlier

CheckRemote(d) ==
    /\ deleter[d].at = "check"
    /\ IF deleter[d].seen.managed /\ MayHoldRemoteWorkload(deleter[d].seen)
       THEN Refuse(d)
       ELSE deleter' = [deleter EXCEPT ![d] = [NotDeleting EXCEPT
                !.at = "operations", !.action = deleter[d].action, !.debt = deleter[d].debt,
                !.seen.managed = deleter[d].seen.managed]]
    /\ UNCHANGED <<projectRow, source, objects, remote, delJobs, agentHost, plain, delRequests,
                   waived, lateWork, disowned>>

CancelOperations(d) ==
    /\ deleter[d].at = "operations"
    /\ remote' = [remote EXCEPT !.lock = "none"]
    /\ Proceed(d, "jobs")
    /\ UNCHANGED <<projectRow, source, objects, delJobs, agentHost, plain, delRequests, waived,
                   lateWork, disowned>>

FenceJobs(d) ==
    /\ deleter[d].at = "jobs"
    /\ delJobs' = CancelledJobs
    /\ Proceed(d, "teardownAgent")
    /\ UNCHANGED <<projectRow, source, objects, remote, agentHost, plain, delRequests, waived,
                   lateWork, disowned>>

\* For an Agent's environment the provider has nothing to remove here; its row becomes empty,
\* if another deletion has not deleted it.
TeardownAgent(d) ==
    /\ deleter[d].at = "teardownAgent"
    /\ IF deleter[d].seen.managed
       THEN /\ remote' = [remote EXCEPT !.status = "empty", !.version = FALSE, !.lock = "none"]
            /\ IF projectRow = "present" THEN Proceed(d, "teardownPlain") ELSE Refuse(d)
       ELSE /\ UNCHANGED remote
            /\ Proceed(d, "teardownPlain")
    /\ UNCHANGED <<projectRow, source, objects, delJobs, agentHost, plain, delRequests, waived,
                   lateWork, disowned>>

\* What is left of a deployment after a removal with a warning.
LeftOf(remains) == IF remains = "up" THEN "left" ELSE remains

\* The provider removes everything, or the public part with a warning, or fails; if it
\* cannot connect, it returns as if it had removed everything.
TeardownPlain(d) ==
    /\ deleter[d].at = "teardownPlain"
    /\ \/ /\ plain' = "empty"
          /\ IF projectRow = "present" THEN Proceed(d, "purge") ELSE Refuse(d)
          /\ UNCHANGED waived
       \/ /\ plain' = IF plain = "empty" THEN "empty" ELSE "unreached"
          /\ IF projectRow = "present" THEN Proceed(d, "purge") ELSE Refuse(d)
          /\ UNCHANGED waived
       \/ /\ plain # "empty"
          /\ plain' = LeftOf(plain)
          /\ LET accepted == deleter[d].debt /\ projectRow = "present" IN
             /\ IF accepted THEN Proceed(d, "purge") ELSE Refuse(d)
             /\ waived' = (waived \/ accepted)
       \/ /\ Refuse(d) /\ UNCHANGED <<plain, waived>>
    /\ UNCHANGED <<projectRow, source, objects, remote, delJobs, agentHost, delRequests, lateWork,
                   disowned>>

\* A mutant: objects that could not be deleted are logged and forgotten.
StorageIgnored(d) == FALSE

\* Whether objects that could not be deleted stop the deletion.
StorageStops(d) == deleter[d].action # "gone" /\ ~deleter[d].debt

PurgeObjects(d) ==
    /\ deleter[d].at = "purge"
    /\ \/ objects' = FALSE /\ Proceed(d, "source") /\ UNCHANGED waived
       \/ /\ UNCHANGED objects
          /\ IF StorageStops(d) THEN Refuse(d) ELSE Proceed(d, "source")
          /\ waived' = (waived \/ deleter[d].debt \/ deleter[d].action = "gone")
    /\ UNCHANGED <<projectRow, source, remote, delJobs, agentHost, plain, delRequests, lateWork,
                   disowned>>

\* deletePackages, then deleteRepo or detachRepo; any of them may fail.
ReleaseSource(d) ==
    /\ deleter[d].at = "source"
    /\ \/ /\ source' = IF deleter[d].action = "release" /\ source = "kept" THEN "released"
                     ELSE source
          /\ Proceed(d, "row")
       \/ Refuse(d) /\ UNCHANGED source
    /\ UNCHANGED <<projectRow, objects, remote, delJobs, agentHost, plain, delRequests, waived,
                   lateWork, disowned>>

DeleteRow(d) ==
    /\ deleter[d].at = "row"
    /\ projectRow' = "deleted"
    /\ Refuse(d)
    /\ UNCHANGED <<source, objects, remote, delJobs, agentHost, plain, delRequests, waived,
                   lateWork, disowned>>

\* The process stops, or a statement fails, between two steps: an operation may be cancelled
\* while its job is not.
DeletionStops(d) ==
    /\ deleter[d].at # "idle"
    /\ Refuse(d)
    /\ disowned' = (disowned \/ (deleter[d].at = "jobs" /\ delJobs.deploy \in OpenJobs))
    /\ UNCHANGED <<projectRow, source, objects, remote, delJobs, agentHost, plain, delRequests,
                   waived, lateWork>>

DeletionNext ==
    \/ QueueDeploy \/ LeaseDeploy \/ QueueRemove \/ LeaseRemove \/ CancelAndClean
    \/ \E end \in DeployEnds : EndDeploy(end)
    \/ \E works \in BOOLEAN : EndRemove(works)
    \/ SweepJobs \/ DisconnectTarget \/ ReconnectTarget \/ AbandonDeployment
    \/ DeployPlain \/ RepositoryVanishes
    \/ \E d \in Deleters : \/ ReadProject(d) \/ CheckDebt(d) \/ CheckRemote(d)
                           \/ CancelOperations(d) \/ FenceJobs(d)
                           \/ TeardownAgent(d) \/ TeardownPlain(d) \/ PurgeObjects(d)
                           \/ ReleaseSource(d) \/ DeleteRow(d) \/ DeletionStops(d)

DeletionSpec == DeletionInit /\ [][DeletionNext]_deletionVars

-----------------------------------------------------------------------------
\* Nothing that a deploy was to serve outlives the project, neither on the Agent's server nor
\* where InitPad deploys itself, whatever was queued, leased or ended between the moment a
\* deletion read the row and its check (mayHoldRemoteWorkload counts leased jobs, execute's
\* order of checks, cancellations and teardown).  Five cases are excepted: somebody accepted
\* the debt; a deploy was leased between the check and the fence, or queued after what would
\* have stopped it; a leased deploy was taken from the Agent by a cancellation, a disconnect or
\* an interrupted deletion; only a failed deploy left something there, which nobody counts;
\* and the host was not reached by the teardown.
DeletedLeavesNothing ==
    projectRow = "deleted" =>
        /\ agentHost.runs = "served" => waived \/ lateWork \/ disowned
        /\ plain = "up" => lateWork
        /\ plain = "left" => waived \/ lateWork

\* Source control is touched last: when InitPad has deleted or detached the repository, the
\* stored artifacts are gone, unless the debt was accepted or a build came in between (a
\* storage outage never destroys the user's source).
SourceOutlivesArtifacts ==
    source = "released" /\ objects => waived \/ lateWork
=============================================================================
