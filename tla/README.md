# TLA+ verification of InitPad

InitPad is a self-hosted deployment platform. A NestJS control plane
(`apps/api`, PostgreSQL through Prisma, possibly several replicas) creates
projects in GitHub or Gitea, receives the callbacks of their CI, and deploys the
built images: directly (SSH, SFTP, the local Docker daemon) from an API process,
or through an outbound agent (`apps/agent`) that polls the control plane from
the Docker host. A supervisor (`apps/supervisor`) updates the platform itself.
All coordination goes through rows of the database: locks that are columns,
leases with an owner, a generation or a token and an expiry, and
compare-and-set updates (`updateMany` with a where-clause, then a look at
`count`). That coordination is what these modules are about.

## Inventory

For every component: its state, its operations and partners, what is hard, and
what makes it correct. Paths are relative to `apps/`, and to `apps/api/src`
where they start with a folder of it. The last column names the module;
`PROJECT.json` lists the same components with their status and every hazard at
its line.

| Component | State | Operations and partners | Hard behaviour | Correct when | Module |
|---|---|---|---|---|---|
| **Agent job leases** (`agents/agent-job-leases.ts`, `agents/agent-jobs.service.ts`, `agent/src/job-worker.ts`, `agent/src/runtime.ts`) | `AgentJob` rows (status, lease token hash, expiry, attempt, progress sequence), the agent's credential | claim, renew, progress, complete from the agent; enqueue, cancel and disconnect from the control plane | every handler takes `now` before its statement; claims race; the agent retries; a late request meets a reclaimed, cancelled or terminal row | a job has one outcome, only the holder of the current token decides it, a 200 stays true, a live lease is not taken | `AgentLease`, `JobContract` |
| **Deployment operations** (`projects/project-deployment-operations.ts`, `project-deployment-executor.ts`, `project-environment-lifecycle.ts`, the deployment part of `projects.service.ts`, `project-ci-orchestrator.ts`) | `Environment.activeOperationId`, `DeploymentOperation` (status, finishedAt, execution owner, generation, lease) | begin, claim/renew/release of the execution lease, publish, complete, recovery, remove, CI callbacks | replicas stall and come back; a crash between two statements; remove and CI callbacks write what they read earlier | a stale worker publishes nothing, recovery fails only what is lost, every operation ends, the lock follows the operation | `DeploymentOperations` |
| **Agent delivery** (`projects/project-agent-delivery.ts`, `reconcileTerminalJob*` in `agents/agent-jobs.service.ts`, `targets/gateway-routes.service.ts`, the agent's part of the lifecycle) | jobs of one operation (steps 1, 2), `GatewayRoute` (generation, desired and observed state) | queueDeployment, queueLifecycle, queueReconcile, projection of decided jobs, replay at startup | the decided job and its projection are two transactions; a newer route generation supersedes an older; remove races the projection | an operation succeeds when every step has and what it says is on the host; an older generation never overwrites a newer observation | `AgentDelivery` |
| **Agent workload** (`agent/src/docker-lifecycle.ts`, `gateway-route.ts`, `caddy-admin.ts`, `gateway-network.ts`) | containers, the route of the edge, network attachments | deploy, activation with rollback, idempotent remove | a failing step in the middle, the repeated execution of a reclaimed job | a failed candidate never replaces the last healthy revision | `AgentWorkload` |
| **Agent credentials** (`agents/agents.service.ts`, `agent/src/credential-rotation.ts`, `targets/targets.service.ts` makeUnavailable) | `Agent` (enrolment token, active and pending credential, disabledAt), the agent's config file | issueEnrollment, enroll, heartbeat with rotation, disconnect | the answer with the new credential is lost, the agent crashes between persist and confirm, reissue after a timeout, revocation during a heartbeat | an agent always keeps a credential that works, a revoked one never comes back | `AgentCredentials` |
| **Agent update** (`agents/agent-updates.service.ts`, `agent/src/agent-update*.ts`) | the update job, the containers under two fixed names | handoff of the lease to a helper, apply, roll back | two processes with one lease token, a crash on either side of the handoff | the old agent is kept until the new one is proved | `AgentSelfUpdate` |
| **Production approvals** (`projects/project-production-approvals.ts`) | `ProductionDeploymentRequest` | create, approve, reject, cancel, markStale; schedules a deployment | two reviewers, a crash while `approving`, edits between the snapshot and begin() | one deployment per request, nothing runs that was not reviewed | `ProductionApprovals` |
| **Provisioning** (`projects/provisioning.service.ts`, create and import in `projects.service.ts`) | `ProvisioningOperation` (lease), `ProvisioningEffect` journal, the repository | plan, begin, complete, fail and compensate an effect; retry, cleanup, reconcileStale | a crash between an external effect and its record; succeed() and fail() are not fenced | a retry starts on nothing, only what InitPad created is deleted | `ProjectProvisioning` |
| **Artifact ingestion** (`projects/project-artifact-ingestion.ts`, `project-artifact-execution-lease.ts`, `project-registry-artifact-capture.ts`, `project-artifact-lifecycle.ts`) | `BuildArtifact` (status, owner, generation, lease), an object in the store | accept, claim, upload, publish, clean up, recover, retain | takeover while the old worker still uploads or cleans up the same key | an available artifact has its object | `ArtifactIngestion` |
| **Project deletion** (`projects/project-deletion.ts`) | the project, environments, jobs, host, objects, repository | check, cancel, fence, tear down, purge, release, delete | everything else goes on; any step fails, or the process stops | nothing is left behind that nobody was told of | `ProjectDeletion` |
| **Platform update** (`supervisor/src/*`) | `state.json`, the lock file, the Compose override and its copy, the running services | accept, apply, roll back, recover | a crash at any stage, helper and recovery at once | override, state and running version agree | `PlatformUpdate` |
| **Identity and sessions** (`auth/auth.service.ts`, `auth/*session*`) | `User` (password, token version), `UserSession`, `AuthToken` | sign in, change and reset the password, links, end sessions | requests overtake one another while a hash is computed | a session is never newer than its password | `AccountSessions` |
| **Mail outbox** (`mail/mail-delivery.service.ts`) | `EmailOutbox` | claim, send, record, retry | a crash after the send, a stale lock taken over | one copy, but for each such event | `MailOutbox` |
| **Targets, allocations, capacity** (`targets/*`, `workspaces/workspace-capacity.service.ts`) | `Target`, `TargetAllocation`, quotas | create, update, disconnect, retire, restore | a count read before the transaction that relies on it | no quota is exceeded, nothing runs on a retired target | not modelled |
| **Leader lease and sweeps** (`common/control-plane-lease.service.ts`, `projects/projects-lifecycle.service.ts`) | `ControlPlaneLease`, `Environment.expiresAt` | acquire, periodic recovery, expiry | two leaders around the expiry | sweeps tolerate a second leader | not modelled |
| **Workspace members** (`workspaces/workspaces.service.ts`, `scm/repository-member-access.service.ts`) | `WorkspaceMember.role`, collaborators and registry credentials of every repository | add, change, remove a member; the Git service, one repository at a time; project creation and import | a failure in the middle is undone call by call, an answer is lost, requests and a new project overlap | a repository grants what the role is worth, who lost write access knows no credential | `WorkspaceMembership` |
| **Audit, OAuth, profile** | audit events, linked accounts | CRUD | single statements | - | not modelled |
| **Source control** (`scm`, `templates`, `generator`) | external repositories, webhook deliveries | provider calls, webhooks | external systems, at-least-once webhooks | - | only as an environment |
| **Providers and preparation** (`deployment/providers/*`, `deployment/deployment.service.ts`, `projects/project-deployment-preparation.ts`) | folders, releases and links on a server, containers of the local daemon | deploy, stop, start, teardown, each a sequence of commands; called by the operations | any command fails, some failures are ignored; a cancellation, a crash or recovery half-way; the row says what the host should serve | an environment shown as running serves its version, one shown as empty serves nothing | `DirectHost` |
| **Web, infrastructure, packaging** | browser state | pages, Compose files, scripts | - | - | not modelled |

How they interact: users and CI begin an operation (which takes the environment's
lock); the operation is executed by an API process under an execution lease, or
by jobs that an agent leases; both publish their result into the environment
under the lock; recovery sweeps of the leader end what nobody executes any more.
Approvals end in begin(); deletion cancels operations and jobs; a disconnect of
a target revokes the agent's credential and withdraws its jobs.

## Plan

1. `AgentLease` with `JobContract`, which it implements. *Checked and proved.*
2. `DeploymentOperations`: lock and execution lease. *Checked; its safety proved.*
3. `AgentDelivery` over `AgentWorkload`: the control plane's chain of jobs and
   what the agent does on its host, composed. *Checked and proved.*
4. `AgentCredentials`, `ProductionApprovals`, `ProjectProvisioning`,
   `ArtifactIngestion`, `AgentSelfUpdate`, `PlatformUpdate`, `AccountSessions`,
   `ProjectDeletion`, `WorkspaceMembership`, `DirectHost`, `MailOutbox`.
   *Checked and proved.*
5. Open: the liveness of `AgentDelivery` (the exceptions are listed under
   "Behaviour without a finding").

## Modules

A module has the state of its component as VARIABLES, one action per statement
or transaction of a handler (or per call to Docker, Caddy, an SCM or the object
store), and the properties at its end. A handler that reads, awaits and then
writes is two actions, and anything may come in between. Constants named `Max...`
are bounds, each named where it is declared and spent by the actions that it
bounds.


### AgentLease

One target, its jobs, its agents and the requests in flight.

| Model | Code |
|---|---|
| `job[j]` (status, attempt, expires, sequence) | the `AgentJob` row. `attempt` stands for the lease token too: the winning `updateMany` writes both, a fresh token and `increment: 1` |
| `agent` | the `Agent` row: `disabledAt` and which credential is the active one |
| `worker[w]` | a claim handler, and then the `executeClaimedJob()` that it answered |
| `calls` | requests that have been authenticated and have taken `now`, each waiting for its statement |
| `acked` | history of the 200 answers of complete() |
| `ClaimRead`, `GrantLease`, `ClaimRaced` | the two statements of claimOnce(), and the loop of claim() |
| `RejectDelivery`, `FailInvalidDelivery` | deliveryForLease() throwing, failInvalidDelivery() |
| `RenewLease`, `RecordProgress`, `CompleteJob`, `ReplayComplete`, `AnswerComplete` | renew(), progress(), and the transaction, the comparison and the answer of complete() |
| `SendRenew`, `SendProgress`, `FinishWork`, `SendComplete`, `Abandon` | job-worker.ts and runtime.ts; a request may be sent again before it was answered |
| `Enqueue`, `CancelJob`, `Disconnect`, `Enroll` | whoever creates and cancels jobs, makeUnavailable(), enroll() |
| `LoseCall`, `Tick` | the API process dies; time passes |

A handler is at least two steps, because the code takes `now` and reads before
it writes. The wall clock is a counter, so a delayed request carries an old `now`.

Left out: payloads, results and messages (the comparison of a replayed
completion is on the outcome), the projections behind AnswerComplete
(`AgentDelivery`), the rotation of credentials (`AgentCredentials`: a worker
keeps the credential it claimed with), the agent update's handoff of a token to
a helper process (`AgentSelfUpdate`).

`JobContract` is what the rest of the system may rely on: grant, decide,
withdraw, tell. `AgentLease` implements it under the mapping at its end: the
contract's fence is the attempt, its verdict the stored outcome.

### DeploymentOperations

One environment of a direct target, its operations, and the API processes.

| Model | Code |
|---|---|
| `lock` | `Environment.activeOperationId` |
| `op[o]` (status, finished, kind, owner, generation, lease) | the `DeploymentOperation` row; the lease is none, live or lapsed by the database's clock |
| `task[r][o]` | a background task or request for o: program counter, the generation of its execution context, the result it will report. r is a process and a lane in it: begin() starts one task, every callback of a ci-retry another |
| `local[p]` | `localExecutions` of process p |
| `recovery`, `removal`, `failure` | recoverInterrupted(), remove() of an active environment, publishCiFailure(), each between its read and its writes |
| `published` | history: operations whose result reached the environment |
| `Begin`, `CancelRejected`, `RevertBegin` | begin() |
| `AwaitWorkflow`, `RetryTagFails`, `CiCallback` | runAgain() and deployFromCi() of a ci-retry |
| `EnterExecution`, `AlreadyExecuting`, `ClaimExecution`, `ClaimRefused` | runWithExecutionLease(): the look at localExecutions, the awaited claimExecution(), and the entry into localExecutions when the claim is answered |
| `LoseFence`, `Leave` | assertExecution() failing; the finally block with releaseExecution() |
| `WorkDone`, `WorkFails`, `TearDown`, `TearDownFails`, `Publish`, `PublishRefused`, `PublishFailure`, `DatabaseFails` | execute(), deployEnvInBackground(), startInBackground(), stop(), remove() |
| `CompleteOwned`, `ReleaseLock` | the two statements of completeOwned() |
| `RecoverFind`, `RecoverCommit`, `RecoverRelease` | recoverInterrupted(): read, compare-and-set, release |
| `RemoveRead`, `RemoveRetry`, `RemoveMark` | remove() while an operation is active |
| `CiFailureRead`, `CiFailureUnlock`, `CiFailureComplete` | publishCiFailure() and complete() without an execution context |
| `Lapse`, `Crash`, `RequestLost` | a lease runs out, a process dies, a request dies |

The look at localExecutions and the claim are two steps, so that two callbacks
of a ci-retry may both pass the look; the second then claims the operation for
the same owner and gets the same generation. The finally block of one of them
removes the operation from localExecutions for both.

Two simplifications: a lease may lapse at any time (the real 90 s are long, but
a stalled process has no bound), and an unclaimed operation can be recovered at
any time (the code waits `LEGACY_EXECUTION_GRACE_MS` from its creation). Both
only add behaviours. One thing is assumed: recovery reads the clock of its
process and the lease was written with the database's, and the model has a
single clock. The status text of the environment, quotas, artifacts and the
agent-backed branches are left out; `deploy` stands for deploy, promote,
redeploy, rollback, retry and ci-deploy, which run the same code. A ci-retry
whose artifact has to be ingested first belongs to the ingestion component.

### AgentDelivery over AgentWorkload

One environment on an agent's target, managed gateway or direct port, and the
host of the agent. `AgentDelivery` EXTENDS `AgentWorkload`: the job that the
agent claims becomes the host's `exec`, and what the host reports becomes the
result of the job.

| Model | Code |
|---|---|
| `managed`, `container[r]`, `upstream`, `attached` | the routing mode, the container of each revision, the upstream of the Caddy route, the connection of the gateway to the workload's network |
| `exec` | the job the agent runs: its program counter and what it has read; lost when the agent is killed |
| `ReuseWorkload`, `StartCandidate`, `CandidateHealthy`, `PublishCandidate`, `StopWorkload`, `RemoveRevision`, ... | docker-lifecycle.ts, one call to Docker each |
| `Connect`, `Switch`, `Verify`, `ActivationFails`, `Restore`, `RolledBack`, `Discard`, `Detach`, `ClearRoute`, `Disconnect`, ... | gateway-route.ts, gateway-network.ts, caddy-admin.ts with their rollbacks |
| `env`, `op`, `job`, `route` | the `Environment`, `DeploymentOperation`, `AgentJob` and `GatewayRoute` rows |
| `queueing[o]` | queueDeployment(), queueLifecycle(), queueReconcile() between their statements, with refusals and failures |
| `projector[p]` | a request that projects a decided job: reconcileTerminalJob*, read first and written later, repeated when the agent repeats its completion |
| `removal` | remove() of an environment with an active operation |
| `Claim`, `Complete`, `Kill` | the agent, on top of what `AgentLease` guarantees: one holder, one outcome |
| `strayed` | history: remove() cleared a lock it had not compared, so that an operation went on without the environment |

The upstream of the route is identified by the revision; the code compares a
container id as well, which differs only for two containers of one revision.
Leases are abstracted to "the agent claims, and claims again when it was killed".
Left out: image loading and removal, legacy containers, probes, logs,
configuration fingerprints, gateway preflights, environment expiry.

### AgentCredentials

One `Agent` row, its file, its running process, and heartbeats in flight.
Credentials are numbered as they are made, so that `identity.active` and
`identity.pending` say what the hashes say. `AuthenticateBeat`, `AcceptBeat`,
`OfferCredential` are the three statements of a heartbeat; `PersistRotation`,
`RotationConfirmed`, `FallbackAnswered`, `AgentGivesUp` the agent's side;
`IssueEnrollment`, `ReadToken`, `RedeemToken`, `SaveEnrollment` the enrolment of
a host, `MakeUnavailable` a disconnect. `upsets` bounds lost answers, crashes
and revocations. The last credential that was accepted and the revoked ones are
history.

### AgentSelfUpdate

The update job with its attempts, the two container names, and one updater
container for each attempt (the lease may lapse, so that two updaters exist).
Actions are the Docker calls of agent-update-docker.ts: `Preflight`,
`StopAgent`, `ParkAgent`, `StartReplacement`, `VerifyReplacement`,
`RemovePrevious`, and `RollBack`, `RestoreAgent` on the error path.
`unparked` is history: an updater failed after it stopped the agent and before
it had renamed it, see "Behaviour without a finding".

### ProductionApprovals

Inputs (source, configuration and target), requests, reviewers in the middle of
approve(), and the lock of production. Of a target and its allocation there are
two numbers: the revision (`updatedAt`), which is all that the code compares,
and the settings, which a deployment uses. `ReadSnapshot` and `Create`
are create(), `ReviewRead`, `ReviewClaim`, `BeginRead`, `BeginLock`,
`BeginRecheck`, `ReviewDone` are approve() with begin(), `GiveBack`,
`LinkFails`, `AuditFails` and `ReviewCrash` its failures. `EditSource` is a
publication in the source stage, `EditConfig` an upsert. `CountOperations` and
`EditTarget` are update() of a target or an allocation and makeUnavailable() of
one without an agent: a count of what is active, and a write some time later.
`DisconnectAgent` is makeUnavailable() of a target with an agent, which goes on
with active operations and cancels them if it had counted any. `TouchTarget` is
every write of the row that counts nothing and leaves the settings alone:
verify(), restore(), an enrolment, a gateway preflight, a re-encryption.
`overtaken` marks an operation whose target was edited by a request that had
counted active operations before it began; `unlinked` one that was started and
could not be stored with its request.

### ProjectProvisioning

One repository name, the attempts to set up a project under it, their effects,
and calls of retry and cleanup. `setter[a]` is create() or importExisting():
`BeginRepository`, `Provision`, `CompleteRepository` and so on are the record
before, the external call and the record after each effect; `UndoRepository`,
`UndoProject`, `UndoSecrets`, `UndoImport` the compensation; `Reconcile` is
reconcileStale(); `helper[h]` is retryProvisioning() or
cleanupProvisioningEffects(). `late` is history: attempts whose lease ran out
while their call was still alive.

### ArtifactIngestion

One `BuildArtifact`, its object, the processes that fill it, and retention.
`Accept`, `ClaimIngestion`, `Fetch`, `Put`, `Confirm`, `AssertLease`, `Publish`
are the success path of a GitHub or Gitea artifact, `FailureAssert`,
`DeletePartial`, `MarkFailed` the failure path, `LeaseLapses` and
`RecoverArtifact` the takeover. The key depends only on the row and its digest,
so every retry writes, and every clean-up deletes, the same object.

### ProjectDeletion

The project row, the repository, the objects, one environment on an agent's
server with its jobs, and one that InitPad deploys itself. execute() is
`ReadProject`, `CheckDebt`, `CheckRemote`, `CancelOperations`, `FenceJobs`,
`TeardownAgent`, `TeardownPlain`, `PurgeObjects`, `ReleaseSource`, `DeleteRow`;
members deploy, remove, cancel, disconnect, reconnect and abandon meanwhile.
A deploy of the agent ends in one of four ways (`DeployEnds`): it serves; it
fails and its predecessor serves on; it fails and nothing is left; or it fails
and its candidate goes on running, as after a failed rename or restart policy in
docker-lifecycle.ts, an incomplete rollback of the gateway, or a killed attempt
whose next delivery is found invalid. `agentHost.runs` tells what a deploy was to
serve from what only a failed one left there (`stray`), which no row and no job
tells a deletion of.
The history variables name what the deletion cannot know: accepted debt
(`waived`), a deploy leased between the check and the fence or queued after
whatever would have stopped it (`lateWork`), and deploys taken from the agent by
others (`disowned`). One deploy job at a time is unfinished.
Several deletions of one project may run at once, each at a step of its own and
with the row that it has read; the second to delete the row finds none.

### PlatformUpdate

The files `state.json`, `update.lock`, plan, override and its copy, the three
services, the supervisor, one helper for each update, and the recovery helper.
Every write of a file and every Compose command is an action; a command that
fails may have replaced some of its services (`UpPartly`); a helper or the host
may crash between any two. The handler of a request loads the state once
and saves what it made of it later: `LoadRequest` copies the state into `held`,
`AcceptUpdate` saves that copy, and the file may have changed in between.
`RefuseRequest` is a release that does not verify. `overlap` is history: an
update took the lock while a recovery or another update was at work. Recovery
takes no lock, and it removes the lock of a helper that came after it, so that
two can write the override at once. What the properties say of the platform they
say until then.

### AccountSessions

One account, its sessions, its links, and the requests of browsers between
their read and their write: `SignIn` and `IssueSession`, `ChangeBegins` and
`ChangeWrites`, `FollowLink`, `ClaimLink` and `ApplyLink`, an administrator's
`AdminResetsPassword` and `SetActive`. A password is a number; each change
makes a new one, so that a session knows which password it was issued on.

### MailOutbox

One message and the processes that deliver it: `FindMail` and `ClaimMail`
(claimNext(), read and guarded update), `SendMail`, `MarkSent`, `MarkUnsent`,
and what may go wrong: `MailLockStale`, `MailerStops`, lost answers of the relay.
`mailUpsets` counts those.

### WorkspaceMembership

`memberRole` is the database's row, `repoAccess` what the Git service grants,
`copies` who may know the present registry credential of a repository, and
`projectRepos` the repositories that belong to a project.

| Model | Code |
|---|---|
| `AddMember`, `ChangeRole`, `RemoveMember` | what attachMember(), updateMember() and removeMember() read and write before the walk |
| `ListProjects`, `GrantNext`, `GrantFails` | syncRepositoryAccess() and revokeRepositoryAccess(): the projects are read, then one call for each repository, which may fail before or after it took effect |
| `Added`, `SaveMember`, `SaveFails` | the end of a walk: the row is updated or deleted, and must still be there |
| `UndoNext`, `UndoFails`, `Undone` | the walk back, whose own failure is swallowed, and the deletion of an added row |
| `RecordAudit`, `AuditNotWritten` | the audit event of the committed row, awaited before the credentials; if it throws, the request ends there |
| `RotateNext`, `RotateFails`, `Rotated` | rotateRegistryCredentials() after write access has ended |
| `MemberRequestDies` | the process stops; nothing resumes the request |
| `StartProject`, `ReadMembers`, `GrantMember`, `WriteProject`, `FinishImport`, `ProjectFails`, `UndoNewProject` | create() and import() of a project as far as they touch members |

`disputed` is history: people whose role and access the code allows to part;
`unrotated`: people whose write access ended in a request that did not get to
replace every credential. The owner and the collaborators that an imported
repository already has are left out; the role maintainer has the access of
member.

### DirectHost

One environment on a host that InitPad deploys to itself. `DeploymentOperations`
takes the provider's work as one step that returns or throws; here it is what it
does to the host, and the operation around it is reduced to the lock.

| Model | Code |
|---|---|
| `hostKind` | "shell" and "files": a user's server with and without SSH commands (`cfg.custom`, execWorks()); "link": the built-in server; "docker": the local daemon |
| `site` | the served folder and the one beside it, the releases and the link to one of them, the container; a tree may be there in part |
| `shown`, `siteLock` | status and version of the `Environment` row, `activeOperationId` |
| `direct[w]` | the operation of a request or task: the commands it has still to give (`todo`), how its work ended, whether it was cancelled |
| `Deploying`, `Starting`, `Stopping`, `Removing` | deploy(), start(), stop(), teardown() of the two providers, as sequences of commands |
| `Reach`, `Unpack`, `Swap`, `Wipe`, `WipeData` | sshConnect() and getSftp(); uploadCustom() and removeCustom() by shell commands |
| `Stage`, `Empty`, `Rename` | uploadCustom() and removeCustom() without a shell |
| `Upload`, `Unlink`, `Symlink`, `Purge` | uploadDir(), swapLink(), the removal of the releases |
| `DropBox`, `RunBox`, `Halt`, `Boot` | removeContainer(), runContainer(), stop() and start() of the container |
| `Probe`, `GivenUp` | waitReachable(), waitHealthy() and privateFilesProtected(), and what deploy() removes when they fail |
| `AskDirect`, `BeginDirect` | the look at the row and begin(); the version of a start is the row's when it begins |
| `TearDownCancelled`, `PublishDirect`, `PublishRefusedDirect` | the ends of an operation: teardown after a cancellation, publication (`Outcome`), a lost lease |
| `CancelDirect`, `DirectDies`, `RecoverDirect` | remove() of an active operation, a crash, recoverInterrupted() |

`Command` is a command that does its work or fails with one of the states it can
leave; `EasyCommand` one whose failure the code ignores; `ShellCommand` one that
may also be ended by a signal, which sshExec() takes for success (`code ?? 0`).
Whether a server allows commands is taken as a fact of the server. Left out:
images and their cache, permissions and the layout of PHP projects, what the
quarantine holds, preparation of the artifact (it touches nothing that is served).

## What the runs show

| Run | Instance | Shows |
|---|---|---|
| `leases` | two instances of 2 agents, 2 attempts and a lease of 2 ticks: 1 job with 2 requests in flight and the clock to 3; 2 jobs with 1 request in flight, disconnect and enroll; 2.5 M states | types; a 200 stays true (`AckedOutcomeStands`); progress never regresses; no two holders of a token; a live lease is never taken; the refinement of `JobContract` |
| `operations` | two instances of 2 operations: deploy, start, remove in 2 processes, of which one may stop for ever; a ci-retry and a deploy in 1 process with every interleaving of its handlers; 1.5 M states | types; an older operation never publishes after a newer one; recovery never fails an operation with a live lease; a success was published; a callback starts nothing for a finished operation |
| `operations_takeover` | two instances of 1 operation in 2 processes, 2 takeovers, fairness: any kind, one of the processes may crash; a ci-retry whose callbacks meet, two of them in one process; 0.4 M states | generations tell two workers apart, but for two callbacks in one process; every operation ends |
| `components` | the other components, each at the bounds below; 2.0 M states | the 19 properties of those modules |
| `one_active_operation` | 2 operations of CI in 1 process, expected to fail | two operations can be active (finding 1) |
| `finished_releases_lock` | expected to fail | a finished operation can keep the lock for ever (finding 2) |
| `ci_retry_only_waits` | expected to fail | remove() can empty an environment that a callback is deploying to (finding 3) |
| `provisioning` | one attempt, one cleanup, no fault, expected to fail | cleanup can delete a repository that InitPad did not create (finding 4) |
| `platform_recovery` | two updates, one crash, expected to fail | recovery starts another supervisor than the previous one (finding 5) |
| `delivery_served` | one redeploy, one failing call, expected to fail | an environment can be shown as running with nothing behind it (finding 6) |
| `removed_is_gone` | a user's server, 2 requests at a time, one failure, expected to fail | a removal succeeds though the server could not be reached (finding 7) |
| `removed_not_running` | the same, expected to fail | an environment whose public part was removed is shown as running again (finding 8) |

Every property of a passing run has a mutant: an operator of the module, marked
`Mutant:`, that replaces a definition the way a plausible bug would and makes
the property fail under the same bounds.

### The run of the components

`MCComponents` EXTENDS the modules of the components that share no state.
`part` is chosen initially; only that component takes steps, and the others
keep their initial values (where a component has several initial states, the
parts that are not chosen take one). The reachable states are therefore the
disjoint union of those of the components, and a property of one of them is
checked in exactly the states that a run of its own would visit. One run
replaces twelve, with nothing lost: the components do interact in the code, but
through what one of them assumes of another (`AgentDelivery` assumes what
`JobContract` promises, `DirectHost` what `DeploymentOperations` shows of the
lock), not through variables that two modules both change.

| Part | Bounds | Why they are enough |
|---|---|---|
| delivery | 2 operations, 2 revisions, one projecting request beside the agent; 1 failing call, kill, stopped process, cancellation and refused route, 2 of these together | a pair gives an old and a new operation, a serving and a candidate revision; two troubles together are what a rollback within a repeated job needs |
| approvals | 2 reviewers, 1 request, 2 operations, 1 edit, 1 mishap | the races are between two reviewers of one request, and between one of them and one edit |
| provisioning | 3 attempts, 2 helpers, 1 fault | an attempt, its retry and a third that must not be; a retry and a cleanup at once |
| agent update | 3 attempts, 3 faults | two updaters at once and the agent they leave behind |
| credentials | 4 credentials, 2 tokens, 2 heartbeats in flight, 2 upsets | active, pending, a reissued pending, and a new enrolment |
| artifacts | 2 processes, 3 claims, 2 faults | an old holder, its successor, and a late clean-up |
| platform | 3 updates, 2 failing commands, 2 crashes | an update, a failed one that is recovered, and one accepted during the recovery |
| accounts | 2 browsers, 2 sessions, 1 link, 2 generations | a request and the one that overtakes it |
| mail | 2 processes, 2 attempts, 2 upsets | a holder and the process that takes its lock |
| membership | 2 people, 2 repositories of which 1 has a project, 2 requests, roles member and viewer; 3 requests, failures and crashes together | a walk that fails half-way, its undo, a request about somebody else, and a project that joins or does not |
| host | every kind of host, 2 versions, 1 request at a time; 3 failures, cancellations, crashes and stalls together | a version, its successor, and a failure of the one, of the other and of the operation that cleans up. What a second worker adds is excepted (`siteUpsets`), which an instance with two workers, 2 such events and 14 M states confirms |
| deletion | 1 deletion, 2 things that members and targets do meanwhile | a deletion is compared with what came before its look and after it |

Why the other bounds are enough. The lease protocol compares a request with one
row, so one job shows every race of requests; two attempts give a holder and the
one that took over, two requests in flight give a late one and its successor,
and a lease of two ticks on a clock of three lets a lease be renewed, expire and
be reclaimed. Two jobs are needed only for what relates them (the order of
claims, the disconnect of a whole target), so they have an instance of their
own: the first variable of `MCAgentLease` chooses between the two, as `part`
does above. Two operations give an old and a new holder of the lock; a third
would repeat the pair. The instance "ci" of `MCDeploymentInstances` has one
process because its hazards are handlers interleaving on the rows; the takeover
run (`MCDeploymentTakeover`) has two processes and one operation because
generations belong to an operation; `Lanes` gives a process two tasks for it in
the instance whose callbacks meet, and one elsewhere. `MaxGeneration` bounds the
takeovers a repeated callback can cause.

Deadlock checking is off: with the bounds used up, or every job finished, there
is nothing left to do, which is how the system ends.

### Exceptions in the properties

A property that holds only up to something the code does not prevent says so
with a history variable, set by the action that causes the exception:
`overtaken` and `unlinked` (approvals), `late` (provisioning), `unparked` (agent
update), `lateDelete` and `halfPruned` (artifacts), `overlap` (platform),
`strayed` (delivery), `waived`, `lateWork` and `disowned` (deletion),
`mailUpsets` (mail), `disputed` and `unrotated` (membership), `siteUpsets`
(host). Each is set by a window of a few statements that the comment at its
declaration names, so that a property still rules out everything else. Two
properties except a state by name instead: `OneFencePerOperation` two callbacks
of a ci-retry in one process, `DeletedLeavesNothing` what only a failed deploy
left behind. Where a text of the repository promises that there is no such
window, code and text disagree: findings 1 to 8 have a run that shows it, and
findings 9 to 14 are exceptions of a passing run, whose property TLC violates as
soon as the exception is dropped from it.

### Fairness

`FairSpec` (operations) assumes: a living process takes the next step of a task
it has (its provider calls have timeouts and its statements return or throw);
the recovery sweep runs (`ProjectsLifecycleService` runs it at startup and then
periodically on the leader, and one process survives); a lease that nobody
renews runs out (the database's clock moves). Nothing is assumed of users, CI,
crashes or lost requests. `OperationsFinish` does not cover a ci-retry: it waits
for a callback that may never come, and recovery leaves it alone on purpose. A
ci-retry whose worker lost its lease and released it is left alone too, until a
user removes it.

No liveness is stated of the other components. A delivery whose process stops
between the stored workload job and queueReconcile() waits for a user for ever,
so that progress would hold only with that state excepted; what the others
promise is safety.

### Findings

1. ADR-022 promises at most one active operation per environment.
   publishCiFailure() releases the environment before it completes the
   operation, and completes nothing if a worker owns it. Two workflows of one
   commit can call back (a ci-retry that is removed and run again has the same
   SHA): the success starts the worker, the failure unlocks the environment
   under it, and the next deployment runs beside it. The stale worker is then
   refused at publication, so the environment's row stays right; the target does
   not.
2. ADR-022 promises that recovery returns the environment to a consistent state.
   completeOwned() and recoverInterrupted() finish the operation and release the
   environment in two statements. If the process dies, or the second statement
   fails, the operation has finishedAt, recovery never looks at it again, and
   begin() refuses every later operation of that environment.
3. remove() says that a ci-retry is only waiting. After the callback it is being
   deployed; remove() finishes it and empties the environment, the worker loses
   its fence after the provider's work, and what it deployed stays on the target
   of an environment that is shown as empty.
4. ADR-048 says that cleanup removes a repository by its immutable identity and
   is refused without one. When the creation fails because the name is taken,
   the effect is `failed`, which cleanup takes for something to clean, and the
   repository is deleted by the owner and the name that were planned.
5. ADR-113 says that recovery restores the previous supervisor. Recovery has
   renamed the previous override back before it asks whether a previous override
   exists, finds none, and starts the supervisor of the Compose file's default.
6. ADR-073 says that a failing gateway keeps the previous working route. When
   the revision that serves is deployed again and connecting its network fails,
   the rollback removes the serving container as the candidate, and reports that
   the previous route was restored; the environment is then shown as running.
7. ADR-034 says that every teardown must provably succeed, and sftpRmrf() that
   none is reported while files remain. Both providers return from teardown()
   without an error when the server or the daemon cannot be reached: remove()
   and the deletion of a project then record a success, nothing is left to be
   retried, and the server goes on serving.
8. ADR-037 says that a removed application is neither failed nor running, and
   that hidden data never block the removal of the public part. removeCustom()
   throws when the hidden data can be neither removed nor moved, after it
   removed the public part, and remove() answers every error by restoring the
   status from before: the environment is shown as running and serves nothing.

The next six are what the exceptions of the passing runs set aside. Each is
found by TLC when the exception named is dropped from the property.

9. The comment of `ProjectArtifactExecutionLease` promises that "a stale API
replica can neither publish nor delete shared data"
(project-artifact-execution-lease.ts:26-30). It does not publish; it may delete
(`lateDelete` in `AvailableHasObject`). A process that fails asserts its lease
and then awaits the deletion of the object (project-artifact-ingestion.ts:307).
If its lease lapses in between, a second process claims the artifact, stores the
same key and confirms it; the first deletes it; the second, whose lease is good,
publishes an artifact without an object. 10. "Deployment operation is already
executing in this API process" (project-deployment-operations.ts:151-153) is the
answer to a second task for an operation in one process. Two success callbacks
of a ci-retry both pass the look while the first awaits claimExecution(), and
the claim of the same owner keeps the generation (491-494): both deploy, and
assertExecution() passes for both (the exception in `OneFencePerOperation`).
They deploy the same version, so that the row stays right, with two sequences of
provider commands at once. 11. "A failed job rolls its candidate back, so it
does not count" (project-deletion.ts:140-141). A deploy that fails after its
container was started may leave it running: the restart policy or the rename
fails (docker-lifecycle.ts:720-743), the rollback of the gateway is incomplete
(gateway-route.ts), or the agent is killed and the next delivery of the job is
found invalid (agent-jobs.service.ts:1492). The row has no version, the check
counts nothing, and the container outlives the project (the conjunct of
`DeletedLeavesNothing` speaks of `served` only). The same comment says that a
deploy in flight counts; one that the agent leases between the check and
cancelLifecycleJobs() does not (`lateWork`). 12. "a change is never committed
without its audit event and the request does not fail after the change was
committed" (audit-events.service.ts:97-99, if the transaction is passed), and
"replace the credential so a copy taken earlier stops working"
(workspaces.service.ts:462-464, ADR-134). updateMember() and removeMember()
record the event outside the transaction of the row and before
rotateRegistryCredentials(). If it throws, the request fails, the row is
committed, and the registry credentials stay as they are (`unrotated` in
`AccessFollowsMembership`). 13. The comment above attachMember() promises that
membership and repository access "never diverge"
(workspaces.service.ts:369-374). They do (`disputed`) when two requests about
one person, or a request and a new project, overlap (each restores the role that
it read); when a call of the undo fails, which is swallowed, and the row is
deleted while the collaborator stays; when the undo of an import fails; and when
the process stops half-way. 14. ADR-082:35-37 says that a target and an
allocation cannot be edited while an operation is active on them. update() and
makeUnavailable() count the active operations before the transaction that writes
(targets.service.ts:493, 579; 885, 906). An operation that an approval starts in
between runs on settings that nobody approved (`overtaken` in
`RunsWhatWasApproved`). Writes without a count (verify(), restore(), an
enrolment) move the revision and not the settings: they can only make an
approval stale.

### Behaviour without a finding

Met while modelling, and contradicting no text of the repository: a control
plane that stops after it stored a blocked workload job and before
queueReconcile() leaves the environment deploying until a user removes it; a
reviewer's process that dies in `approving` blocks later requests of that
production environment; an updater of the agent whose stop or rename fails after
it took effect removes the container of that name and restores nothing
(`FailedUpdateKeepsAgent` states it); changePassword() writes unconditionally
after a reset; a crash between the claim of a link and its use loses the link;
retention marks an artifact without a guard; the definition of the release is
lost when recoveries and later updates overlap (5 updates, 2 failing commands, 2
crashes, more than the run has: ADR-114 promises it for a failure, and this
takes several), which is why `ReleaseDefinitionSurvives` ends with `overlap`;
recovery of an ingestion clears `storageRef`; a deletion of a project is refused
until job retention after an agent's deployment was removed; a supervisor's
helper killed between the rename and its state file leaves the previous version
recorded.

On a host that InitPad deploys to itself: stop() reports success too when the
host cannot be reached, and unlinks nothing on a user's server, where a folder
is served (the web application does not offer it there); recovery of a cancelled
operation empties the row without a teardown; a worker that lost its lease still
changes the host, which no fence protects; stop(), start() and remove() act on
the row that they read before begin().

Of members: an undone grant of write access replaces no credential, and a
repository whose credential cannot be replaced is logged and skipped.

## What is proved

All theorems hold for every value of the constants that satisfies the module's
assumptions. Each follows from an inductive invariant: the properties themselves
are not inductive.

**`AgentLeaseProofs`** (any number of jobs and agents, any lease time):
`TypeCorrect`, `ReceiptsStand` (`AckedOutcomeStands`), `TokensAreExclusive`
(`OneHolderPerToken`), `TerminalRowsAreFinal` (no run checks it, since
`KeepsContract` implies it), `LiveLeasesAreKept`, `ProgressOnlyAdvances`, and
`ImplementsContract` (every step of `AgentLease` is a step of `JobContract` or
changes nothing that it sees). The only assumption is `LeaseAssumption`: the
constants are numbers and a lease lasts at least a tick. That a 200 stays true
needs that an answer in flight names the stored outcome under the current token,
which needs that no request or worker carries a token that has not been granted
yet, and that a terminal row is never granted again. That a live lease is never
taken needs that no `now` in flight is later than the clock. `IInv` is the
conjunction of those facts, proved by one step per action.

**`DeploymentOperationsProofs`** (any number of operations, processes and
takeovers): `OperationsTypeCorrect`, `TakeoverFences` (`OneFencePerOperation`),
`SuccessIsPublished` (`SuccessWasPublished`), `StaleWorkerPublishesNothing`
(`NewerStateSurvives`), `FinishedOperationsAreNotWorked`
(`LateCallbackDeploysNothing`), `RecoveryLeavesLiveExecutions`
(`LiveExecutionIsNotRecovered`). The assumption is `OperationsAssumption`. The
invariant `OpsInv` adds what the properties rest on: operations are numbered as
they begin, and the holder of the lock has begun (`RowsSound`); a task that
works for an operation knows a generation that the row has had, and an older
one than that of an owner in another process (`TasksSound`); two tasks that know
the same generation are of one process (`FencesSound`), and only a ci-retry has
two tasks (`OneTask`, of the second invariant below), which together are
`TakeoverFences`; what was published is not newer than
the holder of the lock (`PublishedSound`); who is about to report success has
published (`ReportsSound`). Instead of one proof per action and conjunct, three
lemmas say what one step may do to a row, a task and the lock (`RowsStep`,
`TasksStep`, `LockStep`), each by cases over the actions; that the conjuncts are
preserved then follows from them.

What the code keeps of ADR-022's "one active operation" (finding 1) is
`OnlyRetriesAreOvertaken`: two operations are worked on under live leases only
if a ci-retry at least as old as the older one has been accepted. It needs a
second invariant, `AloneInv`, beside the first: the lock, when taken, is the
newest accepted operation's (`NewestHolds`); one task works for an operation
that is no ci-retry (`OneTask`) and, until there is such a ci-retry, it has the
lock (`WorkersHold`); and of
the statements that are about to release the lock, publishCiFailure() has read a
ci-retry, recovery an operation that is finished, and remove() none newer than
the holder (`ClearersSound`).

What it keeps of "the environment returns to a consistent state" (finding 2) is
`OnlyLostReleasesStrand`: a finished operation comes to keep the lock, with no
worker and no recovery about to release it (`Stranded`), only in a step that
loses the second statement of completeOwned() or of recoverInterrupted()
(`ReleaseLost`). The argument has three parts: whoever finishes an operation has
unlocked its environment or is about to (`FinishStep`), who is about to is
stopped only by that statement or a crash (`ReleasingTaskStep`,
`ReleasingSweepStep`), and an operation that has begun never gets the lock back
(`LockNotRegained`). The first needs a small invariant of its own, `WithoutLock`:
the loser of the race never had the lock, and a failing ci-retry has been
unlocked before complete() is called for it. One transaction around the two
statements would leave no such step.

**`AgentDeliveryProofs`**, of `AgentDelivery` and the `AgentWorkload` below it
(any number of operations, projecting requests, failures, kills, stops,
cancellations and refusals; `DeliveryAssumption`, `WorkloadAssumption`):
`EveryStepNeeded` (`SuccessNeedsEveryStep`), `ObservedForward`
(`ObservationsGoForward`), `SuccessOnHost` (`SuccessIsOnHost`) and `TypesHold`.
They are read off one invariant, `DeliveryInv`:

- `NothingBeforeBegin`, `QueueingSound`, `ProjectorsSound`, `RunningSound`: a
  request that queues has stored no job yet or the second of a teardown, who
  projects has a decided job, and the agent works on one that is leased or was
  cancelled meanwhile.
- `RouteFits`: while a generation of the route is awaited, it is newer than what
  was observed, and the desired state is what its operation asks for. An
  observation therefore goes forward.
- `HostSound`: the agent is on the course of its job, and in each phase what
  lies behind it is done: it verifies a route that leads to a live, attached
  workload, and reports as done only what it has `Achieved`.
- `Undisturbed`: as long as nothing has `strayed`, an active operation has the
  environment's lock; the agent works on another operation's job only before the
  operation's own jobs are leased; a teardown whose route job succeeded has no
  route; and once the last job has succeeded, the host is as the operation says.
  The last needs that no later job changes it, which is why the invariant speaks
  of what is running.

The actions of the control plane do not touch the host. Each is shown to move the
rows only as `ControlStep` allows, variable by variable, and one lemma
(`ControlKeeps`) shows that this keeps the invariant. The agent's 24 steps are
shown to be `HostMove`s in the same way (`HostMoveKeeps`); `Claim`, `Complete` and
`Kill` are proved directly.

`RunningMeansServed` is violated (finding 6), because a failed operation may
leave the host without what the row shows. What holds is `NewestSuccess`: until
anything has strayed, an operation that succeeded and that no other has followed
is still true of the host (`OnHost`) and of the row (`Recorded`), and so
`ServedAfterSuccess`: the environment shown as running is served, as long as its
newest operation succeeded. `StandsInv` adds to `DeliveryInv` that operations
begin in the order of their numbers (`InOrder`), that a start is about the
version on record (`StartsCurrent`), and that nobody is at work on the host
while such a success stands.

`DeliveryKeepsContract` is a second implementation of `JobContract`, from above:
where `AgentLease` shows that leases, fences and repeated calls implement it,
the composed delivery is shown to grant, decide and withdraw its jobs only as
the contract allows. The mapping needs the number of claims of a job, which
`AgentDelivery` does not count: `CountedSpec` adds the history variable
`claims`, which each `Claim` increments and nothing reads. Of the initial states
it maps the one of an empty environment to the contract's; in the others
operation 1 has deployed already.

**`AccessProofs`**, of sessions (any number of browsers, sessions, links and
generations; `SessionsAssumption`): `OnlyPresentPasswords`
(`SessionKnowsPassword`) and `AccountTypes`. A session is accepted by its
generation alone. That it then knows the password follows because a request in
flight and a session, however old, carry the password that was current in their
generation (`RequestsKnow`, `SessionsKnow`). Of members (any number of requests
and repositories and finitely many people; `MembershipAssumption`):
`AccessFollows` (`AccessFollowsMembership`). `MembersInv` says of every person
who is not `disputed` (`PersonOK`): no two requests are about them; the request
knows, repository by repository, what it has granted and what is still as
before, on its way forth, on the way back, while the audit event is awaited and
while credentials are replaced (`CallOnCourse`); without a request the
repositories grant what the row is worth (`FitsAtRest`); and so does the
repository of a project that is being set up, as far as it has come
(`NewRepoFits`). Of an agent's credentials (any number of credentials, enrolment
tokens, heartbeats in flight and upsets; `CredentialsAssumption`):
`IdentityStaysUsable` (`UsableIdentity`) and `RevokedNeverSeen`
(`RevokedStaysOffline`). Whether the agent's file keeps a usable credential
depends on what its heartbeats, the late ones too, can still do to the row.
`CredInv` says so part by part: `RowSound` for the row, `BeatsSound` for every
heartbeat, `AwaitedSound` and `AnswerSound` for the one whose answer the agent
waits for, `FileSound` and `ActiveInFile` for the file, `PendingSound` for a
credential that was offered and not confirmed, and `EnrollerSound` for the
enroll command, in whose course the file is not yet what the row says. Of mail
(any number of processes, attempts and upsets): `MailedOncePerUpset`
(`OneCopyPerUpset`). The property says nothing of copies that are still to come;
the invariant `CopiesAccounted` counts those too: one for each process that has
claimed the message and may still have a copy accepted, and one if the message
can be claimed again.

**`ReleaseProofs`**, of artifacts (any number of processes, claims and faults;
`IngestersAssumption`): `OfferedArtifactsExist` (`AvailableHasObject`) and
`ArtifactTypes`. The invariant adds that a process that has confirmed the object
and still has its claim may rely on it (`ConfirmedHasObject`), and that only a
process that held the lease on its failure path deletes (`DeletesSure`). Of
approvals (any number of reviewers, requests, operations, edits and mishaps;
`ApprovalsAssumption`): `ApprovedIsWhatRuns` (`RunsWhatWasApproved`) and
`OneApprovalOneDeployment` (`OneDeploymentPerRequest`). They rest on the
comparison of revisions being enough: equal revisions mean equal settings,
although the revision moves alone too (`RevisionsTell`); on what a
reviewer in the middle of approve() has (`ReviewSound`), on one reviewer at a time
holding a request (`OneHolder`), on the lock of production (`LockHeld`), and on a
request being done with once its operation has started (`StartedForGood`).

**`UpdateProofs`**, of the agent's update (any number of attempts and faults;
`UpdateAssumption`): `OldAgentKeptInDoubt` (`OldAgentOutlivesDoubt`). The name of
the parked container acts as the lock: at most one updater is past `ParkAgent`,
which `OldParked` and `InPlace` say of the two names. Of the platform (any number
of updates, failing commands and crashes; `PlatformUpdatesAssumption`):
`SuccessIsWhatRuns` (`SucceededRunsRelease`), `DefinitionIsKept`
(`ReleaseDefinitionSurvives`) and `PlatformTypeCorrect`. Until an `overlap`, a
helper in its course has the state, the files and the services to itself
(`CoursesSound`); a helper that waits for the lock with its plan is either the
state's update or blocked by a lock that nobody will remove (`HelpersSound`,
`Blocked`); recovery's copy of the state is the state until it records
(`RecoverySound`); the handler's copy is one that may still be saved
(`RequestsSound`).

What finding 5 leaves of a rollback is `RollbackLeadsBack`: after one failing
command or one crash, at whatever step, an update that is recorded as rolled
back has the API and the web application on the last release that succeeded, and
`FailureRollsBack`: after a failing command all three services
(`RolledBackRunsPrevious`, which only a crash or a second failure can break).
`TroubleInv` has two phases. Before the first trouble an installation is `Calm`:
a helper that has begun to change something has saved a copy that leads back,
and without one the override and the services are those of the state. After it,
it is `Mending`: the handler of the helper that failed, its downgrade, and, once
a helper has died (`Abandoned`), each step of the recovery has before it what
`LeadsBack`. One lemma says what the first trouble does (`FirstTrouble`), one
that the steps that follow keep what leads back (`MendingKept`); a second
trouble ends both, since a rollback command that fails is ignored.

**`ProjectProofs`**, of deletion (any number of deletions and of things that
members and targets do meanwhile; `DeletersAssumption`): `NothingIsLeft`
(`DeletedLeavesNothing`) and `SourceGoesLast` (`SourceOutlivesArtifacts`). Up to
the history variables, whatever is served is recorded in the row or in a job
(`HostIsRecorded`); a deletion that has looked at the environment knows what is
served there or the jobs tell of it (`SeenOrTold`, `CheckedIsQuiet`), and what is
behind a deletion is gone: `AgentAccounted`, `PlainAccounted`, `ObjectsAccounted`.
Of direct hosts (every kind of host, any number of workers, builds and upsets;
`DirectHostAssumption`):
`RunningServes` (`RunningIsServed`). A complete release
folder always holds its own build (`ReleasesOwn`). Until a `siteUpset`, one
operation is at work (`OneAtWork`), what it has still to give leads from what the
host has to what will be published (`WorkOnCourse`, one course for each of
deploy, start, stop and remove), and at rest the host is as the row says
(`AtRest`). Of provisioning (any number of attempts, helpers and failures;
`ProvisioningAssumption`): `RetryFindsNothing` (`RetryStartsClean`). Until a call
outlasts its lease there is one attempt at a time (`OneAtATime`), what exists is
journalled as something to undo (`Journalled`), and who works on an attempt, its
setter or a helper, has it to itself (`SetterOnCourse`, `HelperOnCourse`).
`ImportsDeleteNothing` says what finding 4 leaves: `DeletesOwnRepository`, which a
new project breaks, holds of every import, whose setter never gets to a step that
journals a repository to undo (`ImportInv`).

**`ComponentsProofs`** is about `MCComponents`, where one component moves and
the others rest. `PartsAreComponents`: each of the twelve components, seen
alone, behaves by its own specification (a step of one is a stutter of the
rest), so that every theorem about one of them holds in every behaviour of the
composition. `PartsTyped` (`PartsTypeOK`) combines their type invariants.

The assumptions named above say that the bounds are numbers and that the sets of
identifiers are what the model tests them against (numbers other than the 0 that
stands for nobody; of `AgentDelivery`, one operation at least, since its initial
states include one in which operation 1 has deployed); none speaks of behaviour.
TLC checked each invariant on a small instance before it was proved, and every
proof holds with a quarter of the provers' default time limits.

Only model-checked:

- `OperationsFinish`: liveness under fairness is out of the prover's reach, as
  is ENABLED.
- The initial choice of `part` and of the instance in the `MC` modules.

No module uses RECURSIVE operators.

## Not modelled

Parsing, rendering, validation of input, permissions, provider and SCM I/O, the
web application and the deployment files: no state shared between actors, or
nothing but I/O. Two clocks: leases are compared with one. A project that has a
plain environment is deleted with one outcome of its teardown
(`ProjectDeletion`: done, failed, or not reached, `plain = "unreached"`); how a
teardown fails in between is `DirectHost`'s. Of the parts of modelled
components, `PROJECT.json` names what is left in each note. Two statements are
one action where nothing else reads the rows between them: the guarded update of
claimNext() in the mail outbox and the read that follows it, the audit record
after the commit of start() and of create().
