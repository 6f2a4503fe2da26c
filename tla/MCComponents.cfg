\* Each component at the bounds the README explains.
SPECIFICATION PartsSpec
CONSTANTS
    \* delivery
    Revisions = {1, 2}
    MaxOps = 2
    Starts = {"empty", "deployed"}
    Requested = {"deploy", "start", "stop", "remove"}
    Projectors = {p}
    MaxFailures = 1
    MaxKills = 1
    MaxStops = 1
    MaxCancels = 1
    MaxRefusals = 1
    MaxTrouble = 2
    \* approvals
    Reviewers = {1, 2}
    MaxProdRequests = 1
    MaxProdOps = 2
    MaxEdits = 1
    MaxMishaps = 1
    \* provisioning
    ProvCalls = {1, 2}
    MaxAttempts = 3
    MaxProvFaults = 1
    \* agentUpdate
    MaxUpdateAttempts = 3
    MaxUpdateFaults = 3
    \* credentials
    MaxCredentials = 4
    MaxTokens = 2
    MaxHeartbeats = 2
    MaxUpsets = 2
    \* artifacts
    Ingesters = {1, 2}
    MaxIngestions = 3
    MaxArtifactFaults = 2
    \* platform
    MaxPlatformUpdates = 3
    MaxCommandFaults = 2
    MaxHostCrashes = 2
    \* accounts
    Browsers = {1, 2}
    Sessions = {1, 2}
    Links = {1}
    MaxVersions = 2
    \* mail
    Mailers = {1, 2}
    MailAttempts = 2
    MaxMailUpsets = 2
    \* deletion
    Deleters = {1}
    MaxDelRequests = 2
    \* membership
    People = {1, 2}
    GitRepos = {1, 2}
    FirstProjects = {1}
    MemberCalls = {1, 2}
    OfferedRoles = {"member", "viewer"}
    MaxSeats = 2
    MaxMemberEvents = 3
    \* host
    HostKinds = {"shell", "files", "link", "docker"}
    Builds = {1, 2}
    SiteWorkers = {1}
    MaxSiteEvents = 3
INVARIANTS
    PartsTypeOK
    SuccessNeedsEveryStep
    RunsWhatWasApproved
    OneDeploymentPerRequest
    OldAgentOutlivesDoubt
    UsableIdentity
    AvailableHasObject
    SucceededRunsRelease
    ReleaseDefinitionSurvives
    SessionKnowsPassword
    OneCopyPerUpset
    DeletedLeavesNothing
    SourceOutlivesArtifacts
    AccessFollowsMembership
    RunningIsServed
PROPERTIES
    SuccessIsOnHost
    ObservationsGoForward
    RetryStartsClean
    RevokedStaysOffline
CHECK_DEADLOCK FALSE
