\* One job with two requests in flight, and two jobs with one.
SPECIFICATION InstanceSpec
CONSTANTS
    NumJobs = 2
    Workers = {w1, w2}
    LeaseTime = 2
    MaxClock = 3
    MaxAttempt = 2
    MaxSequence = 2
    MaxCalls = 2
    MaxGeneration = 2
SYMMETRY AgentSymmetry
INVARIANTS
    TypeOK
    AckedOutcomeStands
    OneHolderPerToken
PROPERTIES
    ProgressNeverRegresses
    LiveLeaseIsNeverTaken
    KeepsContract
CHECK_DEADLOCK FALSE
