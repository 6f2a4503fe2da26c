\* Expected to fail: FinishedOperationReleasesLock is said of the code and does not hold of it.
SPECIFICATION FairSpec
CONSTANTS
    MaxOps = 1
    Replicas = {a, b}
    Lanes = {1}
    NoReplica = NoReplica
    Requested = {"deploy", "ci-retry"}
    MaxGeneration = 1
PROPERTY FinishedOperationReleasesLock
CHECK_DEADLOCK FALSE
