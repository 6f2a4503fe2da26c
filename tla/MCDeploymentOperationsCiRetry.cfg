\* Expected to fail: CiRetryOnlyWaits is said of the code and does not hold of it.
SPECIFICATION Spec
CONSTANTS
    MaxOps = 1
    Replicas = {a, b}
    Lanes = {1}
    NoReplica = NoReplica
    Requested = {"deploy", "ci-retry"}
    MaxGeneration = 1
PROPERTY CiRetryOnlyWaits
CHECK_DEADLOCK FALSE
