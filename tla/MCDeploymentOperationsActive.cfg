\* Expected to fail: OneActiveOperation is said of the code and does not hold of it.
SPECIFICATION Spec
CONSTANTS
    MaxOps = 2
    Replicas = {a, b}
    Lanes = {1}
    NoReplica = NoReplica
    Requested = {"deploy", "ci-retry"}
    MaxGeneration = 1
INVARIANT OneActiveOperation
CHECK_DEADLOCK FALSE
