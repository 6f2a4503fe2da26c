\* Two operations of users in two processes, and two of CI in one.
SPECIFICATION InstanceSpec
CONSTANTS
    MaxOps = 2
    Replicas = {a, b}
    Lanes = {1}
    NoReplica = NoReplica
    Requested = {"deploy", "start", "remove", "ci-retry"}
    MaxGeneration = 1
SYMMETRY ReplicaSymmetry
INVARIANTS
    TypeOK
    SuccessWasPublished
PROPERTIES
    NewerStateSurvives
    LiveExecutionIsNotRecovered
    LateCallbackDeploysNothing
CHECK_DEADLOCK FALSE
