\* One operation that several tasks may work on, with takeovers, under fairness.
SPECIFICATION InstanceSpec
CONSTANTS
    MaxOps = 1
    Replicas = {a, b}
    Lanes = {1, 2}
    NoReplica = NoReplica
    Requested = {"deploy", "start", "stop", "remove", "ci-retry"}
    MaxGeneration = 2
INVARIANT OneFencePerOperation
PROPERTY OperationsFinish
CHECK_DEADLOCK FALSE
