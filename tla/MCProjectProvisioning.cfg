\* Expected to fail: DeletesOwnRepository is said of the code and does not hold of it.
SPECIFICATION ProvSpec
CONSTANTS
    ProvCalls = {1}
    MaxAttempts = 1
    MaxProvFaults = 0
PROPERTY DeletesOwnRepository
CHECK_DEADLOCK FALSE
