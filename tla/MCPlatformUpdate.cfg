\* Expected to fail: RolledBackRunsPrevious is said of the code and does not hold of it.
SPECIFICATION PlatformSpec
CONSTANTS
    MaxPlatformUpdates = 2
    MaxCommandFaults = 0
    MaxHostCrashes = 1
INVARIANT RolledBackRunsPrevious
CHECK_DEADLOCK FALSE
