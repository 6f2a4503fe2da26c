\* Expected to fail: RunningMeansServed is said of the code and does not hold of it.
SPECIFICATION Spec
CONSTANTS
    Revisions = {1, 2}
    MaxOps = 2
    Starts = {"deployed"}
    Requested = {"deploy"}
    Projectors = {p}
    MaxFailures = 1
    MaxKills = 0
    MaxStops = 0
    MaxCancels = 0
    MaxRefusals = 0
    MaxTrouble = 0
INVARIANT RunningMeansServed
CHECK_DEADLOCK FALSE
