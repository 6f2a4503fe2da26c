\* Expected to fail: RemovedIsNotRunning is said of the code and does not hold of it.
SPECIFICATION SiteSpec
CONSTANTS
    HostKinds = {"shell"}
    Builds = {1, 2}
    SiteWorkers = {1, 2}
    MaxSiteEvents = 1
INVARIANT RemovedIsNotRunning
CHECK_DEADLOCK FALSE
