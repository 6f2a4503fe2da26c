\* Expected to fail: RemovedIsGone is said of the code and does not hold of it.
SPECIFICATION SiteSpec
CONSTANTS
    HostKinds = {"shell"}
    Builds = {1, 2}
    SiteWorkers = {1, 2}
    MaxSiteEvents = 1
INVARIANT RemovedIsGone
CHECK_DEADLOCK FALSE
