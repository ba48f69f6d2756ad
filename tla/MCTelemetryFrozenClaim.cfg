CONSTANTS
    Projects = {p1}
    Every <- MCEvery
    Limit <- MCLimit
    StaleAfter = 3
    Keep = 2
    Batch = 1
    Together <- DiscoveryAlone
    MaxTime = 7
    MaxRuns = 2
    MaxStops = 1
    MaxChanges = 0
SPECIFICATION Spec
INVARIANT NeverFreshOnFrozenData
CHECK_DEADLOCK FALSE
