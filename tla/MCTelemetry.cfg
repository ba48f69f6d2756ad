CONSTANTS
    Projects = {p1}
    Every <- MCEvery
    Limit <- MCLimit
    StaleAfter = 3
    Keep = 2
    Batch = 1
    Together <- MCTogether
    MaxTime = 4
    MaxRuns = 2
    MaxStops = 1
    MaxChanges = 1
SPECIFICATION Spec
INVARIANTS
    StopsAreSeen
    ResourcesAreBacked
    TimeoutIsEarned
CHECK_DEADLOCK FALSE
