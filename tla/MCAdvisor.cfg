SPECIFICATION Spec
CONSTANTS
    Metrics = {"cpu", "disk"}
    Contents <- MCContents
    Pauses = {0, 2, 3}
    Window = 6
    Cadence = 2
    MaxParents = 4
    MaxItems = 6
    MaxUncertainties = 5
    Requests <- MCRequests
    MaxRows = 5
INVARIANTS
    SustainedIsReal
    RulesMeetTheContract
    FreshIsComplete
