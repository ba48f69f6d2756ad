SPECIFICATION Spec
CONSTANTS
    Metrics = {"cpu", "disk"}
    Contents <- MCContents
    Pauses = {2}
    Window = 6
    Cadence = 2
    MaxParents = 4
    MaxItems = 8
    MaxUncertainties = 5
    Requests = {}
    MaxRows = 4
INVARIANT
    DegradedIsExplicit
