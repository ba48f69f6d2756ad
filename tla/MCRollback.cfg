SPECIFICATION Spec
CONSTANTS
    Workers = {w1, w2}
    Actions = {"orig", "rb"}
    Projects = {p1}
    MaxRevision = 4
    MaxCrashes = 1
SYMMETRY Symmetry
INVARIANTS
    UndoesOnlyTheFailed
    VerdictsAgree
    CutoverHolds
PROPERTY
    RowsSurviveUpgrade
