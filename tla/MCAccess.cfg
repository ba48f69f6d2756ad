SPECIFICATION Spec
CONSTANTS
    Handlers = {r1, r2}
    Clis = {c1}
    Sids = {s1, s2}
    Rids = {g1, g2}
    None = None
    MaxFailures = 2
    Lockout = 3
    MaxCooldown = 1
    Absolute = 1
    Inactivity = 1
    MaxEvents = 3
    MaxEpoch = 2
    MaxFaults = 1
SYMMETRY Symmetry
INVARIANTS
    GuessesAreBounded
    EvidenceIsWhole
PROPERTIES
    LogoutIsFinal
CHECK_DEADLOCK FALSE
