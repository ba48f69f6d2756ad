SPECIFICATION Spec
CONSTANTS
    Handlers = {r1, r2}
    Clis = {c1}
    Sids = {s1, s2}
    Rids = {g1, g2}
    None = None
    MaxFailures = 2
    Lockout = 3
    MaxCooldown = 1
    Absolute = 2
    Inactivity = 1
    MaxEvents = 3
    MaxEpoch = 2
    MaxFaults = 1
SYMMETRY Symmetry
PROPERTIES
    IdleSessionsExpire
CHECK_DEADLOCK FALSE
