SPECIFICATION FairSpec
CONSTANTS
    Actions = {a1}
    Workers = {w1, w2}
    ConfIds = {c1, c2}
    NoAction = NoAction
    NoConf = NoConf
    MaxBindings = 1
    DecisionTTL = 1
    LeaseTTL = 1
    MaxTime = 1
    MaxEpoch = 3
PROPERTY
    DigestIsImmutable
