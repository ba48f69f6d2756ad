SPECIFICATION FairSpec
CONSTANTS
    Actions = {a1}
    Workers = {w1}
    ConfIds = {c1}
    NoAction = NoAction
    NoConf = NoConf
    MaxBindings = 1
    DecisionTTL = 2
    LeaseTTL = 2
    MaxTime = 2
    MaxEpoch = 2
PROPERTY
    ExpiredLeaseCannotCommit
