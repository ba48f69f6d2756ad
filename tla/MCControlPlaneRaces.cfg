SPECIFICATION FairSpec
CONSTANTS
    Actions = {a1}
    Workers = {w1, w2}
    ConfIds = {c1, c2}
    NoAction = NoAction
    NoConf = NoConf
    MaxBindings = 1
    DecisionTTL = 2
    LeaseTTL = 1
    MaxTime = 2
    MaxEpoch = 2
INVARIANTS
    ConsentSpentOnce
    OneMutator
PROPERTIES
    MutationIsAuthorized
    CallsReturn
