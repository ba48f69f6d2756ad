SPECIFICATION Spec
CONSTANTS
    Actions = {a1, a2}
    Workers = {w1, w2}
    ConfIds = {c1, c2, c3}
    NoAction = NoAction
    NoConf = NoConf
    MaxBindings = 2
    DecisionTTL = 1
    LeaseTTL = 1
    MaxTime = 1
    MaxEpoch = 2
SYMMETRY Symmetry
INVARIANTS
    AppliedOnce
    OutcomeIsTruthful
    VerdictIsSound
PROPERTIES
    ImplementsPlanRegister
