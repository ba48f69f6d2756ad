SPECIFICATION Spec
CONSTANTS
    Workers = {w1, w2}
    Operators = {operator}
    Transitions <- MCTransitions
    Policies <- MCPolicies
    Channels <- MCChannels
    GlobalMax = 0
    GlobalWindow = 0
    LeaseSeconds = 0
    RetentionSeconds = 2
    BackoffCap = 1
    ProjectLimit = 2
    Budgets <- MCBudgets
INVARIANTS
    AttemptsAreTruthful
    NoStorm
    DecisionsAreKept
PROPERTIES
    EverythingSettles
