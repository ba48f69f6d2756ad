SPECIFICATION Spec
CONSTANTS
    Workers = {w1}
    Operators = {alice, bob}
    Transitions <- MCTransitions
    Policies <- MCPolicies
    Channels <- MCChannels
    GlobalMax = 0
    GlobalWindow = 0
    LeaseSeconds = 0
    RetentionSeconds = 2
    BackoffCap = 1
    ProjectLimit = 2
    Budgets <- TwoCommands
PROPERTIES
    EverythingSettles
