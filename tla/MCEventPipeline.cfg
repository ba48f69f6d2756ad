SPECIFICATION Spec
CONSTANTS
    Kinds <- MCKinds
    ContainerValues <- MCContainers
    ProjectValues <- MCProjects
    MaxRuns <- MCMaxRuns
    MaxFaults <- MCMaxFaults
    MaxCli <- MCMaxCli
    ServiceLimit = 2
    CommandLimit = 2
INVARIANTS
    AppliedOnce
    OpeningsReachIncident
    InRunOrder
PROPERTIES
    RunsAreProcessed
CHECK_DEADLOCK FALSE
