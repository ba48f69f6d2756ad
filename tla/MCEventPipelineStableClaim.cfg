SPECIFICATION Spec
CONSTANTS
    Kinds <- ContainerOnly
    ContainerValues <- Stopping
    ProjectValues <- MCProjects
    MaxRuns <- FourRuns
    MaxFaults <- None
    MaxCli <- None
    ServiceLimit = 2
    CommandLimit = 2
INVARIANTS
    StableEvidenceResolves
CHECK_DEADLOCK FALSE
