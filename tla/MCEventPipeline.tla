--------------------------- MODULE MCEventPipeline ---------------------------
EXTENDS EventPipeline

MCKinds == {"container", "project", "tunnel", "health"}
C(state, health, restarts) == [state |-> state, health |-> health, restarts |-> restarts]
MCContainers == {C("running", "healthy", 0), C("running", "healthy", 1), C("restarting", "unhealthy", 0)}
MCMaxRuns == [k \in MCKinds |-> IF k \in {"project", "container"} THEN 3 ELSE 2]
MCMaxCli == [k \in MCKinds |-> IF k = "project" THEN 0 ELSE 1]
MCMaxFaults == [k \in MCKinds |-> IF k = "container" THEN 0 ELSE 1]
MCProjects == {[dirty |-> d, behind |-> 0] : d \in BOOLEAN}

\* One container that may stop, over four runs: for the claim about stable evidence.
ContainerOnly == {"container"}
Stopping == {C("running", "healthy", 0), C("exited", "healthy", 0)}
FourRuns == [k \in ContainerOnly |-> 4]
None == [k \in ContainerOnly |-> 0]
=============================================================================
