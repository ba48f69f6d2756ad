------------------------- MODULE MCExecutorBoundary -------------------------
(* Model checking of ExecutorBoundary on small instances.                    *)
EXTENDS ExecutorBoundary, TLC
=============================================================================
