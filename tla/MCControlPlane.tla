-------------------------- MODULE MCControlPlane --------------------------
(* Model checking of ControlPlane on small instances.                        *)
EXTENDS ControlPlaneInv, TLC

\* Actions, workers and binding identifiers are interchangeable: no action
\* of the specification tells two of them apart.  Not used for liveness.
Symmetry == Permutations(Actions) \cup Permutations(Workers)
              \cup Permutations(ConfIds)
=============================================================================
