----------------------------- MODULE MCRollback -----------------------------
(* Rollback on a small instance: two processes, one update by another        *)
(* action, one crash.                                                        *)
EXTENDS Rollback, TLC

Symmetry == Permutations(Workers)
=============================================================================
