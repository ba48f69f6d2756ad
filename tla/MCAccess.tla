------------------------------ MODULE MCAccess ------------------------------
(* Access on a small instance: two requests in flight and one process        *)
(* of the command line, two sessions, two registrations of one project.      *)
EXTENDS Access, TLC

Symmetry ==
    Permutations(Handlers) \cup Permutations(Clis)
        \cup Permutations(Sids) \cup Permutations(Rids)
=============================================================================
