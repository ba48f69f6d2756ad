--------------------------- MODULE MCUpdateEngine ---------------------------
(* Small instances of UpdateEngine: an ordinary file changed upstream, a file
   added upstream where the operator may have an untracked one, and a
   critical file changed by the last commit. *)
EXTENDS UpdateEngine, TLC

MCFiles == {"app", "new", "compose"}
MCCritical == {"compose"}
MCTouches == 0 :> {"app", "compose"} @@ 1 :> {"app", "new"} @@ 2 :> {"compose"}
MCProjects == {"tracking", "ahead", "detached", "no_ref", "no_origin"} \X {"compose"}
              \cup {<<"no_git", "systemd">>, <<"no_origin", "custom">>}
MCTracking == {<<"tracking", "compose">>}
MCReadFailures == {{"diff"}, {"counts"}, {"stash"}}
MCCalm == {{}}
MCMiscounted == {{}, {"miscounted"}}
MCMishaps == {{}, {"overlap"}, {"under"}, {"miscounted"}, {"unseen"}, {"torn"}}

(* The properties say nothing of what follows another mishap, and TLC does not
   explore it. *)
InScope == mishaps \subseteq {"unseen"}
=============================================================================
