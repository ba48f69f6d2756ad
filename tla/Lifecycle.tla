----------------------------- MODULE Lifecycle -----------------------------
(* The lifecycle of one control-plane action: its states, the transitions    *)
(* the code allows and the ones it can reach (control_plane/lifecycle.py).   *)
EXTENDS Integers

\* No row for the action in the store.
ABSENT == "absent"

TerminalStates ==
    {"REJECTED", "EXPIRED", "INVALIDATED", "VERIFIED_SUCCESS",
     "EXECUTION_FAILED", "ROLLED_BACK", "ROLLBACK_UNAVAILABLE",
     "ROLLBACK_FAILED"}

\* One row of _ALLOWED_TRANSITIONS per pair of sets: the sources and their
\* successors.
AllowedTransitions ==
    LET From(s, targets) == {s} \X targets
    IN  UNION {
          From("REQUESTED", {"PLANNED", "REJECTED", "EXPIRED"}),
          From("PLANNED", {"CONFIRMATION_REQUIRED", "INVALIDATED", "EXPIRED"}),
          From("CONFIRMATION_REQUIRED",
               {"CONFIRMED", "REJECTED", "INVALIDATED", "EXPIRED"}),
          From("CONFIRMED", {"SNAPSHOT_CAPTURED", "INVALIDATED", "EXPIRED"}),
          From("SNAPSHOT_CAPTURED", {"LEASED", "INVALIDATED", "EXPIRED"}),
          From("LEASED",
               {"RUNNING", "RECONCILIATION_REQUIRED", "INVALIDATED", "EXPIRED"}),
          From("RUNNING",
               {"EXECUTED_PENDING_VERIFICATION", "EXECUTION_FAILED",
                "RECONCILIATION_REQUIRED"}),
          From("EXECUTED_PENDING_VERIFICATION",
               {"VERIFIED_SUCCESS", "VERIFICATION_FAILED"}),
          {"VERIFICATION_FAILED", "EXECUTION_FAILED"}
               \X {"ROLLBACK_REQUESTED", "RECONCILIATION_REQUIRED"},
          From("CANCEL_REQUESTED", {"RECONCILIATION_REQUIRED", "INTERRUPTED"}),
          {"TIMED_OUT", "INTERRUPTED"} \X {"RECONCILIATION_REQUIRED"},
          From("RECONCILIATION_REQUIRED",
               {"VERIFIED_SUCCESS", "ROLLBACK_REQUESTED",
                "ROLLBACK_UNAVAILABLE"}),
          From("ROLLBACK_REQUESTED",
               {"ROLLED_BACK", "ROLLBACK_UNAVAILABLE", "ROLLBACK_FAILED"}) }

LifecycleStates ==
    {"REQUESTED", "PLANNED", "CONFIRMATION_REQUIRED", "CONFIRMED",
     "SNAPSHOT_CAPTURED", "LEASED", "RUNNING",
     "EXECUTED_PENDING_VERIFICATION", "VERIFICATION_FAILED",
     "RECONCILIATION_REQUIRED", "ROLLBACK_REQUESTED", "CANCEL_REQUESTED",
     "TIMED_OUT", "INTERRUPTED"} \cup TerminalStates

ImplementedStates ==
    LifecycleStates \ {"CANCEL_REQUESTED", "TIMED_OUT", "INTERRUPTED",
                       "ROLLBACK_UNAVAILABLE"}

\* validate_transition: a terminal state has no successor, whatever the table
\* says of it; a reserved state cannot be entered; and once the action has
\* expired only EXPIRED is left.
ValidTransition(from, to, expired) ==
    /\ from \notin TerminalStates
    /\ <<from, to>> \in AllowedTransitions
    /\ to \in ImplementedStates
    /\ expired => to = "EXPIRED"
=============================================================================
