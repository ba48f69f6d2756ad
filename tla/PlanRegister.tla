---------------------------- MODULE PlanRegister ----------------------------
(* What the control plane promises of a project plan, without its leases,    *)
(* confirmations, workers or clock: a register with optimistic concurrency.  *)
(* An action is bound to a revision that existed when it was authorized; it  *)
(* changes the plan at most once, only while the plan is at that revision;   *)
(* and it is judged at most once, after it was applied, a failure being      *)
(* possible only when another action has since changed the plan.             *)
EXTENDS Integers, Sequences

CONSTANT Actions

VARIABLES
    history,  \* the actions applied, in order: the plan is at Len(history) + 1
    bound,    \* the revision each action is bound to, 0 before it is authorized
    verdict   \* "none", then "success" or "failure"

vars == <<history, bound, verdict>>

Init ==
    /\ history = << >>
    /\ bound = [a \in Actions |-> 0]
    /\ verdict = [a \in Actions |-> "none"]

\* The authorization may be recorded after the plan has moved on.
Bind(a) ==
    /\ bound[a] = 0
    /\ \E r \in 1 .. Len(history) + 1 : bound' = [bound EXCEPT ![a] = r]
    /\ UNCHANGED <<history, verdict>>

Apply(a) ==
    /\ bound[a] = Len(history) + 1
    /\ history' = Append(history, a)
    /\ UNCHANGED <<bound, verdict>>

Judge(a) ==
    /\ verdict[a] = "none"
    /\ bound[a] \in DOMAIN history
    /\ history[bound[a]] = a
    /\ \/ verdict' = [verdict EXCEPT ![a] = "success"]
       \/ /\ Len(history) > bound[a]
          /\ verdict' = [verdict EXCEPT ![a] = "failure"]
    /\ UNCHANGED <<history, bound>>

Next == \E a \in Actions : Bind(a) \/ Apply(a) \/ Judge(a)

Spec == Init /\ [][Next]_vars
=============================================================================
