-------------------------- MODULE ControlPlaneInv --------------------------
(* The inductive invariant of ControlPlane: what the database and the local  *)
(* variables of every worker have in common between any two steps.           *)
EXTENDS ControlPlane

\* The steps that hold a binding for confirmation.
ConfirmSteps == {"build_confirmation", "record_confirmation"}

\* The steps of execute_action, and those after its contract was built.
ContractSteps == {"validate_world", "bind_read", "bind_write", "gate",
                  "begin_execution", "execute_plan_mutation", "read_back",
                  "record_verification", "release_lease"}

\* The checks of Executor.execute.
CheckSteps == {"validate_world", "bind_read", "bind_write", "gate",
               "begin_execution"}

ExecuteSteps == ContractSteps \cup {"acquire_lease", "build_contract"}

JudgedStates == {"VERIFIED_SUCCESS", "VERIFICATION_FAILED"}

\* The states an action is in once its lease was granted.
LeasedStates == StartedStates \cup {"LEASED", "RECONCILIATION_REQUIRED"}

\* The states this part of the control plane puts an action in.
ReachedStates == LeasedStates \cup {ABSENT, "CONFIRMATION_REQUIRED",
                                    "CONFIRMED", "SNAPSHOT_CAPTURED"}

\* The plan, its log and the actions: an action is logged at its revision if
\* and only if its row says so.
LogInv ==
    /\ plan.rev = Len(log) + 1
    /\ plan.by = IF log = << >> THEN NoAction ELSE log[Len(log)]
    /\ \A i \in DOMAIN log : /\ act[log[i]].planRev = i
                             /\ act[log[i]].state \in ExecutedStates
    /\ \A a \in Actions :
         /\ act[a].state \in ReachedStates
         /\ act[a].state = ABSENT => act[a] = NoRow
         /\ act[a].state # ABSENT => act[a].planRev \in 1 .. plan.rev
         /\ act[a].state \in ExecutedStates
              => /\ act[a].planRev \in DOMAIN log
                 /\ log[act[a].planRev] = a
         /\ act[a].state \in ExecutedStates
              <=> act[a].outcome # "mutation_not_started"
         /\ act[a].state = "VERIFICATION_FAILED"
              => plan.rev > act[a].planRev + 1

\* Bindings: one granted at most, spent when execution begins.
ConsentInv ==
    /\ \A c \in ConfIds : conf[c].state = "none" => conf[c].action = NoAction
    /\ \A a \in Actions :
         /\ \A c, d \in Granted(a) : c = d
         /\ Granted(a) # {}
              <=> act[a].state \notin {ABSENT, "CONFIRMATION_REQUIRED"}
         /\ \A c \in Granted(a) :
              conf[c].state = "consumed" <=> act[a].state \in StartedStates

\* Snapshots and leases: taken once, in order, and the lease is bound to the
\* version at which the action was leased.
LeaseInv ==
    \A a \in Actions :
      /\ act[a].state \in LeasedStates \cup {"SNAPSHOT_CAPTURED"}
           => snap[a] = act[a].planRev
      /\ act[a].state \in LeasedStates <=> Len(leases[a]) = 1
      /\ act[a].state \notin LeasedStates <=> Len(leases[a]) = 0
      /\ act[a].state = "LEASED" => leases[a][1].version = act[a].version
      /\ act[a].state \in LeasedStates \ {"LEASED"}
           => leases[a][1].version < act[a].version
      /\ act[a].state \in LeasedStates \ JudgedStates
           => leases[a][1].state = "granted"
      /\ act[a].state \in StartedStates => act[a].digest # NoContract

\* What a worker at step s of a call with local variables j knows of the
\* database, whatever the others have done since it read it.
JobFits(s, j) ==
    LET a == j.action
        k == j.contract
    IN
    /\ s \in Steps \ {"save_switch", "sweep"} => a \in Actions
    /\ s = "register" => j.rev \in 1 .. plan.rev
    /\ s \in ConfirmSteps => k.conf \in ConfIds /\ conf[k.conf].action = a
    /\ s \in ExecuteSteps => k.conf \in Granted(a)
    /\ s \in ContractSteps => act[a].state \in LeasedStates /\ k.token = 1
    /\ s \in CheckSteps => j.version = k.version
    \* The contract was current when the world was validated, and a contract
    \* made after execution began is newer than the lease it names: a replay
    \* does not get past the executor's lease check.
    /\ s \in CheckSteps \ {"validate_world"} =>
         /\ j.version <= act[a].version
         /\ j.state # "LEASED" => leases[a][1].version < j.version
    /\ s = "begin_execution" => j.state = "LEASED"
    /\ /\ s \in {"gate", "begin_execution"}
       /\ j.state = "LEASED"
       /\ j.version = act[a].version
       => act[a].digest # NoContract
    /\ s = "execute_plan_mutation" =>
         act[a].state = "RUNNING" /\ act[a].version = j.version
    /\ s \in {"read_back", "record_verification"} =>
         act[a].state \in ExecutedStates
    /\ s = "record_verification" /\ ~j.ok => plan.rev > act[a].planRev + 1
    /\ s = "release_lease" => act[a].state \in JudgedStates

JobInv == \A w \in Workers : JobFits(pc[w], job[w])

\* No two workers are about to mutate the plan for one action.
MutatorInv ==
    \A v, w \in Workers :
      /\ pc[v] = "execute_plan_mutation"
      /\ pc[w] = "execute_plan_mutation"
      /\ job[v].action = job[w].action
      => v = w

IInv == TypeOK /\ LogInv /\ ConsentInv /\ LeaseInv /\ JobInv /\ MutatorInv

\* The moments that lifetimes are counted from: an action is authorized before
\* it is leased.
TimeInv ==
    /\ \A w \in Workers : pc[w] = "register" => job[w].now <= clock
    /\ \A a \in Actions : act[a].expires <= clock + DecisionTTL
    /\ \A w \in Workers : pc[w] = "acquire_lease" =>
         /\ act[job[w].action].state # ABSENT
         /\ act[job[w].action].expires <= job[w].now + DecisionTTL
=============================================================================
