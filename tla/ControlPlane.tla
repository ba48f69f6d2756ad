---------------------------- MODULE ControlPlane ----------------------------
(* The durable execution core of the AIPM control plane.                     *)
(*                                                                           *)
(* A set of Workers (processes running OwnerControlPlaneService over one     *)
(* SQLite database) take the actions of an owner from authorization to a     *)
(* verified mutation of one target's project plan.  A worker reads the store *)
(* outside a transaction, decides, and writes in a BEGIN IMMEDIATE           *)
(* transaction that compares the action's version (and state) again.  One    *)
(* step of this module is one such read, or one such transaction; between    *)
(* two steps the other workers, the clock and a crash may intervene.  A      *)
(* store method that first re-reads the action row and then compares the     *)
(* same version in its transaction is one step: the comparison makes its     *)
(* earlier read current.  Consecutive checks of one call are one step when   *)
(* a check that holds at the later read already held at the earlier one      *)
(* (versions and revisions only grow, bindings and leases are only used up). *)
(*                                                                           *)
(* The environment is staging: production is permanently engaged, so that    *)
(* none of these operations gets past its first check there.                 *)
EXTENDS Lifecycle, Sequences, FiniteSets

CONSTANTS
    Actions,      \* idempotency keys: each names at most one action of the target
    Workers,      \* processes that serve the owner's requests
    ConfIds,      \* identifiers of confirmation bindings
    NoAction,     \* no action / no plan writer
    NoConf,       \* no confirmation binding
    MaxBindings,  \* bindings the confirmation store accepts (256 in the code)
    DecisionTTL,  \* lifetime of an authorization, hence of its action
    LeaseTTL,     \* lifetime of a lease
    MaxTime,      \* bound: the clock stops here
    MaxEpoch      \* bound: the kill switch is not written beyond this epoch

ASSUME ConstantsAssumption ==
    /\ NoAction \notin Actions
    /\ NoConf \notin ConfIds
    /\ MaxBindings \in Nat
    /\ DecisionTTL \in Nat \ {0}
    /\ LeaseTTL \in Nat \ {0}
    /\ MaxTime \in Nat
    /\ MaxEpoch \in Nat

VARIABLES
    \* The database.
    act,      \* actions table: the row of each action
    conf,     \* confirmations table
    snap,     \* plan_snapshots: the revision captured for each action, 0 for none
    leases,   \* execution_leases of each action, in order of fencing token
    plan,     \* project_plans: revision and content of the target's plan
    switch,   \* kill_switch_state of the environment
    \* The processes.
    pc,       \* where each worker is in its current call
    job,      \* the local variables of that call
    todo,     \* actions the worker's startup sweep has yet to visit
    clock,
    \* History, read by no action: the writers of the plan, in order.
    log

db == <<act, conf, snap, leases, plan, switch>>
vars == <<act, conf, snap, leases, plan, switch, pc, job, todo, clock, log>>

-----------------------------------------------------------------------------
(* Rows and local state.                                                     *)

Outcomes == {"mutation_not_started", "mutation_succeeded",
             "verification_succeeded", "verification_failed"}

\* The fields of ExecutionContract that differ between two contracts of one
\* action; contract.digest() is injective on them.
Contracts == [version : Nat, conf : ConfIds \cup {NoConf},
              epoch : Nat, token : Nat]

NoContract == [version |-> 0, conf |-> NoConf, epoch |-> 0, token |-> 0]

NoRow == [state |-> ABSENT, version |-> 0, outcome |-> "mutation_not_started",
          planRev |-> 0, expires |-> 0, digest |-> NoContract]

NoBinding == [action |-> NoAction, state |-> "none"]

IdleJob == [action |-> NoAction, now |-> 0, version |-> 0, rev |-> 0,
            state |-> ABSENT, contract |-> NoContract, ok |-> FALSE]

Steps == {"register", "put_pending", "build_confirmation",
          "record_confirmation", "capture", "commit_snapshot",
          "acquire_lease", "build_contract", "validate_world",
          "bind_read", "bind_write", "gate", "begin_execution",
          "execute_plan_mutation", "read_back", "record_verification",
          "release_lease", "save_switch", "sweep"}

Init ==
    /\ act = [a \in Actions |-> NoRow]
    /\ conf = [c \in ConfIds |-> NoBinding]
    /\ snap = [a \in Actions |-> 0]
    /\ leases = [a \in Actions |-> << >>]
    /\ plan = [rev |-> 1, by |-> NoAction]
    /\ switch = [engaged |-> TRUE, epoch |-> 1]
    /\ pc = [w \in Workers |-> "idle"]
    /\ job = [w \in Workers |-> IdleJob]
    /\ todo = [w \in Workers |-> {}]
    /\ clock = 0
    /\ log = << >>

-----------------------------------------------------------------------------
(* Reads of the store.                                                       *)

Expired(a, t) == t >= act[a].expires

Permits == ~switch.engaged

\* has_active_for_action
HasActiveConfirmation(a) ==
    \E c \in ConfIds : conf[c].action = a
                       /\ conf[c].state \in {"requested", "confirmed"}

\* get_active_for_action
Pending(a) == {c \in ConfIds : conf[c] = [action |-> a, state |-> "requested"]}

UsedBindings == {c \in ConfIds : conf[c].state # "none"}

ActiveLeases(a, t) ==
    {i \in DOMAIN leases[a] : leases[a][i].state = "granted"
                              /\ leases[a][i].expires > t}

\* active_lease: the fencing token of the newest granted, unexpired lease, 0
\* for none.
ActiveToken(a, t) ==
    IF ActiveLeases(a, t) = {} THEN 0
    ELSE CHOOSE i \in ActiveLeases(a, t) :
           \A j \in ActiveLeases(a, t) : j <= i

\* The compare-and-swap of every composite: the row is at the version the
\* caller read, in the state the composite requires, and may advance.
MayAdvance(a, version, from, to, t) ==
    /\ act[a].version = version
    /\ act[a].state = from
    /\ ValidTransition(from, to, Expired(a, t))

\* advance: the row in its next state, one version on.
Advanced(a, to) == [act[a] EXCEPT !.state = to, !.version = @ + 1]

-----------------------------------------------------------------------------
(* A worker's control.                                                       *)

Enter(w, step, j) ==
    /\ pc' = [pc EXCEPT ![w] = step]
    /\ job' = [job EXCEPT ![w] = j]
    /\ UNCHANGED <<todo, clock>>

Return(w) == Enter(w, "idle", IdleJob)

For(a) == [IdleJob EXCEPT !.action = a]

-----------------------------------------------------------------------------
(* authorize and register_action.                                            *)

\* authorize: the kill switch permits, no action holds the idempotency key,
\* and the policy allows the plan that was just read.
Authorize(w, a) ==
    /\ pc[w] = "idle"
    /\ Permits
    /\ act[a].state = ABSENT
    /\ Enter(w, "register", [For(a) EXCEPT !.now = clock, !.rev = plan.rev])
    /\ UNCHANGED <<db, log>>

\* The decision and the action row, already advanced through REQUESTED and
\* PLANNED, are inserted together.
RegisterAction(w) ==
    LET a == job[w].action IN
    /\ pc[w] = "register"
    /\ act[a].state = ABSENT
    /\ act' = [act EXCEPT ![a] =
                 [state |-> "CONFIRMATION_REQUIRED", version |-> 2,
                  outcome |-> "mutation_not_started", planRev |-> job[w].rev,
                  expires |-> job[w].now + DecisionTTL,
                  digest |-> NoContract]]
    /\ Return(w)
    /\ UNCHANGED <<conf, snap, leases, plan, switch, log>>

-----------------------------------------------------------------------------
(* confirm, then capture_snapshot (_confirm_and_prepare).                    *)

\* request_confirmation with a pending binding: an idempotent re-request.
ReusePending(w, a) ==
    /\ pc[w] = "idle"
    /\ act[a].state # ABSENT /\ ~Expired(a, clock)
    /\ \E c \in Pending(a) :
         Enter(w, "build_confirmation", [For(a) EXCEPT !.contract.conf = c])
    /\ UNCHANGED <<db, log>>

\* request_confirmation without one: the checks, made before the write.
RequestConfirmation(w, a) ==
    /\ pc[w] = "idle"
    /\ act[a].state # ABSENT /\ ~Expired(a, clock)
    /\ ~HasActiveConfirmation(a)
    /\ Cardinality(UsedBindings) < MaxBindings
    /\ Enter(w, "put_pending", For(a))
    /\ UNCHANGED <<db, log>>

\* ... and the write.  The identifier hashes the moment of the request, so
\* that two requests do not share one.
PutPending(w) ==
    LET a == job[w].action IN
    /\ pc[w] = "put_pending"
    /\ \E c \in ConfIds \ UsedBindings :
         /\ conf' = [conf EXCEPT ![c] = [action |-> a, state |-> "requested"]]
         /\ Enter(w, "build_confirmation", [For(a) EXCEPT !.contract.conf = c])
    /\ UNCHANGED <<act, snap, leases, plan, switch, log>>

\* The stored binding is still the pending one, and unexpired (it expires with
\* its decision).
MayBuildConfirmation(w) ==
    LET a == job[w].action IN
    /\ job[w].contract.conf \in Pending(a)
    /\ ~Expired(a, clock)

BuildConfirmation(w) ==
    LET a == job[w].action IN
    /\ pc[w] = "build_confirmation"
    /\ MayBuildConfirmation(w)
    /\ Enter(w, "record_confirmation",
             [job[w] EXCEPT !.version = act[a].version, !.now = clock])
    /\ UNCHANGED <<db, log>>

\* Mutant: the composite confirms without comparing the action's version.
MayRecordConfirmationUnversioned(w) ==
    conf[job[w].contract.conf].state # "consumed"

\* record_confirmation_with_advance; _upsert_confirmation refuses to touch a
\* consumed binding.
MayRecordConfirmation(w) ==
    LET a == job[w].action IN
    /\ MayAdvance(a, job[w].version, "CONFIRMATION_REQUIRED", "CONFIRMED",
                  job[w].now)
    /\ conf[job[w].contract.conf].state # "consumed"

RecordConfirmation(w) ==
    LET a == job[w].action
        c == job[w].contract.conf
    IN
    /\ pc[w] = "record_confirmation"
    /\ MayRecordConfirmation(w)
    /\ conf' = [conf EXCEPT ![c] = [action |-> a, state |-> "confirmed"]]
    /\ act' = [act EXCEPT ![a] = Advanced(a, "CONFIRMED")]
    /\ Enter(w, "capture", For(a))
    /\ UNCHANGED <<snap, leases, plan, switch, log>>

\* run_approved_update starts over at the snapshot of a confirmed action.
ResumeCapture(w, a) ==
    /\ pc[w] = "idle"
    /\ act[a].state = "CONFIRMED"
    /\ Enter(w, "capture", For(a))
    /\ UNCHANGED <<db, log>>

MayCapture(w) ==
    LET a == job[w].action IN
    /\ act[a].state = "CONFIRMED"
    /\ Permits
    /\ plan.rev = act[a].planRev

CaptureSnapshot(w) ==
    LET a == job[w].action IN
    /\ pc[w] = "capture"
    /\ MayCapture(w)
    /\ Enter(w, "commit_snapshot",
             [For(a) EXCEPT !.version = act[a].version, !.rev = plan.rev,
                            !.now = clock])
    /\ UNCHANGED <<db, log>>

\* capture_snapshot_and_advance
MayCommitSnapshot(w) ==
    LET a == job[w].action IN
    /\ MayAdvance(a, job[w].version, "CONFIRMED", "SNAPSHOT_CAPTURED",
                  job[w].now)
    /\ job[w].rev = act[a].planRev

CommitSnapshot(w) ==
    LET a == job[w].action IN
    /\ pc[w] = "commit_snapshot"
    /\ MayCommitSnapshot(w)
    /\ snap' = [snap EXCEPT ![a] = job[w].rev]
    /\ act' = [act EXCEPT ![a] = Advanced(a, "SNAPSHOT_CAPTURED")]
    /\ Return(w)
    /\ UNCHANGED <<conf, leases, plan, switch, log>>

-----------------------------------------------------------------------------
(* execute_action: lease, contract, then Executor.execute.                   *)

\* The reads at the head of execute_action.  Executed and failed actions are
\* answered from the row; the others need a recorded confirmation and a
\* snapshot.
ExecuteAction(w, a) ==
    /\ pc[w] = "idle"
    /\ act[a].state \notin {ABSENT, "VERIFIED_SUCCESS", "ROLLED_BACK",
                            "EXECUTION_FAILED", "ROLLBACK_FAILED"}
    /\ ~Expired(a, clock)
    /\ snap[a] # 0
    /\ \E c \in ConfIds :
         /\ conf[c].action = a
         /\ conf[c].state \in {"confirmed", "consumed"}
         /\ Enter(w, IF act[a].state = "SNAPSHOT_CAPTURED"
                     THEN "acquire_lease" ELSE "build_contract",
                  [For(a) EXCEPT !.now = clock, !.version = act[a].version,
                                 !.contract.conf = c])
    /\ UNCHANGED <<db, log>>

MayAcquireLease(w) ==
    LET a == job[w].action IN
    /\ MayAdvance(a, job[w].version, "SNAPSHOT_CAPTURED", "LEASED", job[w].now)
    /\ ActiveLeases(a, job[w].now) = {}

\* acquire_lease: the next fencing token of the action, bound to the version
\* the action advances to.
AcquireLease(w) ==
    LET a == job[w].action IN
    /\ pc[w] = "acquire_lease"
    /\ MayAcquireLease(w)
    /\ leases' = [leases EXCEPT ![a] =
                    Append(@, [state |-> "granted",
                               expires |-> job[w].now + LeaseTTL,
                               version |-> act[a].version + 1])]
    /\ act' = [act EXCEPT ![a] = Advanced(a, "LEASED")]
    /\ Enter(w, "build_contract", [job[w] EXCEPT !.version = @ + 1])
    /\ UNCHANGED <<conf, snap, plan, switch, log>>

MayBuildContract(w) == ActiveLeases(job[w].action, job[w].now) # {}

\* The contract over the active lease and the kill switch's epoch; the
\* executor then takes the clock once for the rest of the call.
BuildContract(w) ==
    LET a == job[w].action IN
    /\ pc[w] = "build_contract"
    /\ MayBuildContract(w)
    /\ Enter(w, "validate_world",
             [job[w] EXCEPT !.contract =
                              [@ EXCEPT !.version = job[w].version,
                                        !.epoch = switch.epoch,
                                        !.token = ActiveToken(a, job[w].now)],
                            !.now = clock])
    /\ UNCHANGED <<db, log>>

\* The switch is as the contract found it, and permits.
SwitchHolds(w) == Permits /\ switch.epoch = job[w].contract.epoch

\* _validate_world, and the state check that follows it.
MayValidateWorld(w) ==
    LET a == job[w].action IN
    /\ act[a].version = job[w].contract.version
    /\ ~Expired(a, job[w].now)
    /\ SwitchHolds(w)
    /\ act[a].state \in {"SNAPSHOT_CAPTURED", "LEASED", "RUNNING",
                         "EXECUTED_PENDING_VERIFICATION"}

\* Only a leased action binds its contract and passes the gate; a replay goes
\* on to the checks they share.
ValidateWorld(w) ==
    LET a == job[w].action IN
    /\ pc[w] = "validate_world"
    /\ MayValidateWorld(w)
    /\ Enter(w, IF act[a].state = "LEASED" THEN "bind_read" ELSE "gate",
             [job[w] EXCEPT !.state = act[a].state])
    /\ UNCHANGED <<db, log>>

\* bind_contract_evidence reads the stored digest ...
MayBind(w) ==
    act[job[w].action].digest \in {NoContract, job[w].contract}

BindRead(w) ==
    /\ pc[w] = "bind_read"
    /\ MayBind(w)
    /\ Enter(w, IF act[job[w].action].digest = NoContract
                THEN "bind_write" ELSE "gate", job[w])
    /\ UNCHANGED <<db, log>>

\* ... and then writes it where the version still matches; it does not compare
\* the digest again, nor look at the number of rows it wrote.
BindWrite(w) ==
    LET a == job[w].action IN
    /\ pc[w] = "bind_write"
    /\ act' = [act EXCEPT ![a] =
                 IF @.version = job[w].version
                 THEN [@ EXCEPT !.digest = job[w].contract] ELSE @]
    /\ Enter(w, "gate", job[w])
    /\ UNCHANGED <<conf, snap, leases, plan, switch, log>>

\* FinalExecutionGate.evaluate: the row again, ...
RowIsCurrent(w) ==
    LET a == job[w].action IN
    /\ act[a].state \notin TerminalStates
    /\ act[a].version = job[w].contract.version
    /\ ~Expired(a, job[w].now)

\* ... the bound digest, the confirmation and the kill switch.
GateAllows(w) ==
    LET k == job[w].contract IN
    /\ RowIsCurrent(w)
    /\ act[job[w].action].digest \in {NoContract, k}
    /\ conf[k.conf].state # "consumed"
    /\ SwitchHolds(w)

\* Mutant: the lease may have been granted at another version of the action.
ExecutorChecksAnyLease(w) ==
    LET a == job[w].action
        k == job[w].contract
    IN
    /\ conf[k.conf].action = a
    /\ ~Expired(a, job[w].now)
    /\ conf[k.conf].state = "consumed" => job[w].state # "LEASED"
    /\ snap[a] = act[a].planRev
    /\ ActiveToken(a, job[w].now) = k.token
    /\ plan.rev = act[a].planRev

\* _validate_confirmation, _validate_snapshot, _validate_lease and
\* _validate_current_plan, which the gate makes in the same way.
ExecutorChecks(w) ==
    LET a == job[w].action
        k == job[w].contract
    IN
    /\ conf[k.conf].action = a
    /\ ~Expired(a, job[w].now)
    /\ conf[k.conf].state = "consumed" => job[w].state # "LEASED"
    /\ snap[a] = act[a].planRev
    /\ ActiveLeases(a, job[w].now) # {}
    /\ ActiveToken(a, job[w].now) = k.token
    /\ leases[a][k.token].version = k.version
    /\ plan.rev = act[a].planRev

MayPassGate(w) ==
    /\ job[w].state = "LEASED" => GateAllows(w)
    /\ ExecutorChecks(w)

\* A leased action begins; a replay goes on from the state it is in now.
PassGate(w) ==
    LET row == act[job[w].action]
        step == IF job[w].state = "LEASED" THEN "begin_execution"
                ELSE IF row.state = "EXECUTED_PENDING_VERIFICATION"
                THEN "read_back" ELSE "execute_plan_mutation"
    IN
    /\ pc[w] = "gate"
    /\ MayPassGate(w)
    /\ Enter(w, step, IF step = "read_back"
                      THEN [job[w] EXCEPT !.version = row.version] ELSE job[w])
    /\ UNCHANGED <<db, log>>

MayBeginExecution(w) ==
    /\ MayAdvance(job[w].action, job[w].version, "LEASED", "RUNNING",
                  job[w].now)
    /\ conf[job[w].contract.conf].state = "confirmed"

\* Mutant: execution begins without consuming the confirmation.
BeginExecutionUnconsumed(w) ==
    LET a == job[w].action IN
    /\ pc[w] = "begin_execution"
    /\ MayBeginExecution(w)
    /\ act' = [act EXCEPT ![a] = Advanced(a, "RUNNING")]
    /\ Enter(w, "execute_plan_mutation", [job[w] EXCEPT !.version = @ + 1])
    /\ UNCHANGED <<conf, snap, leases, plan, switch, log>>

\* begin_execution: consume the confirmation and enter RUNNING.
BeginExecution(w) ==
    LET a == job[w].action
        c == job[w].contract.conf
    IN
    /\ pc[w] = "begin_execution"
    /\ MayBeginExecution(w)
    /\ conf' = [conf EXCEPT ![c].state = "consumed"]
    /\ act' = [act EXCEPT ![a] = Advanced(a, "RUNNING")]
    /\ Enter(w, "execute_plan_mutation", [job[w] EXCEPT !.version = @ + 1])
    /\ UNCHANGED <<snap, leases, plan, switch, log>>

\* Mutant: the plan's revision is not compared.
MayExecutePlanMutationAnyPlan(w) ==
    MayAdvance(job[w].action, job[w].version, "RUNNING",
               "EXECUTED_PENDING_VERIFICATION", job[w].now)

MayExecutePlanMutation(w) ==
    LET a == job[w].action IN
    /\ MayAdvance(a, job[w].version, "RUNNING",
                  "EXECUTED_PENDING_VERIFICATION", job[w].now)
    /\ plan.rev = act[a].planRev

\* Mutant: the plan is written without the outcome that says so.
ExecutePlanMutationUnrecorded(w) ==
    LET a == job[w].action IN
    /\ pc[w] = "execute_plan_mutation"
    /\ MayExecutePlanMutation(w)
    /\ plan' = [rev |-> plan.rev + 1, by |-> a]
    /\ log' = Append(log, a)
    /\ act' = [act EXCEPT ![a] = Advanced(a, "EXECUTED_PENDING_VERIFICATION")]
    /\ Enter(w, "read_back", [job[w] EXCEPT !.version = @ + 1])
    /\ UNCHANGED <<conf, snap, leases, switch>>

\* execute_plan_mutation: the plan at its next revision and the action at its
\* next state, in one transaction.
ExecutePlanMutation(w) ==
    LET a == job[w].action IN
    /\ pc[w] = "execute_plan_mutation"
    /\ MayExecutePlanMutation(w)
    /\ plan' = [rev |-> plan.rev + 1, by |-> a]
    /\ log' = Append(log, a)
    /\ act' = [act EXCEPT ![a] =
                 [Advanced(a, "EXECUTED_PENDING_VERIFICATION")
                    EXCEPT !.outcome = "mutation_succeeded"]]
    /\ Enter(w, "read_back", [job[w] EXCEPT !.version = @ + 1])
    /\ UNCHANGED <<conf, snap, leases, switch>>

\* Mutant: the revision read back is compared with the one before the mutation.
ReadBackOffByOne(w) ==
    LET a == job[w].action IN
    /\ pc[w] = "read_back"
    /\ Enter(w, "record_verification",
             [job[w] EXCEPT !.ok = plan.rev = act[a].planRev /\ plan.by = a])
    /\ UNCHANGED <<db, log>>

\* verify: the plan read back is the one this mutation leaves.
ReadBack(w) ==
    LET a == job[w].action IN
    /\ pc[w] = "read_back"
    /\ Enter(w, "record_verification",
             [job[w] EXCEPT !.ok = /\ plan.rev = act[a].planRev + 1
                                   /\ plan.by = a])
    /\ UNCHANGED <<db, log>>

\* Mutant: the verdicts are swapped.
VerdictSwapped(w) ==
    IF job[w].ok THEN "VERIFICATION_FAILED" ELSE "VERIFIED_SUCCESS"

Verdict(w) == IF job[w].ok THEN "VERIFIED_SUCCESS" ELSE "VERIFICATION_FAILED"

MayRecordVerification(w) ==
    MayAdvance(job[w].action, job[w].version, "EXECUTED_PENDING_VERIFICATION",
               Verdict(w), job[w].now)

\* record_verification_outcome
RecordVerification(w) ==
    LET a == job[w].action IN
    /\ pc[w] = "record_verification"
    /\ MayRecordVerification(w)
    /\ act' = [act EXCEPT ![a] =
                 [Advanced(a, Verdict(w))
                    EXCEPT !.outcome = IF job[w].ok
                                       THEN "verification_succeeded"
                                       ELSE "verification_failed"]]
    /\ Enter(w, "release_lease", job[w])
    /\ UNCHANGED <<conf, snap, leases, plan, switch, log>>

\* release_lease: only the lease of the contract, only while it is granted.
ReleaseLease(w) ==
    LET a == job[w].action
        i == job[w].contract.token
    IN
    /\ pc[w] = "release_lease"
    /\ leases' = [leases EXCEPT ![a][i].state = "released"]
    /\ Return(w)
    /\ UNCHANGED <<act, conf, snap, plan, switch, log>>

-----------------------------------------------------------------------------
(* A step whose checks fail raises, and the call returns to its caller.      *)

Refuse(w) ==
    /\ \/ pc[w] = "register" /\ act[job[w].action].state # ABSENT
       \/ pc[w] = "build_confirmation" /\ ~MayBuildConfirmation(w)
       \/ pc[w] = "record_confirmation" /\ ~MayRecordConfirmation(w)
       \/ pc[w] = "capture" /\ ~MayCapture(w)
       \/ pc[w] = "commit_snapshot" /\ ~MayCommitSnapshot(w)
       \/ pc[w] = "acquire_lease" /\ ~MayAcquireLease(w)
       \/ pc[w] = "build_contract" /\ ~MayBuildContract(w)
       \/ pc[w] = "validate_world" /\ ~MayValidateWorld(w)
       \/ pc[w] = "bind_read" /\ ~MayBind(w)
       \/ pc[w] = "gate" /\ ~MayPassGate(w)
       \/ pc[w] = "begin_execution" /\ ~MayBeginExecution(w)
       \/ pc[w] = "execute_plan_mutation" /\ ~MayExecutePlanMutation(w)
       \/ pc[w] = "record_verification" /\ ~MayRecordVerification(w)
    /\ Return(w)
    /\ UNCHANGED <<db, log>>

-----------------------------------------------------------------------------
(* The kill switch: engage and disengage read the record, then save it with  *)
(* the next epoch, whatever was saved in between.                            *)

ReadSwitch(w, engage) ==
    /\ pc[w] = "idle"
    /\ switch.epoch < MaxEpoch
    /\ Enter(w, "save_switch",
             [IdleJob EXCEPT !.contract.epoch = switch.epoch + 1, !.ok = engage])
    /\ UNCHANGED <<db, log>>

SaveSwitch(w) ==
    /\ pc[w] = "save_switch"
    /\ switch' = [engaged |-> job[w].ok, epoch |-> job[w].contract.epoch]
    /\ Return(w)
    /\ UNCHANGED <<act, conf, snap, leases, plan, log>>

-----------------------------------------------------------------------------
(* Crash, restart, and the reconciliation sweep a worker runs on startup.    *)

Crash(w) ==
    /\ pc[w] # "down"
    /\ pc' = [pc EXCEPT ![w] = "down"]
    /\ job' = [job EXCEPT ![w] = IdleJob]
    /\ todo' = [todo EXCEPT ![w] = {}]
    /\ UNCHANGED <<db, clock, log>>

Restart(w) ==
    /\ pc[w] = "down"
    /\ pc' = [pc EXCEPT ![w] = "sweep"]
    /\ todo' = [todo EXCEPT ![w] =
                  {a \in Actions : act[a].state \notin TerminalStates \cup {ABSENT}}]
    /\ UNCHANGED <<db, job, clock, log>>

\* recover: its one transition, for a leased action without an active lease.
Recoverable(a) ==
    /\ act[a].state = "LEASED"
    /\ ActiveLeases(a, clock) = {}
    /\ ValidTransition("LEASED", "RECONCILIATION_REQUIRED", Expired(a, clock))

\* Mutant: the sweep keeps an action it has visited for another attempt.
VisitAgain(w, a) ==
    /\ pc[w] = "sweep"
    /\ a \in todo[w]
    /\ UNCHANGED <<todo, conf, snap, leases, plan, switch, pc, job, clock, log>>

Visit(w, a) ==
    /\ pc[w] = "sweep"
    /\ a \in todo[w]
    /\ todo' = [todo EXCEPT ![w] = @ \ {a}]
    /\ UNCHANGED <<conf, snap, leases, plan, switch, pc, job, clock, log>>

Recover(w, a) ==
    /\ Visit(w, a)
    /\ Recoverable(a)
    /\ act' = [act EXCEPT ![a] = Advanced(a, "RECONCILIATION_REQUIRED")]

\* Every other action is observed, and a refused transition is an isolated
\* error of the sweep.
Observe(w, a) ==
    /\ Visit(w, a)
    /\ ~Recoverable(a)
    /\ UNCHANGED act

FinishSweep(w) ==
    /\ pc[w] = "sweep"
    /\ todo[w] = {}
    /\ Return(w)
    /\ UNCHANGED <<db, log>>

Tick ==
    /\ clock < MaxTime
    /\ clock' = clock + 1
    /\ UNCHANGED <<db, pc, job, todo, log>>

-----------------------------------------------------------------------------

\* What the owner may ask of an idle worker.
Call(w) ==
    \/ \E a \in Actions :
         \/ Authorize(w, a)
         \/ ReusePending(w, a)
         \/ RequestConfirmation(w, a)
         \/ ResumeCapture(w, a)
         \/ ExecuteAction(w, a)
    \/ \E engage \in BOOLEAN : ReadSwitch(w, engage)

\* The steps a call or the sweep takes once it has begun.
Proceed(w) ==
    \/ RegisterAction(w)
    \/ PutPending(w)
    \/ BuildConfirmation(w)
    \/ RecordConfirmation(w)
    \/ CaptureSnapshot(w)
    \/ CommitSnapshot(w)
    \/ AcquireLease(w)
    \/ BuildContract(w)
    \/ ValidateWorld(w)
    \/ BindRead(w)
    \/ BindWrite(w)
    \/ PassGate(w)
    \/ BeginExecution(w)
    \/ ExecutePlanMutation(w)
    \/ ReadBack(w)
    \/ RecordVerification(w)
    \/ ReleaseLease(w)
    \/ Refuse(w)
    \/ SaveSwitch(w)
    \/ \E a \in Actions : Recover(w, a) \/ Observe(w, a)
    \/ FinishSweep(w)

Next ==
    \/ \E w \in Workers : Call(w) \/ Proceed(w) \/ Crash(w) \/ Restart(w)
    \/ Tick

Spec == Init /\ [][Next]_vars

\* A process runs on until it returns or crashes, a supervisor restarts it,
\* and time passes.  Owners need not call, and a crash is never forced.
Fairness ==
    /\ \A w \in Workers : WF_vars(Proceed(w)) /\ WF_vars(Restart(w))
    /\ WF_vars(Tick)

FairSpec == Spec /\ Fairness

-----------------------------------------------------------------------------
(* Properties.                                                               *)

Jobs == [action : Actions \cup {NoAction}, now : Nat, version : Nat,
         rev : Nat, state : LifecycleStates \cup {ABSENT},
         contract : Contracts, ok : BOOLEAN]

Rows == [state : LifecycleStates \cup {ABSENT}, version : Nat,
         outcome : Outcomes, planRev : Nat, expires : Nat, digest : Contracts]

Bindings == [action : Actions \cup {NoAction},
             state : {"none", "requested", "confirmed", "consumed"}]

LeaseRows == [state : {"granted", "released"}, expires : Nat, version : Nat]

\* Type invariant: every column and local variable keeps its domain.
TypeOK ==
    /\ act \in [Actions -> Rows]
    /\ conf \in [ConfIds -> Bindings]
    /\ snap \in [Actions -> Nat]
    /\ leases \in [Actions -> Seq(LeaseRows)]
    /\ plan \in [rev : Nat \ {0}, by : Actions \cup {NoAction}]
    /\ switch \in [engaged : BOOLEAN, epoch : Nat]
    /\ pc \in [Workers -> Steps \cup {"idle", "down"}]
    /\ job \in [Workers -> Jobs]
    /\ todo \in [Workers -> SUBSET Actions]
    /\ clock \in Nat
    /\ log \in Seq(Actions)

ExecutedStates == {"EXECUTED_PENDING_VERIFICATION", "VERIFIED_SUCCESS",
                   "VERIFICATION_FAILED"}

StartedStates == ExecutedStates \cup {"RUNNING"}

\* The bindings of an action that its owner has confirmed.
Granted(a) == {c \in ConfIds : conf[c].action = a
                               /\ conf[c].state \in {"confirmed", "consumed"}}

\* Exactly-once: no interleaving of retries, duplicate executions and crashes
\* applies an action to the plan twice, and each write lands on exactly the
\* revision its action was authorized for (execute_plan_mutation, the plan and
\* version compare-and-swap).
AppliedOnce ==
    /\ \A i, j \in DOMAIN log : log[i] = log[j] => i = j
    /\ \A i \in DOMAIN log : act[log[i]].planRev = i
    /\ plan.rev = Len(log) + 1

\* The durable outcome tells the truth after any crash: it says the mutation
\* happened if and only if the plan has it (execute_plan_mutation's docstring:
\* "no window in which the effect happened without the durable success state").
OutcomeIsTruthful ==
    \A a \in Actions :
      /\ act[a].outcome # "mutation_not_started"
           <=> \E i \in DOMAIN log : log[i] = a
      /\ act[a].state \in ExecutedStates
           <=> act[a].outcome # "mutation_not_started"

\* Single use of the owner's consent: racing confirm calls may leave several
\* pending bindings, but at most one is ever confirmed per action, and it is
\* spent if and only if execution began (record_confirmation_with_advance,
\* begin_execution).
ConsentSpentOnce ==
    \A a \in Actions :
      /\ \A c, d \in Granted(a) : c = d
      /\ Granted(a) # {}
           <=> act[a].state \notin {ABSENT, "CONFIRMATION_REQUIRED"}
      /\ (\E c \in Granted(a) : conf[c].state = "consumed")
           <=> act[a].state \in StartedStates

\* The verdict is right even though the read-back and its recording are two
\* steps: a success was applied, a failure means that a later action has
\* already overwritten the plan, which is why a rollback can never be safe.
VerdictIsSound ==
    \A a \in Actions :
      /\ act[a].state = "VERIFIED_SUCCESS" => log[act[a].planRev] = a
      /\ act[a].state = "VERIFICATION_FAILED" => plan.rev > act[a].planRev + 1

\* Fencing: an action is leased at most once in its life, so that no two
\* workers ever hold different tokens for it, and at most one worker can be
\* about to mutate the plan for it (acquire_lease, begin_execution).
OneMutator ==
    /\ \A a \in Actions : Len(leases[a]) <= 1
    /\ \A v, w \in Workers :
         /\ pc[v] = "execute_plan_mutation"
         /\ pc[w] = "execute_plan_mutation"
         /\ job[v].action = job[w].action
         => v = w

\* A step that changes the plan does so for a running action whose snapshot is
\* the very revision being replaced, whose consent is spent, whose contract is
\* on record and whose lease is not yet released: the evidence a mutation
\* rests on is checked steps earlier, and still holds when it commits.
MutationIsAuthorized ==
    [][plan' # plan =>
         \E a \in Actions :
           /\ log' = Append(log, a)
           /\ act[a].state = "RUNNING"
           /\ snap[a] = plan.rev
           /\ \E c \in Granted(a) : conf[c].state = "consumed"
           /\ act[a].digest # NoContract
           /\ \E i \in DOMAIN leases[a] : leases[a][i].state = "granted"]_vars

\* Every change of an action's row follows the transition table, one version
\* at a time, and never leaves a terminal state.
LifecycleIsLegal ==
    [][\A a \in Actions :
         act'[a].state # act[a].state =>
           \/ act[a].state = ABSENT /\ act'[a].state = "CONFIRMATION_REQUIRED"
           \/ /\ act'[a].version = act[a].version + 1
              /\ ValidTransition(act[a].state, act'[a].state, FALSE)]_vars

\* Every call ends: whatever the other workers do between two steps, a worker
\* that does not crash gets back to its caller.
CallsReturn ==
    \A w \in Workers : pc[w] \in Steps ~> pc[w] \in {"idle", "down"}

\* With the code's lifetimes (a lease lives at least as long as an
\* authorization, and is granted after it) a lease never expires before its
\* action, so the recovery sweep's one transition is never legal.
RecoveryIsUnreachable ==
    LeaseTTL >= DecisionTTL =>
      \A a \in Actions :
        /\ act[a].state # "RECONCILIATION_REQUIRED"
        /\ \A i \in DOMAIN leases[a] : leases[a][i].expires >= act[a].expires

\* The plan register this specification implements: the log is its history,
\* and an action's state is its verdict.
VerdictOf(state) ==
    CASE state = "VERIFIED_SUCCESS" -> "success"
      [] state = "VERIFICATION_FAILED" -> "failure"
      [] OTHER -> "none"

Bounds == [a \in Actions |-> act[a].planRev]

Verdicts == [a \in Actions |-> VerdictOf(act[a].state)]

Register == INSTANCE PlanRegister WITH
    history <- log, bound <- Bounds, verdict <- Verdicts

\* Whatever the workers, crashes and delays do, the owner sees a register with
\* optimistic concurrency: each authorized action is applied at most once, at
\* its revision, and judged at most once.
ImplementsPlanRegister == Register!Spec

-----------------------------------------------------------------------------
(* What the repository's documents say, and the code does not do.            *)

\* recovery_sweep.py: "LEASED with an expired lease -> the single existing safe
\* transition (CAS advance to RECONCILIATION_REQUIRED)".
SweepRecoversExpiredLease ==
    [][\A w \in Workers, a \in Actions :
         /\ pc[w] = "sweep" /\ pc'[w] # "down"
         /\ a \in todo[w] /\ a \notin todo'[w]
         /\ act[a].state = "LEASED" /\ ActiveLeases(a, clock) = {}
         => act'[a].state = "RECONCILIATION_REQUIRED"]_vars

\* bind_contract_evidence: "Durably bind the contract digest to the action;
\* immutable once set."
DigestIsImmutable ==
    [][\A a \in Actions :
         act[a].digest # NoContract => act'[a].digest = act[a].digest]_vars

\* MC-6.12_PRODUCTION_ARCHITECTURE.md: "An expired lease cannot commit."
ExpiredLeaseCannotCommit ==
    [][\A a \in Actions :
         log' = Append(log, a) => ActiveLeases(a, clock) # {}]_vars

\* MC-6.12_PRODUCTION_ARCHITECTURE.md: "EXECUTED_PENDING_VERIFICATION |
\* verification resumable (fresh read-back)".
VerificationIsResumable ==
    \A w \in Workers :
      pc[w] = "gate" /\ job[w].state = "EXECUTED_PENDING_VERIFICATION"
        => MayPassGate(w)
=============================================================================
