------------------------------ MODULE Rollback ------------------------------
(* Rolling one action back: the request that plans and registers a rollback  *)
(* action and marks the original, and the execution of that action, which    *)
(* restores the original's snapshot, verifies it and closes the original     *)
(* (control_plane/rollback.py, service.py, executor.py, policy.py).          *)
(*                                                                           *)
(* Operators work from several processes, which come up on one database as   *)
(* Startup describes.  Every read and every transaction is a step, a process *)
(* may die between any two, other actions change the plan meanwhile, leases  *)
(* and actions expire, and the actions may stem from before an upgrade of    *)
(* the program.  How an action is confirmed, leased and bound in general is  *)
(* ControlPlane's; here only what the rollback depends on is kept.           *)
EXTENDS Lifecycle, Startup, Sequences

CONSTANT
    MaxRevision   \* bound: no other action changes the plan beyond this revision

ASSUME BoundsAssumption ==
    /\ MaxRevision \in Nat
    /\ Actions = {"orig", "rb"}

VARIABLES
    plan,      \* the stored plan: its revision and whose fields it carries
    orig,      \* the original action's row
    rb,        \* the rollback action's row, its confirmation and its lease
    expired,   \* the actions past their expiry
    job,       \* what each process is doing
    old,       \* history: the actions stored before the upgrade
    undone     \* history: what the restores replaced

flowVars == <<plan, orig, rb, expired, job, old, undone>>
vars == <<flowVars, startVars>>

-----------------------------------------------------------------------------
(* State.  The fields of a plan are those of the snapshot ("before"), of the *)
(* original mutation ("own"), of a mutation that went wrong ("odd"), or of   *)
(* another action ("later").                                                 *)

SnapshotOfOriginal == [rev |-> 1, by |-> "before"]

NoRow == [state |-> ABSENT, version |-> 0, plan |-> SnapshotOfOriginal,
          conf |-> "none", lease |-> "none", bound |-> 0]

IdleJob == [pc |-> "idle", version |-> 0, origVersion |-> 0,
            seen |-> SnapshotOfOriginal, verdict |-> ABSENT]

NoOriginal == [state |-> ABSENT, version |-> 0, seen |-> SnapshotOfOriginal]

\* An original of an earlier version failed its verification; a rollback of it
\* may have been prepared.
OldOriginal ==
    /\ plan = [rev |-> 2, by |-> "odd"]
    /\ orig = [state |-> IF "rb" \in old THEN "ROLLBACK_REQUESTED" ELSE "VERIFICATION_FAILED",
               version |-> 1, seen |-> plan]

OldRollback ==
    [NoRow EXCEPT !.state = "SNAPSHOT_CAPTURED", !.version = 1, !.plan = plan,
                  !.conf = "confirmed"]

Init ==
    /\ StartInit
    /\ \/ /\ AbsentDatabase
          /\ old = {}
          /\ plan = SnapshotOfOriginal
          /\ orig = NoOriginal
          /\ rb = NoRow
       \/ \E v \in {6, 7, 9} :
          /\ old \in {{"orig"}, {"orig", "rb"}}
          /\ OldOriginal
          /\ rb = IF "rb" \in old THEN OldRollback ELSE NoRow
          /\ StoredDatabase(v, old)
    /\ expired = {}
    /\ job = [w \in Workers |-> IdleJob]
    /\ undone = << >>

At(w, pc) == Up(w) /\ job[w].pc = pc

Enter(w, j) == job' = [job EXCEPT ![w] = j]

Goto(w, pc) == Enter(w, [job[w] EXCEPT !.pc = pc])

\* The call refuses or returns.
End(w) == Enter(w, IdleJob)

\* The row moves to a state if it still is at the version read, and may.
MayAdvance(row, at, from, to, name) ==
    /\ row.version = at
    /\ row.state = from
    /\ ValidTransition(from, to, name \in expired)

Advanced(row, to) == [row EXCEPT !.state = to, !.version = @ + 1]

-----------------------------------------------------------------------------
(* The original action.                                                      *)

SomeUp == \E w \in Workers : Up(w)

\* An action of this version, from its request to its start.
OriginalStarts ==
    /\ SomeUp
    /\ orig.state = ABSENT
    /\ Store("orig")
    /\ orig' = [orig EXCEPT !.state = "RUNNING", !.version = 1]
    /\ UNCHANGED <<plan, rb, expired, job, old, undone, file, version, regs, switch,
                   proc, crashes>>

\* Its mutation, which a fault may leave other fields for.
OriginalMutates ==
    /\ SomeUp
    /\ orig.state = "RUNNING"
    /\ plan = SnapshotOfOriginal
    /\ \E by \in {"own", "odd"} : plan' = [rev |-> 2, by |-> by]
    /\ orig' = [Advanced(orig, "EXECUTED_PENDING_VERIFICATION") EXCEPT !.seen.rev = 2]
    /\ UNCHANGED <<rb, expired, job, undone, old, startVars>>

\* The verdict compares a fresh read of the plan with what was intended.
OriginalReadsBack ==
    /\ SomeUp
    /\ orig.state = "EXECUTED_PENDING_VERIFICATION"
    /\ orig.seen.by = "before"
    /\ orig' = [orig EXCEPT !.seen = plan]
    /\ UNCHANGED <<plan, rb, expired, job, undone, old, startVars>>

OriginalVerdict ==
    LET to == IF orig.seen = [rev |-> 2, by |-> "own"]
              THEN "VERIFIED_SUCCESS" ELSE "VERIFICATION_FAILED"
    IN
    /\ SomeUp
    /\ orig.seen.by # "before"
    /\ MayAdvance(orig, orig.version, "EXECUTED_PENDING_VERIFICATION", to, "orig")
    /\ orig' = Advanced(orig, to)
    /\ UNCHANGED <<plan, rb, expired, job, undone, old, startVars>>

-----------------------------------------------------------------------------
(* The request.                                                              *)

\* Is it safe to restore the snapshot?  Its binding to the action, target and
\* revision holds by the way it is captured.  Only the revision of the current
\* plan is compared, not its fields; and the state of the original is not.
plan_rollback(row, current) ==
    IF row.state = "ROLLED_BACK" THEN "already_rolled_back"
    ELSE IF current.rev # SnapshotOfOriginal.rev + 1 THEN "current_state_mismatch"
    ELSE "safe"

RequestRollback(w) ==
    /\ At(w, "idle")
    /\ plan_rollback(orig, plan) = "safe"
    /\ Goto(w, "authorize")
    /\ UNCHANGED <<plan, orig, rb, expired, undone, old, startVars>>

\* What the policy judges a request on: the principal, the scope the request
\* names, the plan as stored and the window of the plan just made.
Principals == {"verified", "unverified", "expired", "roleless"}

Scopes == {"allowed", "other_environment", "other_target"}

StoredPlans == {"enabled", "missing", "disabled", "other_environment", "other_digest"}

\* A rollback request carries no fields of its own.
RollbackRequest ==
    [operation |-> "rollback", fields |-> {}, principal |-> "verified",
     scope |-> "allowed", plan |-> "enabled", window |-> "open"]

\* The request as made, and with one thing wrong.
AuthorizationContexts ==
    {[RollbackRequest EXCEPT !.principal = p] : p \in Principals}
        \cup {[RollbackRequest EXCEPT !.scope = s] : s \in Scopes}
        \cup {[RollbackRequest EXCEPT !.plan = p] : p \in StoredPlans}
        \cup {[RollbackRequest EXCEPT !.window = "over"]}

\* The planner plans for allow-listed targets only.
MayPlan(c) == c.scope # "other_target"

FieldsAllowed(c) ==
    IF c.operation = "rollback" THEN c.fields = {}
    ELSE c.fields # {} /\ c.fields \subseteq {"title", "objective"}

\* derive_action_identity: the target's digest is recomputed.
Derivable(c) == c.plan # "other_digest"

AuthorizationDecision(code) == [allowed |-> code = "allowed", code |-> code]

\* The first condition that fails names the refusal.
evaluate(c) == AuthorizationDecision(
    IF c.principal = "unverified" THEN "unverified_identity"
    ELSE IF c.principal = "expired" THEN "expired_identity"
    ELSE IF c.principal = "roleless" THEN "missing_role"
    ELSE IF c.scope = "other_environment" THEN "environment_not_allowed"
    ELSE IF c.scope = "other_target" THEN "target_not_allowed"
    ELSE IF c.plan = "missing" THEN "plan_missing"
    ELSE IF c.plan = "disabled" THEN "plan_disabled"
    ELSE IF c.plan = "other_environment" THEN "plan_environment_mismatch"
    ELSE IF c.window = "over" THEN "plan_expired"
    ELSE IF ~FieldsAllowed(c) THEN "field_not_allowed"
    ELSE IF ~Derivable(c) THEN "invalid_request"
    ELSE "allowed")

\* authorize: the key derived from the original finds a rollback registered
\* before, whose decision is returned; otherwise the policy decides on the plan
\* as it is now.
Authorize(w, c) ==
    /\ At(w, "authorize")
    /\ IF ~Permits THEN End(w)
       ELSE IF rb.state # ABSENT THEN Goto(w, "reread")
       ELSE IF MayPlan(c) /\ evaluate(c).allowed
            THEN Enter(w, [job[w] EXCEPT !.pc = "register", !.seen = plan])
            ELSE End(w)
    /\ UNCHANGED <<plan, orig, rb, expired, undone, old, startVars>>

\* The table admits one action under the key.
Register(w) ==
    /\ At(w, "register")
    /\ IF rb.state = ABSENT
       THEN /\ rb' = [NoRow EXCEPT !.state = "CONFIRMATION_REQUIRED", !.version = 1,
                                   !.plan = job[w].seen]
            /\ Store("rb")
            /\ Goto(w, "reread")
       ELSE UNCHANGED <<rb, protocol>> /\ End(w)
    /\ UNCHANGED <<plan, orig, expired, undone, old, file, version, regs, switch,
                   proc, crashes>>

\* EXECUTION_FAILED is written by nothing.
Failed == {"VERIFICATION_FAILED", "EXECUTION_FAILED"}

Reread(w) ==
    /\ At(w, "reread")
    /\ IF orig.state \in Failed
       THEN Enter(w, [job[w] EXCEPT !.pc = "mark", !.origVersion = orig.version])
       ELSE End(w)
    /\ UNCHANGED <<plan, orig, rb, expired, undone, old, startVars>>

\* advance_rollback_state: the original is marked, in a later transaction.
MarkRequested(w) ==
    /\ At(w, "mark")
    /\ orig' = IF \E s \in Failed : MayAdvance(orig, job[w].origVersion, s,
                                               "ROLLBACK_REQUESTED", "orig")
               THEN Advanced(orig, "ROLLBACK_REQUESTED") ELSE orig
    /\ End(w)
    /\ UNCHANGED <<plan, rb, expired, undone, old, startVars>>

-----------------------------------------------------------------------------
(* The rollback action is confirmed and snapshotted like any other.          *)

Confirm ==
    /\ SomeUp
    /\ Permits
    /\ MayAdvance(rb, rb.version, "CONFIRMATION_REQUIRED", "CONFIRMED", "rb")
    /\ rb' = [Advanced(rb, "CONFIRMED") EXCEPT !.conf = "confirmed"]
    /\ UNCHANGED <<plan, orig, expired, job, undone, old, startVars>>

Capture ==
    /\ SomeUp
    /\ Permits
    /\ plan.rev = rb.plan.rev
    /\ MayAdvance(rb, rb.version, "CONFIRMED", "SNAPSHOT_CAPTURED", "rb")
    /\ rb' = Advanced(rb, "SNAPSHOT_CAPTURED")
    /\ UNCHANGED <<plan, orig, expired, job, undone, old, startVars>>

-----------------------------------------------------------------------------
(* execute_rollback.                                                         *)

Eligible == Failed \cup {"ROLLBACK_REQUESTED"}

\* Both rows are read here; the original's version is used at the very end.
Load(w) ==
    /\ At(w, "idle")
    /\ rb.state \notin TerminalStates \cup {ABSENT}
    /\ orig.state \in Eligible
    /\ expired = {}
    /\ Permits
    /\ Enter(w, [job[w] EXCEPT
           !.pc = IF rb.state = "SNAPSHOT_CAPTURED" THEN "lease" ELSE "contract",
           !.version = rb.version, !.origVersion = orig.version])
    /\ UNCHANGED <<plan, orig, rb, expired, undone, old, startVars>>

AcquireLease(w) ==
    /\ At(w, "lease")
    /\ IF MayAdvance(rb, job[w].version, "SNAPSHOT_CAPTURED", "LEASED", "rb")
       THEN rb' = [Advanced(rb, "LEASED") EXCEPT !.lease = "active"] /\ Goto(w, "reload")
       ELSE UNCHANGED rb /\ End(w)
    /\ UNCHANGED <<plan, orig, expired, undone, old, startVars>>

Reload(w) ==
    /\ At(w, "reload")
    /\ Enter(w, [job[w] EXCEPT !.pc = "contract", !.version = rb.version])
    /\ UNCHANGED <<plan, orig, rb, expired, undone, old, startVars>>

\* The contract names the active lease and a confirmation, used or not.
BuildContract(w) ==
    /\ At(w, "contract")
    /\ IF rb.lease = "active" /\ rb.conf \in {"confirmed", "consumed"}
       THEN Goto(w, "gate") ELSE End(w)
    /\ UNCHANGED <<plan, orig, rb, expired, undone, old, startVars>>

\* A mutant: an action of an earlier version may run.
GateAllowsLegacy(w) ==
    /\ rb.version = job[w].version
    /\ rb.state \notin TerminalStates
    /\ rb.bound \in {0, job[w].version}
    /\ rb.conf = "confirmed"
    /\ rb.lease = "active"
    /\ plan = rb.plan
    /\ Permits
    /\ "rb" \notin expired

\* The final gate judges the rollback action by its own contract, and blocks one
\* stored by an earlier version of the program.
GateAllows(w) ==
    /\ protocol["rb"] # "legacy-v1"
    /\ rb.version = job[w].version
    /\ rb.state \notin TerminalStates
    /\ rb.bound \in {0, job[w].version}
    /\ rb.conf = "confirmed"
    /\ rb.lease = "active"
    /\ plan = rb.plan
    /\ Permits
    /\ "rb" \notin expired

Gate(w) ==
    /\ At(w, "gate")
    /\ IF GateAllows(w) THEN Goto(w, "bind") ELSE End(w)
    /\ UNCHANGED <<plan, orig, rb, expired, undone, old, startVars>>

Bind(w) ==
    /\ At(w, "bind")
    /\ IF rb.bound \in {0, job[w].version}
       THEN /\ rb' = IF rb.version = job[w].version
                     THEN [rb EXCEPT !.bound = job[w].version] ELSE rb
            /\ Goto(w, "begin")
       ELSE UNCHANGED rb /\ End(w)
    /\ UNCHANGED <<plan, orig, expired, undone, old, startVars>>

\* begin_execution: the confirmation is consumed.
Begin(w) ==
    /\ At(w, "begin")
    /\ IF /\ MayAdvance(rb, job[w].version, "LEASED", "RUNNING", "rb")
          /\ rb.conf = "confirmed"
       THEN /\ rb' = [Advanced(rb, "RUNNING") EXCEPT !.conf = "consumed"]
            /\ Enter(w, [job[w] EXCEPT !.pc = "plan", !.version = @ + 1])
       ELSE UNCHANGED rb /\ End(w)
    /\ UNCHANGED <<plan, orig, expired, undone, old, startVars>>

\* Is the plan what the original left?  If not the action stays RUNNING.
ReadPlan(w) ==
    /\ At(w, "plan")
    /\ IF plan.rev = SnapshotOfOriginal.rev + 1
       THEN Enter(w, [job[w] EXCEPT !.pc = "mutate", !.seen = plan]) ELSE End(w)
    /\ UNCHANGED <<plan, orig, rb, expired, undone, old, startVars>>

\* A mutant: the revision is not compared again in the transaction.
MayMutateAnyPlan(w) ==
    MayAdvance(rb, job[w].version, "RUNNING", "EXECUTED_PENDING_VERIFICATION", "rb")

\* execute_plan_mutation compares the revision just read.
MayMutate(w) ==
    /\ MayAdvance(rb, job[w].version, "RUNNING", "EXECUTED_PENDING_VERIFICATION", "rb")
    /\ plan.rev = job[w].seen.rev

\* The snapshot's title and objective.
RestoreFields == SnapshotOfOriginal.by

Mutate(w) ==
    /\ At(w, "mutate")
    /\ IF MayMutate(w)
       THEN /\ plan' = [rev |-> plan.rev + 1, by |-> RestoreFields]
            /\ rb' = Advanced(rb, "EXECUTED_PENDING_VERIFICATION")
            /\ undone' = Append(undone, plan.by)
            /\ Enter(w, [job[w] EXCEPT !.pc = "read_back", !.version = @ + 1])
       ELSE UNCHANGED <<plan, rb, undone>> /\ End(w)
    /\ UNCHANGED <<orig, expired, old, startVars>>

\* Expected are the snapshot's fields at whatever revision is read.
ExpectedState(observed) == [rev |-> observed.rev, by |-> RestoreFields]

\* Passed, unless the revision or a field differs.
verify(expected, observed) ==
    expected.rev = observed.rev /\ expected.by = observed.by

Verdict(passed) == IF passed THEN "VERIFIED_SUCCESS" ELSE "VERIFICATION_FAILED"

ReadBack(w) ==
    /\ At(w, "read_back")
    /\ Enter(w, [job[w] EXCEPT !.pc = "record",
                               !.verdict = Verdict(verify(ExpectedState(plan), plan))])
    /\ UNCHANGED <<plan, orig, rb, expired, undone, old, startVars>>

Record(w) ==
    LET to == job[w].verdict IN
    /\ At(w, "record")
    /\ IF MayAdvance(rb, job[w].version, "EXECUTED_PENDING_VERIFICATION", to, "rb")
       THEN rb' = Advanced(rb, to) /\ Goto(w, "close")
       ELSE UNCHANGED rb /\ End(w)
    /\ UNCHANGED <<plan, orig, expired, undone, old, startVars>>

\* A mutant: the original is closed as rolled back whatever was read back.
ClosedAlways(verdict) == "ROLLED_BACK"

Closed(verdict) == IF verdict = "VERIFIED_SUCCESS" THEN "ROLLED_BACK" ELSE "ROLLBACK_FAILED"

\* advance_rollback_state, from ROLLBACK_REQUESTED only and at the version
\* loaded first; a conflict ends the call with the lease still granted.
Close(w) ==
    LET to == Closed(job[w].verdict) IN
    /\ At(w, "close")
    /\ IF MayAdvance(orig, job[w].origVersion, "ROLLBACK_REQUESTED", to, "orig")
       THEN orig' = Advanced(orig, to) /\ Goto(w, "release")
       ELSE UNCHANGED orig /\ End(w)
    /\ UNCHANGED <<plan, rb, expired, undone, old, startVars>>

Release(w) ==
    /\ At(w, "release")
    /\ rb' = [rb EXCEPT !.lease = IF @ = "active" THEN "released" ELSE @]
    /\ End(w)
    /\ UNCHANGED <<plan, orig, expired, undone, old, startVars>>

-----------------------------------------------------------------------------
(* The environment.                                                          *)

\* Another action: before the mutation of the original it makes that fail, and
\* leaves the original running.
OtherUpdate ==
    /\ SomeUp
    /\ orig.state # ABSENT
    /\ plan.rev < MaxRevision
    /\ plan' = [rev |-> plan.rev + 1, by |-> "later"]
    /\ UNCHANGED <<orig, rb, expired, job, undone, old, startVars>>

Switch == Throw /\ UNCHANGED flowVars

Expire ==
    /\ \E a \in Actions : Stored(a) /\ expired' = expired \cup {a}
    /\ UNCHANGED <<plan, orig, rb, job, undone, old, startVars>>

LeaseExpires ==
    /\ rb.lease = "active"
    /\ rb' = [rb EXCEPT !.lease = "expired"]
    /\ UNCHANGED <<plan, orig, expired, job, undone, old, startVars>>

Opens(w) == Open(w) /\ UNCHANGED flowVars

Crash(w) ==
    /\ Die(w)
    /\ End(w)
    /\ UNCHANGED <<plan, orig, rb, expired, old, undone>>

Request(w) ==
    \/ RequestRollback(w)
    \/ \E c \in AuthorizationContexts : Authorize(w, c)
    \/ Register(w) \/ Reread(w) \/ MarkRequested(w)

Execute(w) ==
    \/ Load(w) \/ AcquireLease(w) \/ Reload(w) \/ BuildContract(w)
    \/ Gate(w) \/ Bind(w) \/ Begin(w) \/ ReadPlan(w) \/ Mutate(w)
    \/ ReadBack(w) \/ Record(w) \/ Close(w) \/ Release(w)

Next ==
    \/ OriginalStarts \/ OriginalMutates \/ OriginalReadsBack \/ OriginalVerdict
    \/ Confirm \/ Capture
    \/ OtherUpdate \/ Switch \/ Expire \/ LeaseExpires
    \/ \E w \in Workers : Opens(w) \/ Request(w) \/ Execute(w) \/ Crash(w)

Spec == Init /\ [][Next]_vars

-----------------------------------------------------------------------------
(* Properties.                                                               *)

\* "any later legitimate change ... must never be overwritten" (rollback.py):
\* whatever is planned, authorized and executed by whom, however stale the plan
\* it was judged safe on has become, and whatever state the original was in when
\* it was requested, a restore replaces the original's own mutation, at most
\* once, and never one that was verified.
UndoesOnlyTheFailed ==
    /\ \A i \in DOMAIN undone : undone[i] \in {"own", "odd"}
    /\ Len(undone) <= 1
    /\ orig.state = "VERIFIED_SUCCESS" => undone = << >>

\* The original is closed with the verdict of its rollback: ROLLED_BACK only
\* after a restore that was read back, ROLLBACK_FAILED only after one that was
\* not, and either only with the rollback action itself settled.
VerdictsAgree ==
    /\ orig.state = "ROLLED_BACK" => undone # << >> /\ rb.state = "VERIFIED_SUCCESS"
    /\ orig.state = "ROLLBACK_FAILED" => rb.state = "VERIFICATION_FAILED"

\* The cutover of version 8 is clean: once the schema is stamped, the actions of
\* an earlier version, and only they, are legacy-v1, however many processes
\* upgraded the database at once and whatever they stored meanwhile; and such a
\* rollback restores nothing, even prepared, confirmed and leased.
CutoverHolds ==
    /\ version = SCHEMA_VERSION => \A a \in Actions :
           Stored(a) => protocol[a] = IF a \in old THEN "legacy-v1" ELSE "mc616d2-v1"
    /\ undone # << >> => "rb" \notin old

-----------------------------------------------------------------------------
(* The inductive invariant behind these properties.                          *)

Plans == [rev : Nat \ {0}, by : {"before", "own", "odd", "later"}]

\* A failed original, before and after its rollback.
Undoable == Failed \cup {"ROLLBACK_REQUESTED", "ROLLED_BACK", "ROLLBACK_FAILED"}

RowStates == LifecycleStates \cup {ABSENT}

Executing ==
    {"lease", "reload", "contract", "gate", "bind", "begin", "plan", "mutate",
     "read_back", "record", "close", "release"}

PastGate == Executing \ {"lease", "reload", "contract", "gate"}

Restored == {"read_back", "record", "close", "release"}

JobPlaces == {"idle", "authorize", "register", "reread", "mark"} \cup Executing

Originals == [state : RowStates, version : Nat, seen : Plans]

Rollbacks ==
    [state : RowStates, version : Nat, plan : Plans,
     conf : {"none", "confirmed", "consumed"},
     lease : {"none", "active", "expired", "released"}, bound : Nat]

Jobs ==
    [pc : JobPlaces, version : Nat, origVersion : Nat, seen : Plans, verdict : RowStates]

Procs == [pc : Places, seen : {0, 6, 7, SCHEMA_VERSION}]

\* The types of the database, the processes, the rows and the jobs.
TypeOK ==
    /\ file \in {"absent", "open", "private"}
    /\ version \in {0, 6, 7, SCHEMA_VERSION, 9}
    /\ protocol \in [Actions -> Protocols]
    /\ regs \in [Projects -> {NoRegistration, 0, 1}]
    /\ switch \in {"absent", "engaged", "disengaged"}
    /\ proc \in [Workers -> Procs]
    /\ crashes \in Nat
    /\ plan \in Plans
    /\ orig \in Originals
    /\ rb \in Rollbacks
    /\ expired \subseteq Actions
    /\ job \in [Workers -> Jobs]
    /\ old \subseteq Actions
    /\ undone \in Seq({"before", "own", "odd", "later"})

\* What a process has read of the version, and what it has made of it.
UpgradeInv ==
    /\ \A w \in Workers :
           InProc(w, "schema") => version # 9 /\ (version \in {6, 7} => proc[w].seen = version)
    /\ \A w \in Workers : proc[w].pc \in {"seed", "opened", "up"} => version = SCHEMA_VERSION
    /\ \A a \in Actions : protocol[a] = "unset" => version \in {6, 7}
    /\ \A a \in Actions : Stored(a) /\ version # 9 =>
           (a \in old <=> protocol[a] \in {"unset", "legacy-v1"})
    /\ \A a \in old : Stored(a)

\* A row has a state exactly when it is stored.
RowsInv ==
    /\ Stored("orig") <=> orig.state # ABSENT
    /\ Stored("rb") <=> rb.state # ABSENT

\* Once the original has mutated, revision 2 is its own, and a restore has left
\* it behind.
PlanInv ==
    /\ orig.state = ABSENT => plan.rev = 1
    /\ orig.state \notin {ABSENT, "RUNNING"} =>
           plan.rev >= 2 /\ (plan.rev = 2 => plan.by \in {"own", "odd"})
    /\ undone # << >> => plan.rev >= 3
    /\ Len(undone) <= 1
    /\ \A i \in DOMAIN undone : undone[i] \in {"own", "odd"}
    /\ \A w \in Workers : job[w].pc = "mutate" => job[w].seen.rev = 2

FailedInv ==
    /\ \A w \in Workers : job[w].pc \in Executing => orig.state \in Undoable
    /\ \A w \in Workers : job[w].pc \in PastGate => "rb" \notin old
    /\ \A w \in Workers : job[w].pc \in Restored => undone # << >>
    /\ undone # << >> => orig.state \in Undoable /\ "rb" \notin old

VerdictInv ==
    /\ \A w \in Workers : job[w].pc \in {"record", "close"} =>
           job[w].verdict \in {"VERIFIED_SUCCESS", "VERIFICATION_FAILED"}
    /\ \A w \in Workers : job[w].pc = "close" => rb.state = job[w].verdict
    /\ VerdictsAgree

IInv == TypeOK /\ UpgradeInv /\ RowsInv /\ PlanInv /\ FailedInv /\ VerdictInv
=============================================================================
