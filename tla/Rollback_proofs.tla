-------------------------- MODULE Rollback_proofs --------------------------
(* Proofs for Rollback: its safety properties, and Startup's, hold for any   *)
(* number of processes, projects, updates and crashes.                       *)
EXTENDS Rollback, TLAPS

-----------------------------------------------------------------------------
(* How a step is described.                                                  *)

\* The job of a process moves to one of some places, the others stay.
Moves(w, places) ==
    /\ job' \in [Workers -> Jobs]
    /\ job'[w].pc \in places
    /\ \A v \in Workers \ {w} : job'[v] = job[v]

\* The row of the original, or of the rollback, keeps its state or takes the
\* next one.
OrigGoes(from, to) ==
    /\ orig' \in Originals
    /\ orig'.state = orig.state \/ (orig.state \in from /\ orig'.state \in to)

RbGoes(from, to) ==
    /\ rb' \in Rollbacks
    /\ rb'.state = rb.state \/ (rb.state = from /\ rb'.state = to)

\* A process moves on in its start.
ProcMoves(w, places) ==
    /\ proc' \in [Workers -> Procs]
    /\ proc'[w].pc \in places
    /\ \A v \in Workers \ {w} : proc'[v] = proc[v]

\* A process takes up a new job record.
LEMMA EnterMoves ==
    ASSUME TypeOK, NEW w \in Workers, NEW j \in Jobs, Enter(w, j)
    PROVE  Moves(w, {j.pc}) /\ job'[w] = j
  BY DEF TypeOK, Enter, Moves

\* The record of a process that does nothing.
LEMMA IdleIsJob == IdleJob \in Jobs /\ IdleJob.pc = "idle"
  BY DEF IdleJob, Jobs, JobPlaces, Executing, RowStates, ABSENT, Plans,
     SnapshotOfOriginal

\* A call that ends leaves its process idle.
LEMMA EndMoves ==
    ASSUME TypeOK, NEW w \in Workers, End(w)
    PROVE  Moves(w, {"idle"})
  BY IdleIsJob, EnterMoves DEF End

\* A call that goes on keeps what it has read.
LEMMA GotoMoves ==
    ASSUME TypeOK, NEW w \in Workers, NEW pc \in JobPlaces, Goto(w, pc)
    PROVE  Moves(w, {pc}) /\ job'[w] = [job[w] EXCEPT !.pc = pc]
  <1> DEFINE j == [job[w] EXCEPT !.pc = pc]
  <1>1. job[w] \in Jobs
    BY DEF TypeOK
  <1>2. j \in Jobs /\ j.pc = pc
    BY <1>1 DEF Jobs
  <1> QED
    BY <1>2, EnterMoves DEF Goto

\* An advanced row of the original is a row in the new state.
LEMMA AdvancedOriginal ==
    ASSUME NEW row \in Originals, NEW to \in RowStates
    PROVE  Advanced(row, to) \in Originals /\ Advanced(row, to).state = to
                /\ Advanced(row, to).seen = row.seen
  <1>1. row.version + 1 \in Nat
    BY DEF Originals
  <1> QED
    BY <1>1 DEF Advanced, Originals

\* An advanced row of the rollback is a row in the new state.
LEMMA AdvancedRollback ==
    ASSUME NEW row \in Rollbacks, NEW to \in RowStates
    PROVE  Advanced(row, to) \in Rollbacks /\ Advanced(row, to).state = to
  <1>1. row.version + 1 \in Nat
    BY DEF Rollbacks
  <1> QED
    BY <1>1 DEF Advanced, Rollbacks

\* The lease and the confirmation of a rollback do not touch its state.
LEMMA GrantedRollback ==
    ASSUME NEW row \in Rollbacks
    PROVE  /\ [row EXCEPT !.lease = "active"] \in Rollbacks
           /\ [row EXCEPT !.lease = "active"].state = row.state
           /\ [row EXCEPT !.conf = "consumed"] \in Rollbacks
           /\ [row EXCEPT !.conf = "consumed"].state = row.state
           /\ [row EXCEPT !.conf = "confirmed"] \in Rollbacks
           /\ [row EXCEPT !.conf = "confirmed"].state = row.state
  BY DEF Rollbacks

\* The states the rollback writes are states of the lifecycle.
LEMMA RowStateNames ==
    {"RUNNING", "EXECUTED_PENDING_VERIFICATION", "VERIFIED_SUCCESS", "VERIFICATION_FAILED",
     "ROLLBACK_REQUESTED", "ROLLED_BACK", "ROLLBACK_FAILED", "CONFIRMATION_REQUIRED",
     "CONFIRMED", "SNAPSHOT_CAPTURED", "LEASED", "EXECUTION_FAILED"} \subseteq RowStates \ {ABSENT}
  BY DEF RowStates, LifecycleStates, TerminalStates, ABSENT

\* A process that moves on in its start keeps the version it has read.
LEMMA ProcMove ==
    ASSUME TypeOK, NEW w \in Workers, NEW pc \in Places, Move(w, pc)
    PROVE  ProcMoves(w, {pc}) /\ proc'[w].seen = proc[w].seen
  BY DEF TypeOK, Move, ProcMoves, Procs

-----------------------------------------------------------------------------
(* What each step does, in these terms.                                      *)

\* The request found the rollback safe.
LEMMA RequestRollbackEffect ==
    ASSUME TypeOK, NEW w \in Workers, RequestRollback(w)

        PROVE  Moves(w, {"authorize"}) /\ UNCHANGED <<plan, orig, rb, expired, undone, old, startVars>>
  BY GotoMoves DEF RequestRollback, JobPlaces

\* Authorizing writes nothing.
LEMMA AuthorizeEffect ==
    ASSUME TypeOK, NEW w \in Workers, NEW c \in AuthorizationContexts, Authorize(w, c)
    PROVE  /\ Moves(w, {"idle", "reread", "register"})
           /\ UNCHANGED <<plan, orig, rb, expired, undone, old, startVars>>
  <1> DEFINE j == [job[w] EXCEPT !.pc = "register", !.seen = plan]
  <1>1. j \in Jobs /\ j.pc = "register"
    BY DEF TypeOK, Jobs, JobPlaces
  <1>2. End(w) \/ Goto(w, "reread") \/ Enter(w, j)
    BY DEF Authorize
  <1>3. "reread" \in JobPlaces
    BY DEF JobPlaces
  <1>4. CASE End(w)
    BY <1>4, EndMoves DEF Moves, Authorize
  <1>5. CASE Goto(w, "reread")
    BY <1>3, <1>5, GotoMoves DEF Moves, Authorize
  <1>6. CASE Enter(w, j)
    BY <1>1, <1>6, EnterMoves DEF Moves, Authorize
  <1> QED
    BY <1>2, <1>4, <1>5, <1>6

\* Registering stores a rollback where there was none, or nothing.
LEMMA RegisterEffect ==
    ASSUME TypeOK, NEW w \in Workers, Register(w)
    PROVE  /\ Moves(w, {"idle", "reread"})
           /\ \/ UNCHANGED <<rb, protocol>>
              \/ /\ rb.state = ABSENT
                 /\ rb' \in Rollbacks /\ rb'.state = "CONFIRMATION_REQUIRED"
                 /\ Store("rb")
           /\ UNCHANGED <<plan, orig, expired, undone, old, file, version, regs, switch,
                          proc, crashes>>
  <1>1. CASE rb.state = ABSENT
    <2> DEFINE row == [NoRow EXCEPT !.state = "CONFIRMATION_REQUIRED", !.version = 1,
                                    !.plan = job[w].seen]
    <2>1. rb' = row /\ Store("rb") /\ Goto(w, "reread")
      BY <1>1 DEF Register
    <2>2. job[w].seen \in Plans
      BY DEF TypeOK, Jobs
    <2>3. row \in Rollbacks /\ row.state = "CONFIRMATION_REQUIRED"
      BY <2>2, RowStateNames DEF NoRow, Rollbacks
    <2>4. Moves(w, {"reread"})
      BY <2>1, GotoMoves DEF JobPlaces
    <2> QED
      BY <1>1, <2>1, <2>3, <2>4 DEF Moves, Register
  <1>2. CASE rb.state # ABSENT
    BY <1>2, EndMoves DEF Register, Moves
  <1> QED
    BY <1>1, <1>2

\* The original is read again.
LEMMA RereadEffect ==
    ASSUME TypeOK, NEW w \in Workers, Reread(w)
    PROVE  /\ Moves(w, {"idle", "mark"})
           /\ UNCHANGED <<plan, orig, rb, expired, undone, old, startVars>>
  <1> DEFINE j == [job[w] EXCEPT !.pc = "mark", !.origVersion = orig.version]
  <1>1. j \in Jobs /\ j.pc = "mark"
    BY DEF TypeOK, Jobs, JobPlaces, Originals
  <1>2. CASE End(w)
    BY <1>2, EndMoves DEF Moves, Reread
  <1>3. CASE Enter(w, j)
    BY <1>1, <1>3, EnterMoves DEF Moves, Reread
  <1> QED
    BY <1>2, <1>3 DEF Reread

\* Marking moves a failed original only.
LEMMA MarkRequestedEffect ==
    ASSUME TypeOK, NEW w \in Workers, MarkRequested(w)
    PROVE  /\ Moves(w, {"idle"})
           /\ OrigGoes(Failed, {"ROLLBACK_REQUESTED"})
           /\ UNCHANGED <<plan, rb, expired, undone, old, startVars>>
  <1>1. orig \in Originals
    BY DEF TypeOK
  <1>2. Moves(w, {"idle"})
    BY EndMoves DEF MarkRequested
  <1>3. \/ orig' = orig
        \/ orig.state \in Failed /\ orig' = Advanced(orig, "ROLLBACK_REQUESTED")
    BY DEF MarkRequested, MayAdvance
  <1>4. "ROLLBACK_REQUESTED" \in RowStates
    BY RowStateNames
  <1>5. /\ Advanced(orig, "ROLLBACK_REQUESTED") \in Originals
        /\ Advanced(orig, "ROLLBACK_REQUESTED").state = "ROLLBACK_REQUESTED"
    BY <1>1, <1>4, AdvancedOriginal
  <1>6. OrigGoes(Failed, {"ROLLBACK_REQUESTED"})
    BY <1>1, <1>3, <1>5 DEF OrigGoes
  <1> QED
    BY <1>2, <1>6 DEF MarkRequested

\* An execution starts with a failed original.
LEMMA LoadEffect ==
    ASSUME TypeOK, NEW w \in Workers, Load(w)
    PROVE  /\ Moves(w, {"lease", "contract"})
           /\ orig.state \in Eligible
           /\ UNCHANGED <<plan, orig, rb, expired, undone, old, startVars>>
  <1> DEFINE pc == IF rb.state = "SNAPSHOT_CAPTURED" THEN "lease" ELSE "contract"
             j == [job[w] EXCEPT !.pc = pc, !.version = rb.version,
                                 !.origVersion = orig.version]
  <1>1. rb.version \in Nat /\ orig.version \in Nat /\ job[w] \in Jobs
    BY DEF TypeOK, Originals, Rollbacks
  <1>2. pc \in {"lease", "contract"} /\ pc \in JobPlaces
    BY DEF JobPlaces, Executing
  <1> HIDE DEF pc
  <1>3. j \in Jobs /\ j.pc = pc
    BY <1>1, <1>2 DEF Jobs
  <1>4. Enter(w, j)
    BY DEF Load, pc
  <1> QED
    BY <1>2, <1>3, <1>4, EnterMoves DEF Moves, Load

\* Leasing moves the rollback from its snapshot on, or ends the call.
LEMMA AcquireLeaseEffect ==
    ASSUME TypeOK, NEW w \in Workers, AcquireLease(w)
    PROVE  /\ Moves(w, {"idle", "reload"})
           /\ RbGoes("SNAPSHOT_CAPTURED", "LEASED")
           /\ UNCHANGED <<plan, orig, expired, undone, old, startVars>>
  <1>1. rb \in Rollbacks
    BY DEF TypeOK
  <1>2. CASE MayAdvance(rb, job[w].version, "SNAPSHOT_CAPTURED", "LEASED", "rb")
    <2>1. rb' = [Advanced(rb, "LEASED") EXCEPT !.lease = "active"] /\ Goto(w, "reload")
      BY <1>2 DEF AcquireLease
    <2>2. rb' \in Rollbacks /\ rb'.state = "LEASED"
      BY <1>1, <2>1, RowStateNames, AdvancedRollback, GrantedRollback
    <2>3. Moves(w, {"reload"})
      BY <2>1, GotoMoves DEF JobPlaces, Executing
    <2> QED
      BY <1>2, <2>2, <2>3 DEF Moves, RbGoes, AcquireLease, MayAdvance
  <1>3. CASE ~MayAdvance(rb, job[w].version, "SNAPSHOT_CAPTURED", "LEASED", "rb")
    <2>1. rb' = rb /\ End(w)
      BY <1>3 DEF AcquireLease
    <2> QED
      BY <1>1, <2>1, EndMoves DEF Moves, RbGoes, AcquireLease
  <1> QED
    BY <1>2, <1>3

\* The rollback is read again with its lease.
LEMMA ReloadEffect ==
    ASSUME TypeOK, NEW w \in Workers, Reload(w)
    PROVE  /\ Moves(w, {"contract"})
           /\ job[w].pc = "reload"
           /\ UNCHANGED <<plan, orig, rb, expired, undone, old, startVars>>
  <1> DEFINE j == [job[w] EXCEPT !.pc = "contract", !.version = rb.version]
  <1>1. j \in Jobs /\ j.pc = "contract"
    BY DEF TypeOK, Jobs, JobPlaces, Executing, Rollbacks
  <1> QED
    BY <1>1, EnterMoves DEF Reload, At

\* Building the contract writes nothing.
LEMMA BuildContractEffect ==
    ASSUME TypeOK, NEW w \in Workers, BuildContract(w)
    PROVE  /\ Moves(w, {"idle", "gate"})
           /\ job[w].pc = "contract"
           /\ UNCHANGED <<plan, orig, rb, expired, undone, old, startVars>>
  <1>1. "gate" \in JobPlaces
    BY DEF JobPlaces, Executing
  <1>2. CASE End(w)
    BY <1>2, EndMoves DEF Moves, BuildContract, At
  <1>3. CASE Goto(w, "gate")
    BY <1>1, <1>3, GotoMoves DEF Moves, BuildContract, At
  <1> QED
    BY <1>2, <1>3 DEF BuildContract

\* The gate lets no rollback of an earlier version through.
LEMMA GateEffect ==
    ASSUME TypeOK, NEW w \in Workers, Gate(w)
    PROVE  /\ Moves(w, {"idle", "bind"})
           /\ job[w].pc = "gate"
           /\ Up(w)
           /\ job'[w].pc = "bind" => protocol["rb"] # "legacy-v1"
           /\ UNCHANGED <<plan, orig, rb, expired, undone, old, startVars>>
  <1>1. "bind" \in JobPlaces
    BY DEF JobPlaces, Executing
  <1>2. CASE End(w)
    BY <1>2, EndMoves DEF Moves, Gate, At
  <1>3. CASE GateAllows(w) /\ Goto(w, "bind")
    BY <1>1, <1>3, GotoMoves DEF Moves, Gate, At, GateAllows
  <1> QED
    BY <1>2, <1>3 DEF Gate

\* Binding leaves the state of the rollback.
LEMMA BindEffect ==
    ASSUME TypeOK, NEW w \in Workers, Bind(w)
    PROVE  /\ Moves(w, {"idle", "begin"})
           /\ job[w].pc = "bind"
           /\ rb' \in Rollbacks /\ rb'.state = rb.state
           /\ UNCHANGED <<plan, orig, expired, undone, old, startVars>>
  <1>1. "begin" \in JobPlaces
    BY DEF JobPlaces, Executing
  <1>2. rb' \in Rollbacks /\ rb'.state = rb.state
    BY DEF Bind, TypeOK, Rollbacks, Jobs
  <1>3. CASE End(w)
    BY <1>2, <1>3, EndMoves DEF Moves, Bind, At
  <1>4. CASE Goto(w, "begin")
    BY <1>1, <1>2, <1>4, GotoMoves DEF Moves, Bind, At
  <1> QED
    BY <1>3, <1>4 DEF Bind

\* Beginning moves the rollback to RUNNING, or ends the call.
LEMMA BeginEffect ==
    ASSUME TypeOK, NEW w \in Workers, Begin(w)
    PROVE  /\ Moves(w, {"idle", "plan"})
           /\ job[w].pc = "begin"
           /\ RbGoes("LEASED", "RUNNING")
           /\ UNCHANGED <<plan, orig, expired, undone, old, startVars>>
  <1> DEFINE j == [job[w] EXCEPT !.pc = "plan", !.version = @ + 1]
  <1>1. rb \in Rollbacks
    BY DEF TypeOK
  <1>2. j \in Jobs /\ j.pc = "plan"
    <2>1. job[w] \in Jobs /\ job[w].version + 1 \in Nat
      BY DEF TypeOK, Jobs
    <2>2. "plan" \in JobPlaces
      BY DEF JobPlaces, Executing
    <2> QED
      BY <2>1, <2>2 DEF Jobs
  <1>3. CASE /\ rb.state = "LEASED"
             /\ rb' = [Advanced(rb, "RUNNING") EXCEPT !.conf = "consumed"]
             /\ Enter(w, j)
    <2>1. rb' \in Rollbacks /\ rb'.state = "RUNNING"
      BY <1>1, <1>3, RowStateNames, AdvancedRollback, GrantedRollback
    <2> QED
      BY <1>2, <1>3, <2>1, EnterMoves DEF Moves, RbGoes, Begin, At
  <1>4. CASE rb' = rb /\ End(w)
    BY <1>1, <1>4, EndMoves DEF Moves, RbGoes, Begin, At
  <1> QED
    BY <1>3, <1>4 DEF Begin, MayAdvance

\* An execution goes on only from the revision the original left.
LEMMA ReadPlanEffect ==
    ASSUME TypeOK, NEW w \in Workers, ReadPlan(w)
    PROVE  /\ Moves(w, {"idle", "mutate"})
           /\ job[w].pc = "plan"
           /\ job'[w].pc = "mutate" => job'[w].seen.rev = 2
           /\ UNCHANGED <<plan, orig, rb, expired, undone, old, startVars>>
  <1> DEFINE j == [job[w] EXCEPT !.pc = "mutate", !.seen = plan]
  <1>1. j \in Jobs /\ j.pc = "mutate" /\ j.seen = plan
    BY DEF TypeOK, Jobs, JobPlaces, Executing
  <1>2. CASE End(w)
    BY <1>2, EndMoves DEF Moves, ReadPlan, At
  <1>3. CASE plan.rev = 2 /\ Enter(w, j)
    BY <1>1, <1>3, EnterMoves DEF Moves, ReadPlan, At
  <1> QED
    BY <1>2, <1>3 DEF ReadPlan, SnapshotOfOriginal

\* A restore replaces the plan that was read, or nothing.
LEMMA MutateEffect ==
    ASSUME TypeOK, NEW w \in Workers, Mutate(w)
    PROVE  /\ job[w].pc = "mutate"
           /\ \/ Moves(w, {"idle"}) /\ UNCHANGED <<plan, rb, undone>>
              \/ /\ Moves(w, {"read_back"})
                 /\ plan.rev = job[w].seen.rev
                 /\ plan' = [rev |-> plan.rev + 1, by |-> "before"]
                 /\ rb' \in Rollbacks
                 /\ rb.state = "RUNNING" /\ rb'.state = "EXECUTED_PENDING_VERIFICATION"
                 /\ undone' = Append(undone, plan.by)
           /\ UNCHANGED <<orig, expired, old, startVars>>
  <1> DEFINE j == [job[w] EXCEPT !.pc = "read_back", !.version = @ + 1]
  <1>1. j \in Jobs /\ j.pc = "read_back"
    <2>1. job[w] \in Jobs /\ job[w].version + 1 \in Nat
      BY DEF TypeOK, Jobs
    <2>2. "read_back" \in JobPlaces
      BY DEF JobPlaces, Executing
    <2> QED
      BY <2>1, <2>2 DEF Jobs
  <1>2. CASE MayMutate(w)
    <2>1. /\ plan' = [rev |-> plan.rev + 1, by |-> "before"]
          /\ rb' = Advanced(rb, "EXECUTED_PENDING_VERIFICATION")
          /\ undone' = Append(undone, plan.by)
          /\ Enter(w, j)
      BY <1>2 DEF Mutate, RestoreFields, SnapshotOfOriginal
    <2>2. rb.state = "RUNNING" /\ plan.rev = job[w].seen.rev
      BY <1>2 DEF MayMutate, MayAdvance
    <2>3. rb' \in Rollbacks /\ rb'.state = "EXECUTED_PENDING_VERIFICATION"
      BY <2>1, AdvancedRollback, RowStateNames DEF TypeOK
    <2>4. Moves(w, {"read_back"})
      BY <1>1, <2>1, EnterMoves
    <2> QED
      BY <2>1, <2>2, <2>3, <2>4 DEF Mutate, At
  <1>3. CASE ~MayMutate(w)
    BY <1>3, EndMoves DEF Mutate, At
  <1> QED
    BY <1>2, <1>3

\* Reading back gives one of two verdicts.
LEMMA ReadBackEffect ==
    ASSUME TypeOK, NEW w \in Workers, ReadBack(w)
    PROVE  /\ Moves(w, {"record"})
           /\ job[w].pc = "read_back"
           /\ job'[w].verdict \in {"VERIFIED_SUCCESS", "VERIFICATION_FAILED"}
           /\ UNCHANGED <<plan, orig, rb, expired, undone, old, startVars>>
  <1> DEFINE v == Verdict(verify(ExpectedState(plan), plan))
             j == [job[w] EXCEPT !.pc = "record", !.verdict = v]
  <1>1. v \in {"VERIFIED_SUCCESS", "VERIFICATION_FAILED"}
    BY DEF Verdict
  <1> HIDE DEF v
  <1>2. j \in Jobs /\ j.pc = "record" /\ j.verdict = v
    BY <1>1, RowStateNames DEF TypeOK, Jobs, JobPlaces, Executing
  <1>3. Enter(w, j)
    BY DEF ReadBack, v
  <1>4. Moves(w, {"record"}) /\ job'[w] = j
    BY <1>2, <1>3, EnterMoves
  <1> QED
    BY <1>1, <1>2, <1>4 DEF ReadBack, At

\* The verdict is recorded once, on a rollback that awaits it.
LEMMA RecordEffect ==
    ASSUME TypeOK, NEW w \in Workers, Record(w)
    PROVE  /\ job[w].pc = "record"
           /\ \/ Moves(w, {"idle"}) /\ rb' = rb
              \/ /\ Moves(w, {"close"}) /\ job'[w].verdict = job[w].verdict
                 /\ rb.state = "EXECUTED_PENDING_VERIFICATION"
                 /\ rb' \in Rollbacks /\ rb'.state = job[w].verdict
           /\ UNCHANGED <<plan, orig, expired, undone, old, startVars>>
  <1>1. job[w] \in Jobs /\ job[w].verdict \in RowStates /\ rb \in Rollbacks
    BY DEF TypeOK, Jobs
  <1>2. "close" \in JobPlaces
    BY DEF JobPlaces, Executing
  <1>3. CASE /\ rb.state = "EXECUTED_PENDING_VERIFICATION"
             /\ rb' = Advanced(rb, job[w].verdict)
             /\ Goto(w, "close")
    <2>1. rb' \in Rollbacks /\ rb'.state = job[w].verdict
      BY <1>1, <1>3, AdvancedRollback
    <2>2. Moves(w, {"close"}) /\ job'[w] = [job[w] EXCEPT !.pc = "close"]
      BY <1>2, <1>3, GotoMoves
    <2>3. job'[w].verdict = job[w].verdict
      BY <1>1, <2>2 DEF Jobs
    <2> QED
      BY <1>3, <2>1, <2>2, <2>3 DEF Record, At
  <1>4. CASE rb' = rb /\ End(w)
    BY <1>4, EndMoves DEF Record, At
  <1> QED
    BY <1>3, <1>4 DEF Record, MayAdvance

\* Closing moves a marked original by the verdict, or ends the call.
LEMMA CloseEffect ==
    ASSUME TypeOK, NEW w \in Workers, Close(w)
    PROVE  /\ job[w].pc = "close"
           /\ Moves(w, {"idle", "release"})
           /\ OrigGoes({"ROLLBACK_REQUESTED"}, {Closed(job[w].verdict)})
           /\ UNCHANGED <<plan, rb, expired, undone, old, startVars>>
  <1> DEFINE to == Closed(job[w].verdict)
  <1>1. to \in RowStates
    BY RowStateNames DEF Closed
  <1>2. "release" \in JobPlaces
    BY DEF JobPlaces, Executing
  <1>3. CASE /\ orig.state = "ROLLBACK_REQUESTED"
             /\ orig' = Advanced(orig, to)
             /\ Goto(w, "release")
    <2>1. orig' \in Originals /\ orig'.state = to
      BY <1>1, <1>3, AdvancedOriginal DEF TypeOK
    <2>2. Moves(w, {"release"})
      BY <1>2, <1>3, GotoMoves
    <2> QED
      BY <1>3, <2>1, <2>2 DEF Close, At, Moves, OrigGoes
  <1>4. CASE orig' = orig /\ End(w)
    BY <1>4, EndMoves DEF Close, At, Moves, OrigGoes, TypeOK
  <1> QED
    BY <1>3, <1>4 DEF Close, MayAdvance

\* Releasing the lease leaves the state of the rollback.
LEMMA ReleaseEffect ==
    ASSUME TypeOK, NEW w \in Workers, Release(w)
    PROVE  /\ Moves(w, {"idle"})
           /\ rb' \in Rollbacks /\ rb'.state = rb.state
           /\ UNCHANGED <<plan, orig, expired, undone, old, startVars>>
  <1>1. rb' \in Rollbacks /\ rb'.state = rb.state
    BY DEF Release, TypeOK, Rollbacks
  <1> QED
    BY <1>1, EndMoves DEF Release

\* The original is stored where there was none.
LEMMA OriginalStartsEffect ==
    ASSUME TypeOK, OriginalStarts
    PROVE  /\ orig.state = ABSENT
           /\ orig' \in Originals /\ orig'.state = "RUNNING"
           /\ Store("orig")
           /\ UNCHANGED <<plan, rb, expired, job, undone, old, file, version, regs, switch,
                          proc, crashes>>
  <1>1. orig \in Originals /\ "RUNNING" \in RowStates
    BY RowStateNames DEF TypeOK
  <1>2. orig' = [orig EXCEPT !.state = "RUNNING", !.version = 1]
    BY DEF OriginalStarts
  <1>3. orig' \in Originals /\ orig'.state = "RUNNING"
    BY <1>1, <1>2 DEF Originals
  <1> QED
    BY <1>3 DEF OriginalStarts

\* The original's mutation makes revision 2.
LEMMA OriginalMutatesEffect ==
    ASSUME TypeOK, OriginalMutates
    PROVE  /\ orig.state = "RUNNING"
           /\ orig' \in Originals /\ orig'.state = "EXECUTED_PENDING_VERIFICATION"
           /\ plan' \in Plans /\ plan'.rev = 2 /\ plan'.by \in {"own", "odd"}
           /\ UNCHANGED <<rb, expired, job, undone, old, startVars>>
  <1> DEFINE row == Advanced(orig, "EXECUTED_PENDING_VERIFICATION")
  <1>1. row \in Originals /\ row.state = "EXECUTED_PENDING_VERIFICATION"
    BY AdvancedOriginal, RowStateNames DEF TypeOK
  <1>2. orig' = [row EXCEPT !.seen.rev = 2]
    BY DEF OriginalMutates
  <1> HIDE DEF row
  <1>3. orig' \in Originals /\ orig'.state = "EXECUTED_PENDING_VERIFICATION"
    BY <1>1, <1>2 DEF Originals, Plans
  <1>4. plan' \in Plans /\ plan'.rev = 2 /\ plan'.by \in {"own", "odd"}
    BY DEF OriginalMutates, Plans
  <1> QED
    BY <1>3, <1>4 DEF OriginalMutates

\* Reading back leaves the state of the original.
LEMMA OriginalReadsBackEffect ==
    ASSUME TypeOK, OriginalReadsBack
    PROVE  /\ orig' \in Originals /\ orig'.state = orig.state
           /\ UNCHANGED <<plan, rb, expired, job, undone, old, startVars>>
  BY DEF OriginalReadsBack, TypeOK, Originals

\* The original is judged once.
LEMMA OriginalVerdictEffect ==
    ASSUME TypeOK, OriginalVerdict
    PROVE  /\ OrigGoes({"EXECUTED_PENDING_VERIFICATION"},
                       {"VERIFIED_SUCCESS", "VERIFICATION_FAILED"})
           /\ UNCHANGED <<plan, rb, expired, job, undone, old, startVars>>
  <1> DEFINE to == IF orig.seen = [rev |-> 2, by |-> "own"]
                   THEN "VERIFIED_SUCCESS" ELSE "VERIFICATION_FAILED"
  <1>1. to \in {"VERIFIED_SUCCESS", "VERIFICATION_FAILED"} /\ to \in RowStates
    BY RowStateNames
  <1>2. orig.state = "EXECUTED_PENDING_VERIFICATION" /\ orig' = Advanced(orig, to)
    BY DEF OriginalVerdict, MayAdvance
  <1> HIDE DEF to
  <1>3. orig' \in Originals /\ orig'.state = to
    BY <1>1, <1>2, AdvancedOriginal DEF TypeOK
  <1> QED
    BY <1>1, <1>2, <1>3 DEF OriginalVerdict, OrigGoes

\* Confirming moves a rollback that awaits it.
LEMMA ConfirmEffect ==
    ASSUME TypeOK, Confirm
    PROVE  /\ RbGoes("CONFIRMATION_REQUIRED", "CONFIRMED")
           /\ UNCHANGED <<plan, orig, expired, job, undone, old, startVars>>
  <1>1. /\ rb.state = "CONFIRMATION_REQUIRED"
        /\ rb' = [Advanced(rb, "CONFIRMED") EXCEPT !.conf = "confirmed"]
    BY DEF Confirm, MayAdvance
  <1>2. rb' \in Rollbacks /\ rb'.state = "CONFIRMED"
    BY <1>1, AdvancedRollback, GrantedRollback, RowStateNames DEF TypeOK
  <1> QED
    BY <1>1, <1>2 DEF RbGoes, Confirm

\* Capturing moves a confirmed rollback.
LEMMA CaptureEffect ==
    ASSUME TypeOK, Capture
    PROVE  /\ RbGoes("CONFIRMED", "SNAPSHOT_CAPTURED")
           /\ UNCHANGED <<plan, orig, expired, job, undone, old, startVars>>
  <1>1. rb.state = "CONFIRMED" /\ rb' = Advanced(rb, "SNAPSHOT_CAPTURED")
    BY DEF Capture, MayAdvance
  <1>2. rb' \in Rollbacks /\ rb'.state = "SNAPSHOT_CAPTURED"
    BY <1>1, AdvancedRollback, RowStateNames DEF TypeOK
  <1> QED
    BY <1>1, <1>2 DEF RbGoes, Capture

\* An expired lease leaves the state of the rollback.
LEMMA LeaseExpiresEffect ==
    ASSUME TypeOK, LeaseExpires
    PROVE  /\ rb' \in Rollbacks /\ rb'.state = rb.state
           /\ UNCHANGED <<plan, orig, expired, job, undone, old, startVars>>
  BY DEF LeaseExpires, TypeOK, Rollbacks

\* Another action makes the next revision.
LEMMA OtherUpdateEffect ==
    ASSUME TypeOK, OtherUpdate
    PROVE  /\ orig.state # ABSENT
           /\ plan' \in Plans /\ plan'.rev = plan.rev + 1
           /\ UNCHANGED <<orig, rb, expired, job, undone, old, startVars>>
  BY DEF OtherUpdate, TypeOK, Plans

\* A crash loses the job and nothing else.
LEMMA CrashEffect ==
    ASSUME TypeOK, NEW w \in Workers, Crash(w)
    PROVE  /\ Moves(w, {"idle"})
           /\ ProcMoves(w, {"down"})
           /\ crashes' \in Nat
           /\ UNCHANGED <<plan, orig, rb, expired, old, undone, dbVars>>
  <1>1. proc' \in [Workers -> Procs] /\ proc'[w] = Down
            /\ \A v \in Workers \ {w} : proc'[v] = proc[v]
    BY DEF Crash, Die, TypeOK, Procs, Places, Down
  <1>2. crashes' \in Nat
    BY DEF Crash, Die, TypeOK
  <1> QED
    BY <1>1, <1>2, EndMoves DEF Crash, Die, ProcMoves, Down

-----------------------------------------------------------------------------
(* Coming up.                                                                *)

\* Starting writes nothing.
LEMMA StartEffect ==
    ASSUME TypeOK, NEW w \in Workers, Start(w)
    PROVE  ProcMoves(w, {"prepare"}) /\ UNCHANGED <<dbVars, crashes>>
  BY ProcMove DEF Start, Places

\* Preparing the file leaves the tables alone.
LEMMA PrepareEffect ==
    ASSUME TypeOK, NEW w \in Workers, prepare_filesystem(w)
    PROVE  /\ ProcMoves(w, {"chmod", "down", "version"})
           /\ file' \in {"absent", "open", "private"}
           /\ UNCHANGED <<version, protocol, regs, switch, crashes>>
  <1>1. Move(w, "chmod") \/ Move(w, "down") \/ Move(w, "version")
    BY DEF prepare_filesystem, TypeOK
  <1>2. {"chmod", "down", "version"} \subseteq Places
    BY DEF Places
  <1>3. ProcMoves(w, {"chmod", "down", "version"})
    BY <1>1, <1>2, ProcMove DEF ProcMoves
  <1> QED
    BY <1>3 DEF prepare_filesystem, TypeOK

\* So does making it private.
LEMMA MakePrivateEffect ==
    ASSUME TypeOK, NEW w \in Workers, MakePrivate(w)
    PROVE  /\ ProcMoves(w, {"version"})
           /\ file' = "private"
           /\ UNCHANGED <<version, protocol, regs, switch, crashes>>
  BY ProcMove DEF MakePrivate, Places

\* A process goes on only on a version it knows.
LEMMA ReadVersionEffect ==
    ASSUME TypeOK, NEW w \in Workers, ReadVersion(w)
    PROVE  /\ ProcMoves(w, {"down", "schema"})
           /\ proc'[w].pc = "schema" => version # 9 /\ proc'[w].seen = version
           /\ UNCHANGED <<dbVars, crashes>>
  BY DEF ReadVersion, TypeOK, ProcMoves, Procs, Places, Down, SCHEMA_VERSION

\* The migrations run by the version that was read.
LEMMA EnsureSchemaEffect ==
    ASSUME TypeOK, NEW w \in Workers, ensure_schema(w)
    PROVE  /\ InProc(w, "schema")
           /\ ProcMoves(w, {"seed"})
           /\ regs' = registration_v7 \/ regs' = regs
           /\ protocol' = IF proc[w].seen \in {6, 7} THEN action_protocol_v8 ELSE protocol
           /\ version' = SCHEMA_VERSION
           /\ UNCHANGED <<file, switch, crashes>>
  <1>1. proc[w].seen \in {0, 6, 7, SCHEMA_VERSION}
    BY DEF TypeOK, Procs
  <1>2. proc[w].seen \in 1 .. 7 <=> proc[w].seen \in {6, 7}
    BY <1>1 DEF SCHEMA_VERSION
  <1>3. ProcMoves(w, {"seed"})
    BY DEF ensure_schema, TypeOK, ProcMoves, Procs, Places
  <1> QED
    BY <1>2, <1>3 DEF ensure_schema

\* Seeding stores the default only where there is no row.
LEMMA SeedEffect ==
    ASSUME TypeOK, NEW w \in Workers, seed_kill_switch_defaults(w)
    PROVE  /\ InProc(w, "seed")
           /\ ProcMoves(w, {"opened"})
           /\ switch' \in {switch, "engaged"}
           /\ switch' # switch => switch = "absent"
           /\ UNCHANGED <<file, version, protocol, regs, crashes>>
  BY ProcMove DEF seed_kill_switch_defaults, Places, SwitchOrDefault

\* So does the composition of the service.
LEMMA ComposeEffect ==
    ASSUME TypeOK, NEW w \in Workers, compose_operator_service(w)
    PROVE  /\ InProc(w, "opened")
           /\ ProcMoves(w, {"up", "down"})
           /\ switch' \in {switch, "engaged"}
           /\ switch' # switch => switch = "absent"
           /\ UNCHANGED <<file, version, protocol, regs, crashes>>
  <1>1. Move(w, "up") \/ Move(w, "down")
    BY DEF compose_operator_service
  <1>2. {"up", "down"} \subseteq Places
    BY DEF Places
  <1>3. ProcMoves(w, {"up", "down"})
    BY <1>1, <1>2, ProcMove DEF ProcMoves
  <1> QED
    BY <1>3 DEF compose_operator_service, SwitchOrDefault

\* Registering a project leaves the registered ones alone.
LEMMA RegisterProjectEffect ==
    ASSUME TypeOK, NEW w \in Workers, NEW p \in Projects, RegisterProject(w, p)
    PROVE  /\ ProcMoves(w, {"down"})
           /\ regs' = [regs EXCEPT ![p] = IF @ = NoRegistration THEN 1 ELSE @]
           /\ UNCHANGED <<file, version, protocol, switch, crashes>>
  BY ProcMove DEF RegisterProject, Places

\* Every step preserves the types.
LEMMA TypeStep ==
    ASSUME TypeOK, Next
    PROVE  TypeOK'
  <1>1. CASE OriginalStarts
    BY <1>1, OriginalStartsEffect DEF TypeOK, startVars, dbVars, Store, Protocols
  <1>2. CASE OriginalMutates
    BY <1>2, OriginalMutatesEffect DEF TypeOK, startVars, dbVars
  <1>3. CASE OriginalReadsBack
    BY <1>3, OriginalReadsBackEffect DEF TypeOK, startVars, dbVars
  <1>4. CASE OriginalVerdict
    BY <1>4, OriginalVerdictEffect DEF TypeOK, startVars, dbVars, OrigGoes
  <1>5. CASE Confirm
    BY <1>5, ConfirmEffect DEF TypeOK, startVars, dbVars, RbGoes
  <1>6. CASE Capture
    BY <1>6, CaptureEffect DEF TypeOK, startVars, dbVars, RbGoes
  <1>7. CASE OtherUpdate
    BY <1>7, OtherUpdateEffect DEF TypeOK, startVars, dbVars
  <1>8. CASE Expire
    BY <1>8 DEF Expire, TypeOK, startVars, dbVars
  <1>9. CASE LeaseExpires
    BY <1>9, LeaseExpiresEffect DEF TypeOK, startVars, dbVars
  <1>10. CASE Switch
    BY <1>10 DEF Switch, Throw, TypeOK, startVars, dbVars, flowVars
  <1>11. ASSUME NEW w \in Workers, RequestRollback(w) PROVE TypeOK'
    BY <1>11, RequestRollbackEffect DEF TypeOK, startVars, dbVars, Moves
  <1>12. ASSUME NEW w \in Workers, NEW c \in AuthorizationContexts, Authorize(w, c)
        PROVE  TypeOK'
    BY <1>12, AuthorizeEffect DEF TypeOK, startVars, dbVars, Moves
  <1>13. ASSUME NEW w \in Workers, Register(w) PROVE TypeOK'
    BY <1>13, RegisterEffect DEF TypeOK, startVars, dbVars, Store, Protocols,
       Moves
  <1>14. ASSUME NEW w \in Workers, Reread(w) PROVE TypeOK'
    BY <1>14, RereadEffect DEF TypeOK, startVars, dbVars, Moves
  <1>15. ASSUME NEW w \in Workers, MarkRequested(w) PROVE TypeOK'
    BY <1>15, MarkRequestedEffect DEF TypeOK, startVars, dbVars, Moves, OrigGoes
  <1>16. ASSUME NEW w \in Workers, Load(w) PROVE TypeOK'
    BY <1>16, LoadEffect DEF TypeOK, startVars, dbVars, Moves
  <1>17. ASSUME NEW w \in Workers, AcquireLease(w) PROVE TypeOK'
    BY <1>17, AcquireLeaseEffect DEF TypeOK, startVars, dbVars, Moves, RbGoes
  <1>18. ASSUME NEW w \in Workers, Reload(w) PROVE TypeOK'
    BY <1>18, ReloadEffect DEF TypeOK, startVars, dbVars, Moves
  <1>19. ASSUME NEW w \in Workers, BuildContract(w) PROVE TypeOK'
    BY <1>19, BuildContractEffect DEF TypeOK, startVars, dbVars, Moves
  <1>20. ASSUME NEW w \in Workers, Gate(w) PROVE TypeOK'
    BY <1>20, GateEffect DEF TypeOK, startVars, dbVars, Moves
  <1>21. ASSUME NEW w \in Workers, Bind(w) PROVE TypeOK'
    BY <1>21, BindEffect DEF TypeOK, startVars, dbVars, Moves
  <1>22. ASSUME NEW w \in Workers, Begin(w) PROVE TypeOK'
    BY <1>22, BeginEffect DEF TypeOK, startVars, dbVars, Moves, RbGoes
  <1>23. ASSUME NEW w \in Workers, ReadPlan(w) PROVE TypeOK'
    BY <1>23, ReadPlanEffect DEF TypeOK, startVars, dbVars, Moves
  <1>24. ASSUME NEW w \in Workers, Mutate(w) PROVE TypeOK'
    <2>1. plan.by \in {"before", "own", "odd", "later"} /\ plan.rev + 1 \in Nat \ {0}
      BY DEF TypeOK, Plans
    <2>2. plan' \in Plans
      BY <1>24, <2>1, MutateEffect DEF TypeOK, Plans
    <2>3. undone' \in Seq({"before", "own", "odd", "later"})
      BY <1>24, <2>1, MutateEffect DEF TypeOK
    <2> QED
      BY <1>24, <2>2, <2>3, MutateEffect DEF TypeOK, startVars, dbVars, Moves
  <1>25. ASSUME NEW w \in Workers, ReadBack(w) PROVE TypeOK'
    BY <1>25, ReadBackEffect DEF TypeOK, startVars, dbVars, Moves
  <1>26. ASSUME NEW w \in Workers, Record(w) PROVE TypeOK'
    BY <1>26, RecordEffect DEF TypeOK, startVars, dbVars, Moves
  <1>27. ASSUME NEW w \in Workers, Close(w) PROVE TypeOK'
    BY <1>27, CloseEffect DEF TypeOK, startVars, dbVars, Moves, OrigGoes
  <1>28. ASSUME NEW w \in Workers, Release(w) PROVE TypeOK'
    BY <1>28, ReleaseEffect DEF TypeOK, startVars, dbVars, Moves
  <1>29. ASSUME NEW w \in Workers, Start(w), UNCHANGED flowVars
        PROVE  TypeOK'
    BY <1>29, StartEffect DEF TypeOK, startVars, dbVars, flowVars, ProcMoves
  <1>30. ASSUME NEW w \in Workers, prepare_filesystem(w), UNCHANGED flowVars
        PROVE  TypeOK'
    BY <1>30, PrepareEffect DEF TypeOK, startVars, dbVars, flowVars, ProcMoves
  <1>31. ASSUME NEW w \in Workers, MakePrivate(w), UNCHANGED flowVars
        PROVE  TypeOK'
    BY <1>31, MakePrivateEffect DEF TypeOK, startVars, dbVars, flowVars, ProcMoves
  <1>32. ASSUME NEW w \in Workers, ReadVersion(w), UNCHANGED flowVars
        PROVE  TypeOK'
    BY <1>32, ReadVersionEffect DEF TypeOK, startVars, dbVars, flowVars, ProcMoves
  <1>33. ASSUME NEW w \in Workers, ensure_schema(w), UNCHANGED flowVars
        PROVE  TypeOK'
    BY <1>33, EnsureSchemaEffect DEF TypeOK, startVars, dbVars, flowVars,
       ProcMoves, registration_v7, action_protocol_v8, Protocols, SCHEMA_VERSION,
       NoRegistration
  <1>34. ASSUME NEW w \in Workers, seed_kill_switch_defaults(w), UNCHANGED flowVars
        PROVE  TypeOK'
    BY <1>34, SeedEffect DEF TypeOK, startVars, dbVars, flowVars, ProcMoves
  <1>35. ASSUME NEW w \in Workers, compose_operator_service(w), UNCHANGED flowVars
        PROVE  TypeOK'
    BY <1>35, ComposeEffect DEF TypeOK, startVars, dbVars, flowVars, ProcMoves
  <1>36. ASSUME NEW w \in Workers, NEW p \in Projects, RegisterProject(w, p),
               UNCHANGED flowVars
        PROVE  TypeOK'
    BY <1>36, RegisterProjectEffect DEF TypeOK, startVars, dbVars, flowVars,
       ProcMoves, NoRegistration
  <1>37. ASSUME NEW w \in Workers, Crash(w) PROVE TypeOK'
    BY <1>37, CrashEffect DEF TypeOK, startVars, dbVars, Moves, ProcMoves
  <1> QED
    BY <1>1, <1>2, <1>3, <1>4, <1>5, <1>6, <1>7, <1>8, <1>9, <1>10, <1>11,
       <1>12, <1>13, <1>14, <1>15, <1>16, <1>17, <1>18, <1>19, <1>20, <1>21,
       <1>22, <1>23, <1>24, <1>25, <1>26, <1>27, <1>28, <1>29, <1>30, <1>31,
       <1>32, <1>33, <1>34, <1>35, <1>36, <1>37 DEF Next, Request, Execute,
       Opens, Open

-----------------------------------------------------------------------------
(* The invariant.                                                            *)

\* Most steps leave the database, the processes and the history alone.
LEMMA QuietSteps ==
    ASSUME Next
    PROVE  \/ UNCHANGED <<startVars, old>>
           \/ OriginalStarts \/ Switch
           \/ \E w \in Workers : Register(w) \/ Opens(w) \/ Crash(w)
  <1>1. ASSUME NEW w \in Workers, Request(w), ~Register(w)
        PROVE  UNCHANGED <<startVars, old>>
    BY <1>1 DEF Request, RequestRollback, Authorize, Reread, MarkRequested
  <1>2. ASSUME NEW w \in Workers, Execute(w)
        PROVE  UNCHANGED <<startVars, old>>
    BY <1>2 DEF Execute, Load, AcquireLease, Reload, BuildContract, Gate, Bind,
       Begin, ReadPlan, Mutate, ReadBack, Record, Close, Release
  <1>3. CASE OriginalMutates \/ OriginalReadsBack \/ OriginalVerdict \/ Confirm \/ Capture
                 \/ OtherUpdate \/ Expire \/ LeaseExpires
    BY <1>3 DEF OriginalMutates, OriginalReadsBack, OriginalVerdict, Confirm,
       Capture, OtherUpdate, Expire, LeaseExpires
  <1> QED
    BY <1>1, <1>2, <1>3 DEF Next

\* A row stored by a process that is up keeps the upgrade's invariant: it was not
\* there, the stamp is this version's, and the row has this version's protocol.
LEMMA StoreKeepsUpgrade ==
    ASSUME TypeOK, UpgradeInv, NEW a \in Actions, ~Stored(a), Store(a),
           NEW w \in Workers, Up(w), UNCHANGED <<version, proc, old>>
    PROVE  UpgradeInv'
  <1>1. a \notin old /\ version = SCHEMA_VERSION
    BY DEF UpgradeInv, Up, InProc
  <1>2. /\ protocol'[a] = "mc616d2-v1"
        /\ \A b \in Actions \ {a} : protocol'[b] = protocol[b]
    BY DEF TypeOK, Store
  <1>3. old \subseteq Actions
    BY DEF TypeOK
  <1>4. \A v \in Workers :
          /\ InProc(v, "schema")' =>
               version' # 9 /\ (version' \in {6, 7} => proc'[v].seen = version')
          /\ proc'[v].pc \in {"seed", "opened", "up"} => version' = SCHEMA_VERSION
    BY DEF UpgradeInv, InProc
  <1>5. \A b \in Actions : protocol'[b] = "unset" => version' \in {6, 7}
    BY <1>2 DEF UpgradeInv
  <1>6. \A b \in Actions : Stored(b)' /\ version' # 9 =>
          (b \in old' <=> protocol'[b] \in {"unset", "legacy-v1"})
    BY <1>1, <1>2 DEF UpgradeInv, Stored
  <1>7. \A b \in old' : Stored(b)'
    BY <1>1, <1>2, <1>3 DEF UpgradeInv, Stored
  <1> QED
    BY <1>4, <1>5, <1>6, <1>7 DEF UpgradeInv

\* Every step preserves what the processes rely on in the upgrade: a stamp is
\* never taken back, and no row without a protocol outlives it.
LEMMA UpgradeStep ==
    ASSUME TypeOK, UpgradeInv, RowsInv, Next
    PROVE  UpgradeInv'
  <1>1. CASE UNCHANGED <<startVars, old>>
    BY <1>1 DEF UpgradeInv, Stored, InProc, startVars, dbVars
  <1>2. CASE OriginalStarts
    <2>1. PICK w \in Workers : Up(w)
      BY <1>2 DEF OriginalStarts, SomeUp
    <2>2. ~Stored("orig") /\ Store("orig") /\ UNCHANGED <<version, proc, old>>
      BY <1>2, OriginalStartsEffect DEF RowsInv
    <2> QED
      BY <2>1, <2>2, StoreKeepsUpgrade, BoundsAssumption
  <1>3. CASE Switch
    BY <1>3 DEF UpgradeInv, Stored, InProc, startVars, dbVars, Switch, Throw,
       flowVars
  <1>4. ASSUME NEW w \in Workers, Register(w) PROVE UpgradeInv'
    <2>1. Up(w) /\ UNCHANGED <<version, proc, old>>
      BY <1>4, RegisterEffect DEF Register, At
    <2>2. CASE UNCHANGED protocol
      BY <2>1, <2>2 DEF UpgradeInv, Stored, InProc
    <2>3. CASE rb.state = ABSENT /\ Store("rb")
      BY <2>1, <2>3, StoreKeepsUpgrade, BoundsAssumption DEF RowsInv
    <2> QED
      BY <1>4, <2>2, <2>3, RegisterEffect
  <1>5. ASSUME NEW w \in Workers, Start(w), UNCHANGED flowVars
        PROVE  UpgradeInv'
    BY <1>5, StartEffect, BoundsAssumption DEF UpgradeInv, Stored, InProc,
       startVars, dbVars, flowVars, ProcMoves, SCHEMA_VERSION, TypeOK
  <1>6. ASSUME NEW w \in Workers, prepare_filesystem(w), UNCHANGED flowVars
        PROVE  UpgradeInv'
    BY <1>6, PrepareEffect, BoundsAssumption DEF UpgradeInv, Stored, InProc,
       startVars, dbVars, flowVars, ProcMoves, SCHEMA_VERSION, TypeOK
  <1>7. ASSUME NEW w \in Workers, MakePrivate(w), UNCHANGED flowVars
        PROVE  UpgradeInv'
    BY <1>7, MakePrivateEffect, BoundsAssumption DEF UpgradeInv, Stored, InProc,
       startVars, dbVars, flowVars, ProcMoves, SCHEMA_VERSION, TypeOK
  <1>8. ASSUME NEW w \in Workers, ReadVersion(w), UNCHANGED flowVars
        PROVE  UpgradeInv'
    BY <1>8, ReadVersionEffect, BoundsAssumption DEF UpgradeInv, Stored, InProc,
       startVars, dbVars, flowVars, ProcMoves, SCHEMA_VERSION, TypeOK
  <1>9. ASSUME NEW w \in Workers, ensure_schema(w), UNCHANGED flowVars
        PROVE  UpgradeInv'
    BY <1>9, EnsureSchemaEffect, BoundsAssumption DEF UpgradeInv, Stored, InProc,
       startVars, dbVars, flowVars, ProcMoves, action_protocol_v8, SCHEMA_VERSION,
       TypeOK
  <1>10. ASSUME NEW w \in Workers, seed_kill_switch_defaults(w), UNCHANGED flowVars
        PROVE  UpgradeInv'
    BY <1>10, SeedEffect, BoundsAssumption DEF UpgradeInv, Stored, InProc,
       startVars, dbVars, flowVars, ProcMoves, SCHEMA_VERSION, TypeOK
  <1>11. ASSUME NEW w \in Workers, compose_operator_service(w), UNCHANGED flowVars
        PROVE  UpgradeInv'
    BY <1>11, ComposeEffect, BoundsAssumption DEF UpgradeInv, Stored, InProc,
       startVars, dbVars, flowVars, ProcMoves, SCHEMA_VERSION, TypeOK
  <1>12. ASSUME NEW w \in Workers, NEW p \in Projects, RegisterProject(w, p),
               UNCHANGED flowVars
        PROVE  UpgradeInv'
    BY <1>12, RegisterProjectEffect, BoundsAssumption DEF UpgradeInv, Stored,
       InProc, startVars, dbVars, flowVars, ProcMoves, SCHEMA_VERSION, TypeOK
  <1>13. ASSUME NEW w \in Workers, Crash(w) PROVE UpgradeInv'
    BY <1>13, CrashEffect DEF UpgradeInv, Stored, InProc, startVars, dbVars,
       ProcMoves
  <1> QED
    BY <1>1, <1>2, <1>3, <1>4, <1>5, <1>6, <1>7, <1>8, <1>9, <1>10, <1>11,
       <1>12, <1>13, QuietSteps DEF Opens, Open

\* Every step preserves that a row has a state exactly when it is stored.
LEMMA RowsStep ==
    ASSUME TypeOK, RowsInv, VerdictInv, Next
    PROVE  RowsInv'
  <1>1. CASE OriginalStarts
    BY <1>1, OriginalStartsEffect, BoundsAssumption DEF RowsInv, Stored,
       startVars, dbVars, Store, TypeOK, ABSENT
  <1>2. CASE OriginalMutates
    BY <1>2, OriginalMutatesEffect, RowStateNames DEF RowsInv, Stored, startVars,
       dbVars
  <1>3. CASE OriginalReadsBack
    BY <1>3, OriginalReadsBackEffect, RowStateNames DEF RowsInv, Stored,
       startVars, dbVars
  <1>4. CASE OriginalVerdict
    BY <1>4, OriginalVerdictEffect, RowStateNames DEF RowsInv, Stored, startVars,
       dbVars, OrigGoes
  <1>5. CASE Confirm
    BY <1>5, ConfirmEffect, RowStateNames DEF RowsInv, Stored, startVars, dbVars,
       RbGoes
  <1>6. CASE Capture
    BY <1>6, CaptureEffect, RowStateNames DEF RowsInv, Stored, startVars, dbVars,
       RbGoes
  <1>7. CASE OtherUpdate
    BY <1>7, OtherUpdateEffect, RowStateNames DEF RowsInv, Stored, startVars,
       dbVars
  <1>8. CASE Expire
    BY <1>8 DEF RowsInv, Stored, startVars, dbVars, Expire
  <1>9. CASE LeaseExpires
    BY <1>9, LeaseExpiresEffect, RowStateNames DEF RowsInv, Stored, startVars,
       dbVars
  <1>10. CASE Switch
    BY <1>10 DEF RowsInv, Stored, startVars, dbVars, Switch, Throw, flowVars
  <1>11. ASSUME NEW w \in Workers, RequestRollback(w) PROVE RowsInv'
    BY <1>11, RequestRollbackEffect, RowStateNames DEF RowsInv, Stored, startVars,
       dbVars, Moves
  <1>12. ASSUME NEW w \in Workers, NEW c \in AuthorizationContexts, Authorize(w, c)
        PROVE  RowsInv'
    BY <1>12, AuthorizeEffect, RowStateNames DEF RowsInv, Stored, startVars,
       dbVars, Moves
  <1>13. ASSUME NEW w \in Workers, Register(w) PROVE RowsInv'
    BY <1>13, RegisterEffect, BoundsAssumption DEF RowsInv, Stored, startVars,
       dbVars, Store, TypeOK, ABSENT
  <1>14. ASSUME NEW w \in Workers, Reread(w) PROVE RowsInv'
    BY <1>14, RereadEffect, RowStateNames DEF RowsInv, Stored, startVars, dbVars,
       Moves
  <1>15. ASSUME NEW w \in Workers, MarkRequested(w) PROVE RowsInv'
    BY <1>15, MarkRequestedEffect, RowStateNames DEF RowsInv, Stored, startVars,
       dbVars, OrigGoes, Failed
  <1>16. ASSUME NEW w \in Workers, Load(w) PROVE RowsInv'
    BY <1>16, LoadEffect, RowStateNames DEF RowsInv, Stored, startVars, dbVars,
       Moves
  <1>17. ASSUME NEW w \in Workers, AcquireLease(w) PROVE RowsInv'
    BY <1>17, AcquireLeaseEffect, RowStateNames DEF RowsInv, Stored, startVars,
       dbVars, Moves, RbGoes
  <1>18. ASSUME NEW w \in Workers, Reload(w) PROVE RowsInv'
    BY <1>18, ReloadEffect, RowStateNames DEF RowsInv, Stored, startVars, dbVars,
       Moves
  <1>19. ASSUME NEW w \in Workers, BuildContract(w) PROVE RowsInv'
    BY <1>19, BuildContractEffect, RowStateNames DEF RowsInv, Stored, startVars,
       dbVars, Moves
  <1>20. ASSUME NEW w \in Workers, Gate(w) PROVE RowsInv'
    BY <1>20, GateEffect, RowStateNames DEF RowsInv, Stored, startVars, dbVars,
       Moves
  <1>21. ASSUME NEW w \in Workers, Bind(w) PROVE RowsInv'
    BY <1>21, BindEffect, RowStateNames DEF RowsInv, Stored, startVars, dbVars,
       Moves
  <1>22. ASSUME NEW w \in Workers, Begin(w) PROVE RowsInv'
    BY <1>22, BeginEffect, RowStateNames DEF RowsInv, Stored, startVars, dbVars,
       Moves, RbGoes
  <1>23. ASSUME NEW w \in Workers, ReadPlan(w) PROVE RowsInv'
    BY <1>23, ReadPlanEffect, RowStateNames DEF RowsInv, Stored, startVars,
       dbVars, Moves
  <1>24. ASSUME NEW w \in Workers, Mutate(w) PROVE RowsInv'
    BY <1>24, MutateEffect, RowStateNames DEF RowsInv, Stored, startVars, dbVars
  <1>25. ASSUME NEW w \in Workers, ReadBack(w) PROVE RowsInv'
    BY <1>25, ReadBackEffect, RowStateNames DEF RowsInv, Stored, startVars,
       dbVars, Moves
  <1>26. ASSUME NEW w \in Workers, Record(w) PROVE RowsInv'
    BY <1>26, RecordEffect, RowStateNames DEF RowsInv, Stored, startVars, dbVars,
       VerdictInv
  <1>27. ASSUME NEW w \in Workers, Close(w) PROVE RowsInv'
    BY <1>27, CloseEffect, RowStateNames DEF RowsInv, Stored, startVars, dbVars,
       OrigGoes, Closed
  <1>28. ASSUME NEW w \in Workers, Release(w) PROVE RowsInv'
    BY <1>28, ReleaseEffect, RowStateNames DEF RowsInv, Stored, startVars, dbVars,
       Moves
  <1>29. ASSUME NEW w \in Workers, Start(w), UNCHANGED flowVars
        PROVE  RowsInv'
    BY <1>29, StartEffect DEF RowsInv, Stored, startVars, dbVars, flowVars
  <1>30. ASSUME NEW w \in Workers, prepare_filesystem(w), UNCHANGED flowVars
        PROVE  RowsInv'
    BY <1>30, PrepareEffect DEF RowsInv, Stored, startVars, dbVars, flowVars
  <1>31. ASSUME NEW w \in Workers, MakePrivate(w), UNCHANGED flowVars
        PROVE  RowsInv'
    BY <1>31, MakePrivateEffect DEF RowsInv, Stored, startVars, dbVars, flowVars
  <1>32. ASSUME NEW w \in Workers, ReadVersion(w), UNCHANGED flowVars
        PROVE  RowsInv'
    BY <1>32, ReadVersionEffect DEF RowsInv, Stored, startVars, dbVars, flowVars
  <1>33. ASSUME NEW w \in Workers, ensure_schema(w), UNCHANGED flowVars
        PROVE  RowsInv'
    BY <1>33, EnsureSchemaEffect, BoundsAssumption DEF RowsInv, Stored, startVars,
       dbVars, flowVars, TypeOK, action_protocol_v8
  <1>34. ASSUME NEW w \in Workers, seed_kill_switch_defaults(w), UNCHANGED flowVars
        PROVE  RowsInv'
    BY <1>34, SeedEffect DEF RowsInv, Stored, startVars, dbVars, flowVars
  <1>35. ASSUME NEW w \in Workers, compose_operator_service(w), UNCHANGED flowVars
        PROVE  RowsInv'
    BY <1>35, ComposeEffect DEF RowsInv, Stored, startVars, dbVars, flowVars
  <1>36. ASSUME NEW w \in Workers, NEW p \in Projects, RegisterProject(w, p),
               UNCHANGED flowVars
        PROVE  RowsInv'
    BY <1>36, RegisterProjectEffect DEF RowsInv, Stored, startVars, dbVars,
       flowVars
  <1>37. ASSUME NEW w \in Workers, Crash(w) PROVE RowsInv'
    BY <1>37, CrashEffect DEF RowsInv, Stored, startVars, dbVars
  <1> QED
    BY <1>1, <1>2, <1>3, <1>4, <1>5, <1>6, <1>7, <1>8, <1>9, <1>10, <1>11,
       <1>12, <1>13, <1>14, <1>15, <1>16, <1>17, <1>18, <1>19, <1>20, <1>21,
       <1>22, <1>23, <1>24, <1>25, <1>26, <1>27, <1>28, <1>29, <1>30, <1>31,
       <1>32, <1>33, <1>34, <1>35, <1>36, <1>37 DEF Next, Request, Execute,
       Opens, Open

\* Every step preserves what the plan's revision says of the mutations so far.
LEMMA PlanStep ==
    ASSUME TypeOK, PlanInv, FailedInv, Next
    PROVE  PlanInv'
  <1>1. CASE OriginalStarts
    BY <1>1, OriginalStartsEffect DEF PlanInv
  <1>2. CASE OriginalMutates
    <2>1. undone = << >>
      BY <1>2, OriginalMutatesEffect DEF FailedInv, Undoable, Failed
    <2> QED
      BY <1>2, <2>1, OriginalMutatesEffect, RowStateNames DEF PlanInv, TypeOK
  <1>3. CASE OriginalReadsBack
    BY <1>3, OriginalReadsBackEffect DEF PlanInv
  <1>4. CASE OriginalVerdict
    BY <1>4, OriginalVerdictEffect, RowStateNames DEF PlanInv, OrigGoes
  <1>5. CASE Confirm
    BY <1>5, ConfirmEffect DEF PlanInv
  <1>6. CASE Capture
    BY <1>6, CaptureEffect DEF PlanInv
  <1>7. CASE OtherUpdate
    BY <1>7, OtherUpdateEffect DEF PlanInv, TypeOK, Plans
  <1>8. CASE Expire
    BY <1>8 DEF PlanInv, Expire
  <1>9. CASE LeaseExpires
    BY <1>9, LeaseExpiresEffect DEF PlanInv
  <1>10. ASSUME NEW w \in Workers, RequestRollback(w) PROVE PlanInv'
    BY <1>10, RequestRollbackEffect DEF PlanInv, Moves
  <1>11. ASSUME NEW w \in Workers, NEW c \in AuthorizationContexts, Authorize(w, c)
        PROVE  PlanInv'
    BY <1>11, AuthorizeEffect DEF PlanInv, Moves
  <1>12. ASSUME NEW w \in Workers, Register(w) PROVE PlanInv'
    BY <1>12, RegisterEffect DEF PlanInv, Moves
  <1>13. ASSUME NEW w \in Workers, Reread(w) PROVE PlanInv'
    BY <1>13, RereadEffect DEF PlanInv, Moves
  <1>14. ASSUME NEW w \in Workers, MarkRequested(w) PROVE PlanInv'
    BY <1>14, MarkRequestedEffect, RowStateNames DEF PlanInv, Moves, OrigGoes,
       Failed
  <1>15. ASSUME NEW w \in Workers, Load(w) PROVE PlanInv'
    BY <1>15, LoadEffect DEF PlanInv, Moves
  <1>16. ASSUME NEW w \in Workers, AcquireLease(w) PROVE PlanInv'
    BY <1>16, AcquireLeaseEffect DEF PlanInv, Moves
  <1>17. ASSUME NEW w \in Workers, Reload(w) PROVE PlanInv'
    BY <1>17, ReloadEffect DEF PlanInv, Moves
  <1>18. ASSUME NEW w \in Workers, BuildContract(w) PROVE PlanInv'
    BY <1>18, BuildContractEffect DEF PlanInv, Moves
  <1>19. ASSUME NEW w \in Workers, Gate(w) PROVE PlanInv'
    BY <1>19, GateEffect DEF PlanInv, Moves
  <1>20. ASSUME NEW w \in Workers, Bind(w) PROVE PlanInv'
    BY <1>20, BindEffect DEF PlanInv, Moves
  <1>21. ASSUME NEW w \in Workers, Begin(w) PROVE PlanInv'
    BY <1>21, BeginEffect DEF PlanInv, Moves
  <1>22. ASSUME NEW w \in Workers, ReadPlan(w) PROVE PlanInv'
    BY <1>22, ReadPlanEffect DEF PlanInv, Moves
  <1>23. ASSUME NEW w \in Workers, Mutate(w) PROVE PlanInv'
    <2>1. CASE UNCHANGED <<plan, undone>>
      BY <1>23, <2>1, MutateEffect DEF PlanInv, Moves
    <2>2. CASE /\ Moves(w, {"read_back"})
               /\ plan.rev = job[w].seen.rev
               /\ plan' = [rev |-> plan.rev + 1, by |-> "before"]
               /\ undone' = Append(undone, plan.by)
      <3>1. /\ plan.rev = 2 /\ plan.by \in {"own", "odd"} /\ plan'.rev = 3
            /\ orig' = orig
        <4>1. job[w].pc = "mutate" /\ orig' = orig
          BY <1>23, MutateEffect
        <4>2. orig.state \in Undoable
          BY <4>1 DEF FailedInv, Executing
        <4>3. orig.state \notin {ABSENT, "RUNNING"}
          BY <4>2, RowStateNames DEF Undoable, Failed
        <4> QED
          BY <2>2, <4>1, <4>3 DEF PlanInv
      <3>2. undone = << >>
        BY <3>1 DEF PlanInv
      <3>3. undone' = <<plan.by>>
        BY <2>2, <3>2
      <3> QED
        BY <2>2, <3>1, <3>3 DEF PlanInv, Moves
    <2> QED
      BY <1>23, <2>1, <2>2, MutateEffect
  <1>24. ASSUME NEW w \in Workers, ReadBack(w) PROVE PlanInv'
    BY <1>24, ReadBackEffect DEF PlanInv, Moves
  <1>25. ASSUME NEW w \in Workers, Record(w) PROVE PlanInv'
    BY <1>25, RecordEffect DEF PlanInv, Moves
  <1>26. ASSUME NEW w \in Workers, Close(w) PROVE PlanInv'
    BY <1>26, CloseEffect, RowStateNames DEF PlanInv, Moves, OrigGoes, Closed
  <1>27. ASSUME NEW w \in Workers, Release(w) PROVE PlanInv'
    BY <1>27, ReleaseEffect DEF PlanInv, Moves
  <1>28. ASSUME NEW w \in Workers, Crash(w) PROVE PlanInv'
    BY <1>28, CrashEffect DEF PlanInv, Moves
  <1>29. CASE UNCHANGED flowVars
    BY <1>29 DEF PlanInv, flowVars
  <1> QED
    BY <1>1, <1>2, <1>3, <1>4, <1>5, <1>6, <1>7, <1>8, <1>9, <1>10, <1>11,
       <1>12, <1>13, <1>14, <1>15, <1>16, <1>17, <1>18, <1>19, <1>20, <1>21,
       <1>22, <1>23, <1>24, <1>25, <1>26, <1>27, <1>28, <1>29 DEF Next, Request,
       Execute, Opens, Switch

\* Every step preserves that only failed originals are rolled back, and none by a
\* rollback of an earlier version.
LEMMA FailedStep ==
    ASSUME TypeOK, UpgradeInv, FailedInv, Next
    PROVE  FailedInv'
  <1>1. CASE OriginalStarts
    BY <1>1, OriginalStartsEffect, RowStateNames DEF FailedInv, Executing,
       PastGate, Restored, Undoable, Failed
  <1>2. CASE OriginalMutates
    BY <1>2, OriginalMutatesEffect DEF FailedInv, Executing, PastGate, Restored,
       Undoable, Failed
  <1>3. CASE OriginalReadsBack
    BY <1>3, OriginalReadsBackEffect DEF FailedInv, Executing, PastGate, Restored
  <1>4. CASE OriginalVerdict
    BY <1>4, OriginalVerdictEffect DEF FailedInv, Executing, PastGate, Restored,
       OrigGoes, Undoable, Failed
  <1>5. CASE Confirm
    BY <1>5, ConfirmEffect DEF FailedInv, Executing, PastGate, Restored
  <1>6. CASE Capture
    BY <1>6, CaptureEffect DEF FailedInv, Executing, PastGate, Restored
  <1>7. CASE OtherUpdate
    BY <1>7, OtherUpdateEffect DEF FailedInv, Executing, PastGate, Restored
  <1>8. CASE Expire
    BY <1>8 DEF FailedInv, Executing, PastGate, Restored, Expire
  <1>9. CASE LeaseExpires
    BY <1>9, LeaseExpiresEffect DEF FailedInv, Executing, PastGate, Restored
  <1>10. ASSUME NEW w \in Workers, RequestRollback(w) PROVE FailedInv'
    BY <1>10, RequestRollbackEffect DEF FailedInv, Executing, PastGate, Restored,
       Moves
  <1>11. ASSUME NEW w \in Workers, NEW c \in AuthorizationContexts, Authorize(w, c)
        PROVE  FailedInv'
    BY <1>11, AuthorizeEffect DEF FailedInv, Executing, PastGate, Restored, Moves
  <1>12. ASSUME NEW w \in Workers, Register(w) PROVE FailedInv'
    BY <1>12, RegisterEffect DEF FailedInv, Executing, PastGate, Restored, Moves
  <1>13. ASSUME NEW w \in Workers, Reread(w) PROVE FailedInv'
    BY <1>13, RereadEffect DEF FailedInv, Executing, PastGate, Restored, Moves
  <1>14. ASSUME NEW w \in Workers, MarkRequested(w) PROVE FailedInv'
    BY <1>14, MarkRequestedEffect DEF FailedInv, Executing, PastGate, Restored,
       Moves, OrigGoes, Undoable
  <1>15. ASSUME NEW w \in Workers, Load(w) PROVE FailedInv'
    BY <1>15, LoadEffect DEF FailedInv, Executing, PastGate, Restored, Moves,
       Eligible, Undoable
  <1>16. ASSUME NEW w \in Workers, AcquireLease(w) PROVE FailedInv'
    BY <1>16, AcquireLeaseEffect DEF FailedInv, Executing, PastGate, Restored,
       Moves, AcquireLease, At
  <1>17. ASSUME NEW w \in Workers, Reload(w) PROVE FailedInv'
    BY <1>17, ReloadEffect DEF FailedInv, Executing, PastGate, Restored, Moves
  <1>18. ASSUME NEW w \in Workers, BuildContract(w) PROVE FailedInv'
    BY <1>18, BuildContractEffect DEF FailedInv, Executing, PastGate, Restored,
       Moves
  <1>19. ASSUME NEW w \in Workers, Gate(w) PROVE FailedInv'
    <2>1. "rb" \in Actions /\ version = SCHEMA_VERSION
      BY <1>19, GateEffect, BoundsAssumption DEF UpgradeInv, Up, InProc
    <2>2. protocol["rb"] # "unset" /\ version # 9
      BY <2>1 DEF UpgradeInv, SCHEMA_VERSION
    <2>3. protocol["rb"] # "legacy-v1" => "rb" \notin old
      BY <2>1, <2>2 DEF UpgradeInv
    <2> QED
      BY <1>19, <2>3, GateEffect DEF FailedInv, Executing, PastGate, Restored,
         Moves
  <1>20. ASSUME NEW w \in Workers, Bind(w) PROVE FailedInv'
    BY <1>20, BindEffect DEF FailedInv, Executing, PastGate, Restored, Moves
  <1>21. ASSUME NEW w \in Workers, Begin(w) PROVE FailedInv'
    BY <1>21, BeginEffect DEF FailedInv, Executing, PastGate, Restored, Moves
  <1>22. ASSUME NEW w \in Workers, ReadPlan(w) PROVE FailedInv'
    BY <1>22, ReadPlanEffect DEF FailedInv, Executing, PastGate, Restored, Moves
  <1>23. ASSUME NEW w \in Workers, Mutate(w) PROVE FailedInv'
    BY <1>23, MutateEffect DEF FailedInv, Executing, PastGate, Restored, Moves
  <1>24. ASSUME NEW w \in Workers, ReadBack(w) PROVE FailedInv'
    BY <1>24, ReadBackEffect DEF FailedInv, Executing, PastGate, Restored, Moves
  <1>25. ASSUME NEW w \in Workers, Record(w) PROVE FailedInv'
    BY <1>25, RecordEffect DEF FailedInv, Executing, PastGate, Restored, Moves
  <1>26. ASSUME NEW w \in Workers, Close(w) PROVE FailedInv'
    BY <1>26, CloseEffect DEF FailedInv, Executing, PastGate, Restored, Moves,
       OrigGoes, Closed, Undoable
  <1>27. ASSUME NEW w \in Workers, Release(w) PROVE FailedInv'
    BY <1>27, ReleaseEffect DEF FailedInv, Executing, PastGate, Restored, Moves,
       Release, At
  <1>28. ASSUME NEW w \in Workers, Crash(w) PROVE FailedInv'
    BY <1>28, CrashEffect DEF FailedInv, Executing, PastGate, Restored, Moves
  <1>29. CASE UNCHANGED flowVars
    BY <1>29 DEF FailedInv, flowVars
  <1> QED
    BY <1>1, <1>2, <1>3, <1>4, <1>5, <1>6, <1>7, <1>8, <1>9, <1>10, <1>11,
       <1>12, <1>13, <1>14, <1>15, <1>16, <1>17, <1>18, <1>19, <1>20, <1>21,
       <1>22, <1>23, <1>24, <1>25, <1>26, <1>27, <1>28, <1>29 DEF Next, Request,
       Execute, Opens, Switch

\* Every step preserves that the verdicts agree.
LEMMA VerdictStep ==
    ASSUME TypeOK, FailedInv, VerdictInv, Next
    PROVE  VerdictInv'
  <1>1. CASE OriginalStarts
    BY <1>1, OriginalStartsEffect DEF VerdictInv, VerdictsAgree
  <1>2. CASE OriginalMutates
    BY <1>2, OriginalMutatesEffect DEF VerdictInv, VerdictsAgree
  <1>3. CASE OriginalReadsBack
    BY <1>3, OriginalReadsBackEffect DEF VerdictInv, VerdictsAgree
  <1>4. CASE OriginalVerdict
    BY <1>4, OriginalVerdictEffect DEF VerdictInv, VerdictsAgree, OrigGoes
  <1>5. CASE Confirm
    BY <1>5, ConfirmEffect DEF VerdictInv, VerdictsAgree, RbGoes
  <1>6. CASE Capture
    BY <1>6, CaptureEffect DEF VerdictInv, VerdictsAgree, RbGoes
  <1>7. CASE OtherUpdate
    BY <1>7, OtherUpdateEffect DEF VerdictInv, VerdictsAgree
  <1>8. CASE Expire
    BY <1>8 DEF VerdictInv, VerdictsAgree, Expire
  <1>9. CASE LeaseExpires
    BY <1>9, LeaseExpiresEffect DEF VerdictInv, VerdictsAgree
  <1>10. ASSUME NEW w \in Workers, RequestRollback(w) PROVE VerdictInv'
    BY <1>10, RequestRollbackEffect DEF VerdictInv, VerdictsAgree, Moves
  <1>11. ASSUME NEW w \in Workers, NEW c \in AuthorizationContexts, Authorize(w, c)
        PROVE  VerdictInv'
    BY <1>11, AuthorizeEffect DEF VerdictInv, VerdictsAgree, Moves
  <1>12. ASSUME NEW w \in Workers, Register(w) PROVE VerdictInv'
    BY <1>12, RegisterEffect, RowStateNames DEF VerdictInv, VerdictsAgree, Moves
  <1>13. ASSUME NEW w \in Workers, Reread(w) PROVE VerdictInv'
    BY <1>13, RereadEffect DEF VerdictInv, VerdictsAgree, Moves
  <1>14. ASSUME NEW w \in Workers, MarkRequested(w) PROVE VerdictInv'
    BY <1>14, MarkRequestedEffect DEF VerdictInv, VerdictsAgree, Moves, OrigGoes
  <1>15. ASSUME NEW w \in Workers, Load(w) PROVE VerdictInv'
    BY <1>15, LoadEffect DEF VerdictInv, VerdictsAgree, Moves
  <1>16. ASSUME NEW w \in Workers, AcquireLease(w) PROVE VerdictInv'
    BY <1>16, AcquireLeaseEffect DEF VerdictInv, VerdictsAgree, Moves, RbGoes
  <1>17. ASSUME NEW w \in Workers, Reload(w) PROVE VerdictInv'
    BY <1>17, ReloadEffect DEF VerdictInv, VerdictsAgree, Moves
  <1>18. ASSUME NEW w \in Workers, BuildContract(w) PROVE VerdictInv'
    BY <1>18, BuildContractEffect DEF VerdictInv, VerdictsAgree, Moves
  <1>19. ASSUME NEW w \in Workers, Gate(w) PROVE VerdictInv'
    BY <1>19, GateEffect DEF VerdictInv, VerdictsAgree, Moves
  <1>20. ASSUME NEW w \in Workers, Bind(w) PROVE VerdictInv'
    BY <1>20, BindEffect DEF VerdictInv, VerdictsAgree, Moves
  <1>21. ASSUME NEW w \in Workers, Begin(w) PROVE VerdictInv'
    BY <1>21, BeginEffect DEF VerdictInv, VerdictsAgree, Moves, RbGoes
  <1>22. ASSUME NEW w \in Workers, ReadPlan(w) PROVE VerdictInv'
    BY <1>22, ReadPlanEffect DEF VerdictInv, VerdictsAgree, Moves
  <1>23. ASSUME NEW w \in Workers, Mutate(w) PROVE VerdictInv'
    <2>1. undone' # << >> \/ undone' = undone
      BY <1>23, MutateEffect DEF TypeOK
    <2> QED
      BY <1>23, <2>1, MutateEffect DEF VerdictInv, VerdictsAgree, Moves
  <1>24. ASSUME NEW w \in Workers, ReadBack(w) PROVE VerdictInv'
    BY <1>24, ReadBackEffect DEF VerdictInv, VerdictsAgree, Moves
  <1>25. ASSUME NEW w \in Workers, Record(w) PROVE VerdictInv'
    BY <1>25, RecordEffect DEF VerdictInv, VerdictsAgree, Moves
  <1>26. ASSUME NEW w \in Workers, Close(w) PROVE VerdictInv'
    <2>1. job[w].verdict \in {"VERIFIED_SUCCESS", "VERIFICATION_FAILED"} /\ rb.state = job[w].verdict
      BY <1>26, CloseEffect DEF VerdictInv
    <2>2. undone # << >>
      BY <1>26, CloseEffect DEF FailedInv, Restored
    <2> QED
      BY <1>26, <2>1, <2>2, CloseEffect DEF VerdictInv, VerdictsAgree, Moves,
         OrigGoes, Closed
  <1>27. ASSUME NEW w \in Workers, Release(w) PROVE VerdictInv'
    BY <1>27, ReleaseEffect DEF VerdictInv, VerdictsAgree, Moves
  <1>28. ASSUME NEW w \in Workers, Crash(w) PROVE VerdictInv'
    BY <1>28, CrashEffect DEF VerdictInv, VerdictsAgree, Moves
  <1>29. CASE UNCHANGED flowVars
    BY <1>29 DEF VerdictInv, VerdictsAgree, flowVars
  <1> QED
    BY <1>1, <1>2, <1>3, <1>4, <1>5, <1>6, <1>7, <1>8, <1>9, <1>10, <1>11,
       <1>12, <1>13, <1>14, <1>15, <1>16, <1>17, <1>18, <1>19, <1>20, <1>21,
       <1>22, <1>23, <1>24, <1>25, <1>26, <1>27, <1>28, <1>29 DEF Next, Request,
       Execute, Opens, Switch

\* The invariant holds on every database the first process may find.
LEMMA InitInv == Init => IInv
  <1> SUFFICES ASSUME Init PROVE IInv
    OBVIOUS
  <1>1. /\ job = [w \in Workers |-> IdleJob] /\ undone = << >> /\ expired = {}
        /\ proc = [w \in Workers |-> Down] /\ crashes = 0
    BY DEF Init, StartInit
  <1>2. job \in [Workers -> Jobs] /\ \A w \in Workers : job[w].pc = "idle"
    BY <1>1, IdleIsJob
  <1>3. proc \in [Workers -> Procs] /\ \A w \in Workers : proc[w].pc = "down"
    BY <1>1 DEF Procs, Places, Down
  <1>4. SnapshotOfOriginal \in Plans /\ ABSENT \in RowStates
    BY DEF SnapshotOfOriginal, Plans, RowStates
  <1>5. NoRow \in Rollbacks /\ NoRow.state = ABSENT
    BY <1>4 DEF NoRow, Rollbacks
  <1>6. NoOriginal \in Originals /\ NoOriginal.state = ABSENT
    BY <1>4 DEF NoOriginal, Originals
  <1>7. CASE AbsentDatabase /\ old = {} /\ plan = SnapshotOfOriginal
                /\ orig = NoOriginal /\ rb = NoRow
    <2>1. TypeOK
      BY <1>1, <1>2, <1>3, <1>4, <1>5, <1>6, <1>7 DEF TypeOK, AbsentDatabase,
         Protocols, NoRegistration
    <2>2. UpgradeInv
      BY <1>3, <1>7 DEF UpgradeInv, AbsentDatabase, InProc, Stored
    <2>3. RowsInv
      BY <1>5, <1>6, <1>7, BoundsAssumption DEF RowsInv, AbsentDatabase, Stored
    <2>4. PlanInv
      BY <1>1, <1>2, <1>6, <1>7 DEF PlanInv, SnapshotOfOriginal
    <2>5. FailedInv
      BY <1>1, <1>2 DEF FailedInv, Executing, PastGate, Restored
    <2>6. VerdictInv
      BY <1>2, <1>6, <1>7, RowStateNames DEF VerdictInv, VerdictsAgree
    <2> QED
      BY <2>1, <2>2, <2>3, <2>4, <2>5, <2>6 DEF IInv
  <1>8. ASSUME NEW v \in {6, 7, 9}, old \in {{"orig"}, {"orig", "rb"}}, OldOriginal,
               rb = IF "rb" \in old THEN OldRollback ELSE NoRow, StoredDatabase(v, old)
        PROVE  IInv
    <2>1. plan \in Plans /\ plan.rev = 2 /\ plan.by = "odd"
      BY <1>8 DEF OldOriginal, Plans
    <2>2. orig \in Originals /\ orig.state \in {"VERIFICATION_FAILED", "ROLLBACK_REQUESTED"}
      BY <1>8, <2>1, RowStateNames DEF OldOriginal, Originals
    <2>3. OldRollback \in Rollbacks /\ OldRollback.state = "SNAPSHOT_CAPTURED"
      BY <1>5, <2>1, RowStateNames DEF OldRollback, Rollbacks
    <2>4. rb \in Rollbacks /\ rb.state = IF "rb" \in old THEN "SNAPSHOT_CAPTURED" ELSE ABSENT
      BY <1>5, <1>8, <2>3
    <2>5. old \subseteq Actions
      BY <1>8, BoundsAssumption
    <2>6. /\ file = "private" /\ version = v
          /\ protocol \in [Actions -> Protocols]
          /\ \A a \in Actions : protocol[a] =
                 IF a \notin old THEN "absent" ELSE IF v < 8 THEN "unset" ELSE "mc616d2-v1"
          /\ regs \in [Projects -> {NoRegistration, 0, 1}]
          /\ switch \in {"engaged", "disengaged"}
      BY <1>8 DEF StoredDatabase, Protocols
    <2>7. TypeOK
      BY <1>1, <1>2, <1>3, <2>1, <2>2, <2>4, <2>5, <2>6 DEF TypeOK, SCHEMA_VERSION
    <2>8. UpgradeInv
      BY <1>3, <2>5, <2>6 DEF UpgradeInv, InProc, Stored
    <2>9. RowsInv
      BY <1>8, <2>2, <2>4, <2>6, RowStateNames, BoundsAssumption DEF RowsInv,
         Stored
    <2>10. PlanInv
      BY <1>1, <1>2, <2>1, <2>2, RowStateNames DEF PlanInv
    <2>11. FailedInv
      BY <1>1, <1>2 DEF FailedInv, Executing, PastGate, Restored
    <2>12. VerdictInv
      BY <1>2, <2>2 DEF VerdictInv, VerdictsAgree
    <2> QED
      BY <2>7, <2>8, <2>9, <2>10, <2>11, <2>12 DEF IInv
  <1> QED
    BY <1>7, <1>8 DEF Init

\* A stuttering step preserves the invariant.
LEMMA StutterInv ==
    ASSUME IInv, UNCHANGED vars
    PROVE  IInv'
  <1>1. TypeOK'
    BY DEF IInv, TypeOK, vars, flowVars, startVars, dbVars
  <1>2. UpgradeInv' /\ RowsInv'
    BY DEF IInv, UpgradeInv, RowsInv, Stored, InProc, vars, flowVars, startVars,
       dbVars
  <1>3. PlanInv' /\ FailedInv'
    BY DEF IInv, PlanInv, FailedInv, vars, flowVars
  <1>4. VerdictInv'
    BY DEF IInv, VerdictInv, VerdictsAgree, vars, flowVars
  <1> QED
    BY <1>1, <1>2, <1>3, <1>4 DEF IInv

\* So does every step.
LEMMA NextInv == IInv /\ [Next]_vars => IInv'
  <1>1. ASSUME IInv, Next PROVE IInv'
    BY <1>1, TypeStep, UpgradeStep, RowsStep, PlanStep, FailedStep, VerdictStep
       DEF IInv
  <1> QED
    BY <1>1, StutterInv

-----------------------------------------------------------------------------
(* The theorems.                                                             *)

\* In every reachable state, whatever the processes, the crashes, the other
\* actions and the database they start on, the rows, the plan and the jobs have
\* their types and agree as IInv says.
THEOREM RollbackInvariance == Spec => []IInv
  <1>1. Init => IInv
    BY InitInv
  <1>2. IInv /\ [Next]_vars => IInv'
    BY NextInv
  <1> QED
    BY <1>1, <1>2, PTL DEF Spec

\* A restore replaces the original's own failed mutation, at most once, and never
\* what another action wrote: execute_rollback's check of the revision and the
\* check in the transaction are together enough.
THEOREM RestoresAreSafe == Spec => []UndoesOnlyTheFailed
  <1>1. IInv => UndoesOnlyTheFailed
    BY DEF IInv, PlanInv, FailedInv, Undoable, Failed, UndoesOnlyTheFailed
  <1> QED
    BY <1>1, RollbackInvariance, PTL

\* The original is closed with the verdict of its rollback.
THEOREM VerdictsAreSound == Spec => []VerdictsAgree
  <1>1. IInv => VerdictsAgree
    BY DEF IInv, VerdictInv
  <1> QED
    BY <1>1, RollbackInvariance, PTL

\* Once the schema is stamped exactly the actions of an earlier version are
\* legacy-v1, and a rollback of an earlier version restores nothing.
THEOREM CutoverIsClean == Spec => []CutoverHolds
  <1>1. ASSUME IInv, version = SCHEMA_VERSION, NEW a \in Actions, Stored(a)
        PROVE  protocol[a] = IF a \in old THEN "legacy-v1" ELSE "mc616d2-v1"
    <2>1. protocol[a] \in {"absent", "unset", "legacy-v1", "mc616d2-v1"}
      BY <1>1 DEF IInv, TypeOK, Protocols
    <2>2. protocol[a] # "unset" /\ protocol[a] # "absent"
      BY <1>1 DEF IInv, UpgradeInv, SCHEMA_VERSION, Stored
    <2>3. a \in old <=> protocol[a] \in {"unset", "legacy-v1"}
      BY <1>1 DEF IInv, UpgradeInv, SCHEMA_VERSION
    <2> QED
      BY <2>1, <2>2, <2>3
  <1>2. IInv => CutoverHolds
    BY <1>1 DEF IInv, FailedInv, CutoverHolds
  <1> QED
    BY <1>2, RollbackInvariance, PTL

\* No process that opens the database, however many do so at once and wherever
\* they die, loses a row or changes the protocol, the registration_id or the
\* switch that were stored.
THEOREM UpgradeKeepsRows == Spec => RowsSurviveUpgrade
  <1> DEFINE Keeps ==
        /\ \A a \in Actions : protocol[a] \in {"legacy-v1", "mc616d2-v1"}
               => protocol'[a] = protocol[a]
        /\ \A a \in Actions : Stored(a) => protocol'[a] # "absent"
        /\ \A p \in Projects :
               /\ regs[p] # NoRegistration => regs'[p] # NoRegistration
               /\ regs[p] > 0 => regs'[p] = regs[p]
        /\ proc' # proc => switch' = switch \/ switch = "absent"
  <1>1. ASSUME IInv, Next PROVE Keeps \/ UNCHANGED startVars
    <2> USE <1>1 DEF IInv
    <2>1. CASE UNCHANGED <<startVars, old>>
      BY <2>1
    <2>2. CASE OriginalStarts
      BY <2>2, OriginalStartsEffect DEF RowsInv, Stored, Store, TypeOK
    <2>3. CASE Switch
      BY <2>3 DEF Switch, Throw, Stored
    <2>4. ASSUME NEW w \in Workers, Register(w) PROVE Keeps
      BY <2>4, RegisterEffect DEF RowsInv, Stored, Store, TypeOK
    <2>5. ASSUME NEW w \in Workers, Crash(w) PROVE Keeps
      BY <2>5, CrashEffect DEF Stored, dbVars
    <2>6. ASSUME NEW w \in Workers, Open(w) PROVE Keeps
      <3>1. CASE Start(w) \/ ReadVersion(w)
        BY <3>1 DEF Start, ReadVersion, Stored, dbVars
      <3>2. CASE prepare_filesystem(w) \/ MakePrivate(w)
        BY <3>2 DEF prepare_filesystem, MakePrivate, Stored
      <3>3. CASE ensure_schema(w)
        BY <3>3, EnsureSchemaEffect DEF Stored, registration_v7,
           action_protocol_v8, NoRegistration, TypeOK
      <3>4. CASE seed_kill_switch_defaults(w) \/ compose_operator_service(w)
        BY <3>4, SeedEffect, ComposeEffect DEF Stored
      <3>5. ASSUME NEW p \in Projects, RegisterProject(w, p) PROVE Keeps
        BY <3>5, RegisterProjectEffect DEF Stored, NoRegistration, TypeOK
      <3> QED
        BY <2>6, <3>1, <3>2, <3>3, <3>4, <3>5 DEF Open
    <2> QED
      BY <2>1, <2>2, <2>3, <2>4, <2>5, <2>6, QuietSteps DEF Opens
  <1>2. IInv /\ [Next]_vars => [Keeps]_startVars
    BY <1>1 DEF vars
  <1> QED
    BY <1>2, RollbackInvariance, PTL DEF Spec, RowsSurviveUpgrade
=============================================================================
