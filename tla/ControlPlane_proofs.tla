------------------------ MODULE ControlPlane_proofs ------------------------
(* TLAPS proofs about ControlPlane, for every set of actions, workers and    *)
(* bindings and every lifetime.                                              *)
EXTENDS ControlPlaneInv, TLAPS

-----------------------------------------------------------------------------
(* Local variables.                                                          *)

\* The local variables of an idle worker, and of a call on an action, are
\* well typed.
LEMMA IdleType == IdleJob \in Jobs
  BY ConstantsAssumption DEF IdleJob, Jobs, Contracts, NoContract

\* A fresh job for an action is a well-typed job that has read nothing yet.
LEMMA ForType ==
    ASSUME NEW a \in Actions
    PROVE  /\ For(a) \in Jobs
           /\ For(a).action = a
           /\ For(a).contract = NoContract
  BY ConstantsAssumption DEF For, IdleJob, Jobs, Contracts, NoContract

\* Assignments to single fields keep a call's local variables well typed.
LEMMA JobType ==
    ASSUME NEW j \in Jobs, NEW n \in Nat, NEW m \in Nat, NEW r \in Nat
    PROVE  /\ [j EXCEPT !.now = n, !.rev = r] \in Jobs
           /\ [j EXCEPT !.version = m, !.now = n] \in Jobs
           /\ [j EXCEPT !.version = m, !.rev = r, !.now = n] \in Jobs
           /\ [j EXCEPT !.version = m] \in Jobs
           /\ \A c \in ConfIds :
                /\ [j EXCEPT !.contract.conf = c] \in Jobs
                /\ [j EXCEPT !.now = n, !.version = m, !.contract.conf = c] \in Jobs
           /\ \A k \in Contracts : [j EXCEPT !.contract = k, !.now = n] \in Jobs
           /\ \A st \in LifecycleStates : [j EXCEPT !.state = st] \in Jobs
           /\ \A ok \in BOOLEAN : /\ [j EXCEPT !.ok = ok] \in Jobs
                                  /\ [j EXCEPT !.contract.epoch = n, !.ok = ok] \in Jobs
  BY DEF Jobs, Contracts

\* A call that advanced its action goes on with the next version.
LEMMA NextVersion ==
    ASSUME NEW j \in Jobs
    PROVE  /\ [j EXCEPT !.version = @ + 1] \in Jobs
           /\ [j EXCEPT !.version = @ + 1].action = j.action
           /\ [j EXCEPT !.version = @ + 1].contract = j.contract
           /\ [j EXCEPT !.version = @ + 1].version = j.version + 1
<1>1. j.version + 1 \in Nat
  BY DEF Jobs
<1>2. [j EXCEPT !.version = j.version + 1] \in Jobs
  BY <1>1, JobType
<1> QED
  BY <1>2 DEF Jobs

\* A worker at rest claims nothing of the database.
LEMMA IdleFits ==
    ASSUME NEW s \in {"idle", "down", "save_switch", "sweep"}, NEW j \in Jobs
    PROVE  JobFits(s, j)
  BY DEF JobFits, Steps, ConfirmSteps, ExecuteSteps, ContractSteps, CheckSteps

-----------------------------------------------------------------------------
(* Steps that only read: the database does not change, and the worker that   *)
(* moves has just read what its new step knows.                              *)

\* A step that leaves the database alone preserves the invariant whenever the
\* worker's new position agrees with it (every read of the store, and Refuse).
LEMMA LocalStep ==
    ASSUME IInv, UNCHANGED <<db, log>>,
           NEW w \in Workers, NEW s \in Steps \cup {"idle"}, NEW j \in Jobs,
           Enter(w, s, j), JobFits(s, j), s # "execute_plan_mutation"
    PROVE  IInv'
<1>1. TypeOK'
  BY DEF IInv, TypeOK, Enter, db
<1>2. LogInv' /\ LeaseInv'
  BY DEF IInv, LogInv, LeaseInv, db
<1>3. ConsentInv'
  BY DEF IInv, ConsentInv, Granted, db
<1>4. JobInv'
  BY DEF IInv, JobInv, JobFits, Granted, Enter, TypeOK, db
<1>5. MutatorInv'
  BY DEF IInv, MutatorInv, Enter, TypeOK
<1> QED
  BY <1>1, <1>2, <1>3, <1>4, <1>5 DEF IInv

\* The reads that start a call.
LEMMA CallSteps ==
    ASSUME IInv, NEW w \in Workers, Call(w)
    PROVE  IInv'
<1> USE DEF IInv
<1>1. ASSUME NEW a \in Actions, Authorize(w, a) PROVE IInv'
  <2> DEFINE j == [For(a) EXCEPT !.now = clock, !.rev = plan.rev]
  <2>0. clock \in Nat /\ plan.rev \in Nat \ {0}
    BY DEF TypeOK, Rows
  <2>a. j \in Jobs
    BY <2>0, ForType DEF Jobs
  <2>b. j.action = a
    BY ForType DEF Jobs
  <2>c. j.rev = plan.rev
    BY ForType DEF Jobs
  <2>1. j \in Jobs /\ j.action = a /\ j.rev \in 1 .. plan.rev
    BY <2>0, <2>a, <2>b, <2>c
  <2>2. JobFits("register", j)
    BY <2>1 DEF JobFits, ConfirmSteps, ExecuteSteps, ContractSteps, CheckSteps
  <2> QED
    BY <1>1, <2>1, <2>2, LocalStep DEF Authorize, Steps
<1>2. ASSUME NEW a \in Actions, ReusePending(w, a) PROVE IInv'
  <2>1. PICK c \in Pending(a) :
          Enter(w, "build_confirmation", [For(a) EXCEPT !.contract.conf = c])
    BY <1>2 DEF ReusePending
  <2> DEFINE j == [For(a) EXCEPT !.contract.conf = c]
  <2>2. c \in ConfIds /\ conf[c].action = a
    BY DEF Pending
  <2>3. j \in Jobs /\ j.action = a /\ j.contract.conf = c
    BY <2>2, ForType DEF Jobs, Contracts
  <2>4. JobFits("build_confirmation", j)
    BY <2>2, <2>3 DEF JobFits, ConfirmSteps, ExecuteSteps, ContractSteps, CheckSteps
  <2> QED
    BY <1>2, <2>1, <2>3, <2>4, LocalStep DEF ReusePending, Steps
<1>3. ASSUME NEW a \in Actions, RequestConfirmation(w, a) PROVE IInv'
  <2>1. JobFits("put_pending", For(a))
    BY ForType DEF JobFits, ConfirmSteps, ExecuteSteps, ContractSteps, CheckSteps
  <2> QED
    BY <1>3, <2>1, ForType, LocalStep DEF RequestConfirmation, Steps
<1>4. ASSUME NEW a \in Actions, ResumeCapture(w, a) PROVE IInv'
  <2>1. JobFits("capture", For(a))
    BY ForType DEF JobFits, ConfirmSteps, ExecuteSteps, ContractSteps, CheckSteps
  <2> QED
    BY <1>4, <2>1, ForType, LocalStep DEF ResumeCapture, Steps
<1>5. ASSUME NEW a \in Actions, ExecuteAction(w, a) PROVE IInv'
  <2> DEFINE s == IF act[a].state = "SNAPSHOT_CAPTURED"
                  THEN "acquire_lease" ELSE "build_contract"
             j(c) == [For(a) EXCEPT !.now = clock, !.version = act[a].version,
                                    !.contract.conf = c]
  <2>1. PICK c \in ConfIds : /\ conf[c].action = a
                             /\ conf[c].state \in {"confirmed", "consumed"}
                             /\ Enter(w, s, j(c))
    BY <1>5 DEF ExecuteAction
  <2>2. act[a].version \in Nat /\ clock \in Nat
    BY DEF TypeOK, Rows
  <2>a. j(c) \in Jobs
    BY <2>2, ForType, JobType
  <2>b. j(c).action = a
    BY ForType DEF Jobs
  <2>c. j(c).contract.conf = c
    BY ForType DEF Jobs, NoContract
  <2>3. j(c) \in Jobs /\ j(c).action = a /\ j(c).contract.conf = c
    BY <2>a, <2>b, <2>c
  <2>4. JobFits(s, j(c))
    BY <2>1, <2>3 DEF JobFits, Granted, ConfirmSteps, ExecuteSteps,
                      ContractSteps, CheckSteps
  <2>5. s \in Steps /\ s # "execute_plan_mutation"
    BY DEF Steps
  <2> HIDE DEF s, j
  <2> QED
    BY <1>5, <2>1, <2>3, <2>4, <2>5, LocalStep DEF ExecuteAction
<1>6. ASSUME NEW engage \in BOOLEAN, ReadSwitch(w, engage) PROVE IInv'
  <2> DEFINE j == [IdleJob EXCEPT !.contract.epoch = switch.epoch + 1, !.ok = engage]
  <2>1. switch.epoch + 1 \in Nat
    BY DEF TypeOK, Rows
  <2>2. j \in Jobs
    BY <2>1, IdleType, JobType
  <2>3. JobFits("save_switch", j)
    BY <2>2, IdleFits
  <2> QED
    BY <1>6, <2>2, <2>3, LocalStep DEF ReadSwitch, Steps
<1> QED
  BY <1>1, <1>2, <1>3, <1>4, <1>5, <1>6 DEF Call

\* What the invariant says of one worker.
LEMMA Fits ==
    ASSUME IInv, NEW w \in Workers
    PROVE  /\ job[w] \in Jobs
           /\ JobFits(pc[w], job[w])
  BY DEF IInv, TypeOK, JobInv

\* An action with a lease has one, with token 1.
LEMMA TheLease ==
    ASSUME IInv, NEW a \in Actions, act[a].state \in LeasedStates
    PROVE  /\ DOMAIN leases[a] = {1}
           /\ leases[a] \in Seq(LeaseRows)
           /\ leases[a][1] \in LeaseRows
<1>1. leases[a] \in Seq(LeaseRows)
  BY DEF IInv, TypeOK
<1>2. Len(leases[a]) = 1
  BY DEF IInv, LeaseInv
<1>3. \A i \in 1 .. Len(leases[a]) : leases[a][i] \in LeaseRows
  BY <1>1
<1> QED
  BY <1>1, <1>2, <1>3

\* The steps of a call that only read.
LEMMA ReadSteps ==
    ASSUME IInv, NEW w \in Workers,
           \/ BuildConfirmation(w) \/ CaptureSnapshot(w) \/ BuildContract(w)
           \/ ValidateWorld(w) \/ BindRead(w) \/ PassGate(w) \/ ReadBack(w)
           \/ Refuse(w) \/ FinishSweep(w)
    PROVE  IInv'
<1> DEFINE a == job[w].action
           k == job[w].contract
<1>0. TypeOK /\ job[w] \in Jobs /\ JobFits(pc[w], job[w])
  BY Fits DEF IInv
<1>a. pc[w] \in Steps \ {"save_switch", "sweep"} => a \in Actions
  BY <1>0 DEF JobFits
<1>1. CASE BuildConfirmation(w)
  <2> DEFINE j == [job[w] EXCEPT !.version = act[a].version, !.now = clock]
  <2>1. a \in Actions /\ k.conf \in ConfIds /\ conf[k.conf].action = a
    BY <1>0, <1>1 DEF BuildConfirmation, JobFits, Steps, ConfirmSteps
  <2>2. act[a].version \in Nat /\ clock \in Nat
    BY <1>0, <2>1 DEF TypeOK, Rows
  <2>3. j \in Jobs
    BY <1>0, <2>2, JobType
  <2>4. j.action = a /\ j.contract = k
    BY <1>0 DEF Jobs
  <2>5. JobFits("record_confirmation", j)
    BY <2>1, <2>4 DEF JobFits, ConfirmSteps, ExecuteSteps, ContractSteps, CheckSteps
  <2> QED
    BY <1>1, <2>3, <2>5, LocalStep DEF BuildConfirmation, Steps
<1>2. CASE CaptureSnapshot(w)
  <2> DEFINE j == [For(a) EXCEPT !.version = act[a].version, !.rev = plan.rev,
                                 !.now = clock]
  <2>1. a \in Actions
    BY <1>a, <1>2 DEF CaptureSnapshot, Steps
  <2>2. act[a].version \in Nat /\ clock \in Nat /\ plan.rev \in Nat
    BY <1>0, <2>1 DEF TypeOK, Rows
  <2>3. j \in Jobs
    BY <2>1, <2>2, ForType, JobType
  <2>4. j.action = a
    BY <2>1, ForType DEF Jobs
  <2>5. JobFits("commit_snapshot", j)
    BY <2>1, <2>4 DEF JobFits, ConfirmSteps, ExecuteSteps, ContractSteps, CheckSteps
  <2> QED
    BY <1>2, <2>3, <2>5, LocalStep DEF CaptureSnapshot, Steps
<1>3. CASE BuildContract(w)
  <2> DEFINE kk == [k EXCEPT !.version = job[w].version,
                             !.epoch = switch.epoch,
                             !.token = ActiveToken(a, job[w].now)]
             j == [job[w] EXCEPT !.contract = kk, !.now = clock]
  <2>1. a \in Actions /\ k.conf \in Granted(a)
    BY <1>0, <1>3 DEF BuildContract, JobFits, Steps, ExecuteSteps
  <2>2. act[a].state \in LeasedStates
    <3>1. ActiveLeases(a, job[w].now) # {}
      BY <1>3 DEF BuildContract, MayBuildContract
    <3>2. Len(leases[a]) # 0
      BY <2>1, <3>1 DEF ActiveLeases, IInv, TypeOK
    <3> QED
      BY <2>1, <3>2 DEF IInv, LeaseInv
  <2>3. ActiveToken(a, job[w].now) = 1
    <3>1. ActiveLeases(a, job[w].now) = {1}
      BY <1>3, <2>1, <2>2, TheLease DEF ActiveLeases, BuildContract, MayBuildContract
    <3> QED
      BY <3>1 DEF ActiveToken
  <2>4. kk \in Contracts /\ kk.conf = k.conf /\ kk.version = job[w].version /\ kk.token = 1
    <3>1. k \in Contracts /\ job[w].version \in Nat /\ switch.epoch \in Nat
      BY <1>0 DEF Jobs, TypeOK
    <3>2. ActiveToken(a, job[w].now) \in Nat
      BY <2>3
    <3>5. kk \in Contracts
      BY <3>1, <3>2 DEF Contracts
    <3>3. kk.conf = k.conf /\ kk.version = job[w].version
      BY <3>1 DEF Contracts
    <3>4. kk.token = 1
      BY <3>1, <2>3 DEF Contracts
    <3> QED
      BY <3>3, <3>4, <3>5
  <2>5. clock \in Nat
    BY <1>0 DEF TypeOK, Rows
  <2> HIDE DEF kk
  <2>6. j \in Jobs
    BY <1>0, <2>4, <2>5, JobType
  <2>7. j.action = a /\ j.contract = kk /\ j.version = job[w].version
    BY <1>0 DEF Jobs
  <2>8. JobFits("validate_world", j)
    BY <2>1, <2>2, <2>4, <2>7 DEF JobFits, ConfirmSteps, ExecuteSteps, ContractSteps, CheckSteps
  <2> QED
    BY <1>3, <2>6, <2>8, LocalStep DEF BuildContract, Steps, kk
<1>4. CASE ValidateWorld(w)
  <2> DEFINE s == IF act[a].state = "LEASED" THEN "bind_read" ELSE "gate"
             j == [job[w] EXCEPT !.state = act[a].state]
  <2>1. /\ a \in Actions /\ k.conf \in Granted(a)
        /\ act[a].state \in LeasedStates /\ k.token = 1
        /\ job[w].version = k.version
    BY <1>0, <1>4 DEF ValidateWorld, JobFits, Steps, ContractSteps, ExecuteSteps, CheckSteps
  <2>2. act[a].version = k.version
    BY <1>4 DEF ValidateWorld, MayValidateWorld
  <2>3. act[a].version \in Nat
    BY <1>0, <2>1 DEF TypeOK, Rows
  <2>4. act[a].state \in LifecycleStates
    BY <2>1 DEF LeasedStates, StartedStates, ExecutedStates, LifecycleStates, TerminalStates
  <2>5. j \in Jobs
    BY <1>0, <2>4, JobType
  <2>6. j.action = a /\ j.contract = k /\ j.version = job[w].version /\ j.state = act[a].state
    BY <1>0 DEF Jobs
  <2>7. act[a].state # "LEASED" => leases[a][1].version < act[a].version
    BY <2>1 DEF IInv, LeaseInv
  <2>8. JobFits(s, j)
    BY <2>1, <2>2, <2>3, <2>6, <2>7 DEF JobFits, ConfirmSteps, ExecuteSteps, ContractSteps, CheckSteps
  <2>9. s \in Steps /\ s # "execute_plan_mutation"
    BY DEF Steps
  <2> HIDE DEF s, j
  <2> QED
    BY <1>4, <2>5, <2>8, <2>9, LocalStep DEF ValidateWorld, s, j
<1>5. CASE BindRead(w)
  <2> DEFINE s == IF act[a].digest = NoContract THEN "bind_write" ELSE "gate"
  <2>1. /\ a \in Actions /\ k.conf \in Granted(a)
        /\ act[a].state \in LeasedStates /\ k.token = 1
        /\ job[w].version = k.version
        /\ job[w].version <= act[a].version
        /\ job[w].state # "LEASED" => leases[a][1].version < job[w].version
    BY <1>0, <1>5 DEF BindRead, JobFits, Steps, ContractSteps, ExecuteSteps, CheckSteps
  <2>2. JobFits(s, job[w])
    BY <2>1 DEF JobFits, ConfirmSteps, ExecuteSteps, ContractSteps, CheckSteps
  <2>3. s \in Steps /\ s # "execute_plan_mutation"
    BY DEF Steps
  <2> HIDE DEF s
  <2> QED
    BY <1>0, <1>5, <2>2, <2>3, LocalStep DEF BindRead, s
<1>6. CASE PassGate(w)
  <2>1. /\ a \in Actions /\ k.conf \in Granted(a)
        /\ act[a].state \in LeasedStates /\ k.token = 1
        /\ job[w].version = k.version
        /\ job[w].version <= act[a].version
        /\ job[w].state # "LEASED" => leases[a][1].version < job[w].version
        /\ job[w].state = "LEASED" /\ job[w].version = act[a].version
             => act[a].digest # NoContract
    BY <1>0, <1>6 DEF PassGate, JobFits, Steps, ContractSteps, ExecuteSteps, CheckSteps
  \* A replay is refused: its lease is bound to an older version.
  <2>2. job[w].state = "LEASED"
    <3>1. leases[a][1].version = job[w].version
      BY <1>6, <2>1 DEF PassGate, MayPassGate, ExecutorChecks
    <3>2. leases[a][1].version \in Nat
      BY <2>1, TheLease DEF LeaseRows
    <3> QED
      BY <2>1, <3>1, <3>2
  <2>3. JobFits("begin_execution", job[w])
    BY <2>1, <2>2 DEF JobFits, ConfirmSteps, ExecuteSteps, ContractSteps, CheckSteps
  <2>4. Enter(w, "begin_execution", job[w]) /\ UNCHANGED <<db, log>>
    BY <1>6, <2>2 DEF PassGate
  <2> QED
    BY <1>0, <2>3, <2>4, LocalStep DEF Steps
<1>7. CASE ReadBack(w)
  <2> DEFINE ok == plan.rev = act[a].planRev + 1 /\ plan.by = a
             j == [job[w] EXCEPT !.ok = ok]
  <2>1. /\ a \in Actions /\ k.conf \in Granted(a)
        /\ act[a].state \in LeasedStates /\ k.token = 1
        /\ act[a].state \in ExecutedStates
    BY <1>0, <1>7 DEF ReadBack, JobFits, Steps, ContractSteps, ExecuteSteps
  \* The action is logged at its revision, so that a failed read-back shows a
  \* later entry.
  <2>2. ~ok => plan.rev > act[a].planRev + 1
    <3>1. /\ act[a].planRev \in DOMAIN log /\ log[act[a].planRev] = a
          /\ plan.rev = Len(log) + 1
          /\ plan.by = IF log = << >> THEN NoAction ELSE log[Len(log)]
      BY <2>1 DEF IInv, LogInv
    <3>2. log \in Seq(Actions)
      BY <1>0 DEF TypeOK, Rows
    <3> QED
      BY <3>1, <3>2
  <2> HIDE DEF ok
  <2>3. ok \in BOOLEAN
    BY DEF ok
  <2>4. j \in Jobs
    BY <1>0, <2>3, JobType
  <2>5. j.action = a /\ j.contract = k /\ j.ok = ok
    BY <1>0 DEF Jobs
  <2>6. JobFits("record_verification", j)
    BY <2>1, <2>2, <2>5 DEF JobFits, ConfirmSteps, ExecuteSteps, ContractSteps, CheckSteps
  <2> QED
    BY <1>7, <2>4, <2>6, LocalStep DEF ReadBack, Steps, ok
<1>8. CASE Refuse(w) \/ FinishSweep(w)
  BY <1>8, IdleType, IdleFits, LocalStep DEF Refuse, FinishSweep, Return
<1> QED
  BY <1>1, <1>2, <1>3, <1>4, <1>5, <1>6, <1>7, <1>8

\* A crash, a restart, a sweep that only observes, and time.
LEMMA ProcessSteps ==
    ASSUME IInv,
           \/ \E w \in Workers : \/ Crash(w) \/ Restart(w)
                                 \/ \E a \in Actions : Observe(w, a)
           \/ Tick
    PROVE  IInv'
<1>1. UNCHANGED <<db, log>>
  BY DEF Crash, Restart, Observe, Visit, Tick, db
<1>2. TypeOK'
  <2>1. /\ pc' \in [Workers -> Steps \cup {"idle", "down"}]
        /\ job' \in [Workers -> Jobs]
        /\ todo' \in [Workers -> SUBSET Actions] /\ clock' \in Nat
    <3> DEFINE StepOK == /\ pc' \in [Workers -> Steps \cup {"idle", "down"}]
                         /\ job' \in [Workers -> Jobs]
                         /\ todo' \in [Workers -> SUBSET Actions]
                         /\ clock' \in Nat
    <3> TypeOK
      BY DEF IInv
    <3>1. ASSUME NEW w \in Workers, Crash(w) PROVE StepOK
      BY <3>1, IdleType DEF TypeOK, Crash
    <3>2. ASSUME NEW w \in Workers, Restart(w) PROVE StepOK
      BY <3>2 DEF TypeOK, Restart, Steps
    <3>3. ASSUME NEW w \in Workers, NEW a \in Actions, Observe(w, a) PROVE StepOK
      BY <3>3 DEF TypeOK, Observe, Visit
    <3>4. CASE Tick
      BY <3>4 DEF TypeOK, Tick
    <3> QED
      BY <3>1, <3>2, <3>3, <3>4
  <2> QED
    BY <1>1, <2>1 DEF IInv, TypeOK, db
<1>3. \A v \in Workers :
        \/ pc'[v] = pc[v] /\ job'[v] = job[v]
        \/ pc'[v] \in {"down", "sweep"}
  BY DEF IInv, TypeOK, Crash, Restart, Observe, Visit, Tick
<1>4. LogInv' /\ LeaseInv'
  BY <1>1 DEF IInv, LogInv, LeaseInv, db
<1>5. ConsentInv'
  BY <1>1 DEF IInv, ConsentInv, Granted, db
<1>6. JobInv'
  BY <1>1, <1>3 DEF IInv, JobInv, JobFits, Granted, db, Steps, ConfirmSteps,
                    ExecuteSteps, ContractSteps, CheckSteps
<1>7. MutatorInv'
  BY <1>3 DEF IInv, MutatorInv
<1> QED
  BY <1>2, <1>4, <1>5, <1>6, <1>7 DEF IInv

-----------------------------------------------------------------------------
(* Steps that write: what a transaction leaves as the other workers know it. *)

\* What no transaction takes back of an action.
RowStays(a) ==
    /\ act[a].state \in LeasedStates =>
         /\ act'[a].state \in LeasedStates
         /\ leases'[a][1].version = leases[a][1].version
    /\ act[a].state \in ExecutedStates =>
         /\ act'[a].state \in ExecutedStates
         /\ act'[a].planRev = act[a].planRev
    /\ act[a].state \in JudgedStates => act'[a].state \in JudgedStates
    /\ act[a].version <= act'[a].version
    /\ act[a].digest # NoContract => act'[a].digest # NoContract

\* ... of a binding.
BindingStays(c) ==
    /\ conf[c].action # NoAction => conf'[c].action = conf[c].action
    /\ conf[c].state \in {"confirmed", "consumed"}
         => conf'[c].state \in {"confirmed", "consumed"}

\* Such a transaction leaves what another worker knows true, unless that
\* worker is about to mutate the plan for an action that it advanced.
LEMMA KnowledgeStays ==
    ASSUME IInv, TypeOK', NEW v \in Workers,
           pc'[v] = pc[v], job'[v] = job[v],
           \A a \in Actions : RowStays(a),
           \A c \in ConfIds : BindingStays(c),
           plan.rev <= plan'.rev,
           pc[v] = "execute_plan_mutation" =>
             /\ act'[job[v].action].state = act[job[v].action].state
             /\ act'[job[v].action].version = act[job[v].action].version
    PROVE  JobFits(pc[v], job[v])'
<1> DEFINE a == job[v].action
           k == job[v].contract
           s == pc[v]
           j == job[v]
<1>0. /\ TypeOK /\ JobFits(pc[v], job[v]) /\ job[v] \in Jobs
      /\ pc[v] \in Steps \cup {"idle", "down"}
  BY Fits DEF IInv, TypeOK
<1>1. CASE s \notin Steps \ {"save_switch", "sweep"}
  BY <1>1 DEF JobFits, Steps, ConfirmSteps, ExecuteSteps, ContractSteps, CheckSteps
<1>2. CASE s \in Steps \ {"save_switch", "sweep"}
  <2>1. a \in Actions
    BY <1>0, <1>2 DEF JobFits
  <2>2. RowStays(a) /\ a # NoAction
    BY <2>1, ConstantsAssumption
  <2>3. plan.rev \in Nat /\ plan'.rev \in Nat /\ act[a].version \in Nat
        /\ act'[a].version \in Nat /\ j.version \in Nat /\ j.rev \in Nat
        /\ act[a].planRev \in Nat
    BY <1>0, <2>1 DEF TypeOK, Rows, Jobs
  <2>4. s = "register" => j.rev \in 1 .. plan'.rev
    BY <1>0, <2>3 DEF JobFits
  <2>5. s \in ConfirmSteps => k.conf \in ConfIds /\ conf'[k.conf].action = a
    BY <1>0, <2>2 DEF JobFits, BindingStays
  <2>6. s \in ExecuteSteps => k.conf \in Granted(a)'
    BY <1>0, <2>2 DEF JobFits, BindingStays, Granted
  <2>7. s \in ContractSteps => act'[a].state \in LeasedStates /\ k.token = 1
    BY <1>0, <2>2 DEF JobFits, RowStays
  <2>8. s \in CheckSteps => j.version = k.version
    BY <1>0 DEF JobFits
  <2>9. s \in CheckSteps \ {"validate_world"} =>
          /\ j.version <= act'[a].version
          /\ j.state # "LEASED" => leases'[a][1].version < j.version
    BY <1>0, <2>2, <2>3 DEF JobFits, RowStays, CheckSteps, ContractSteps
  <2>10. s = "begin_execution" => j.state = "LEASED"
    BY <1>0 DEF JobFits
  <2>11. /\ s \in {"gate", "begin_execution"}
         /\ j.state = "LEASED"
         /\ j.version = act'[a].version
         => act'[a].digest # NoContract
    BY <1>0, <2>2, <2>3 DEF JobFits, RowStays, CheckSteps
  <2>12. s = "execute_plan_mutation" =>
           act'[a].state = "RUNNING" /\ act'[a].version = j.version
    BY <1>0 DEF JobFits
  <2>13. s \in {"read_back", "record_verification"} =>
           act'[a].state \in ExecutedStates
    BY <1>0, <2>2 DEF JobFits, RowStays
  <2>14. s = "record_verification" /\ ~j.ok => plan'.rev > act'[a].planRev + 1
    BY <1>0, <2>2, <2>3 DEF JobFits, RowStays
  <2>15. s = "release_lease" => act'[a].state \in JudgedStates
    BY <1>0, <2>2 DEF JobFits, RowStays
  <2> QED
    BY <2>1, <2>4, <2>5, <2>6, <2>7, <2>8, <2>9, <2>10, <2>11, <2>12, <2>13,
       <2>14, <2>15 DEF JobFits
<1> QED
  BY <1>1, <1>2

\* A worker's write preserves the invariant when it leaves what the others
\* know, and its own new step fits.
LEMMA WriteStep ==
    ASSUME IInv, TypeOK', LogInv', ConsentInv', LeaseInv',
           NEW w \in Workers,
           \A v \in Workers \ {w} : pc'[v] = pc[v] /\ job'[v] = job[v],
           JobFits(pc[w], job[w])',
           \A a \in Actions : RowStays(a),
           \A c \in ConfIds : BindingStays(c),
           plan.rev <= plan'.rev,
           \A v \in Workers \ {w} : pc[v] = "execute_plan_mutation" =>
             /\ act'[job[v].action].state = act[job[v].action].state
             /\ act'[job[v].action].version = act[job[v].action].version,
           pc'[w] = "execute_plan_mutation" =>
             \A v \in Workers \ {w} : pc[v] = "execute_plan_mutation" =>
               job[v].action # job'[w].action
    PROVE  IInv'
<1>1. JobInv'
  <2>1. ASSUME NEW v \in Workers PROVE JobFits(pc[v], job[v])'
    <3>1. CASE v = w
      BY <3>1
    <3>2. CASE v # w
      BY <3>2, KnowledgeStays
    <3> QED
      BY <3>1, <3>2
  <2> QED
    BY <2>1 DEF JobInv
<1>2. MutatorInv'
  BY DEF IInv, MutatorInv
<1> QED
  BY <1>1, <1>2 DEF IInv

\* Another worker about to mutate the plan is doing so for a running action.
LEMMA MutatorRuns ==
    ASSUME IInv, NEW v \in Workers, pc[v] = "execute_plan_mutation"
    PROVE  /\ job[v].action \in Actions
           /\ act[job[v].action].state = "RUNNING"
  BY Fits DEF JobFits, Steps

\* A row one version on.
LEMMA AdvancedRow ==
    ASSUME TypeOK, NEW a \in Actions, NEW to \in LifecycleStates
    PROVE  /\ Advanced(a, to) \in Rows
           /\ Advanced(a, to).state = to
           /\ Advanced(a, to).version = act[a].version + 1
           /\ Advanced(a, to).outcome = act[a].outcome
           /\ Advanced(a, to).planRev = act[a].planRev
           /\ Advanced(a, to).expires = act[a].expires
           /\ Advanced(a, to).digest = act[a].digest
           /\ act[a].version \in Nat
<1>1. act[a] \in Rows
  BY DEF TypeOK
<1>2. act[a].version \in Nat
  BY <1>1 DEF Rows
<1>3. Advanced(a, to) \in Rows
  <2>1. \A r \in Rows, n \in Nat : [r EXCEPT !.state = to, !.version = n] \in Rows
    BY DEF Rows
  <2>2. act[a].version + 1 \in Nat
    BY <1>2
  <2>3. [act[a] EXCEPT !.state = to, !.version = act[a].version + 1] \in Rows
    BY <1>1, <2>1, <2>2
  <2> QED
    BY <2>3 DEF Advanced
<1>4. Advanced(a, to).state = to /\ Advanced(a, to).version = act[a].version + 1
  BY <1>1 DEF Advanced, Rows
<1>5. Advanced(a, to).outcome = act[a].outcome /\ Advanced(a, to).planRev = act[a].planRev
  BY <1>1 DEF Advanced, Rows
<1>6. Advanced(a, to).expires = act[a].expires /\ Advanced(a, to).digest = act[a].digest
  BY <1>1 DEF Advanced, Rows
<1> QED
  BY <1>2, <1>3, <1>4, <1>5, <1>6

\* A transaction that changes one action's row and not the plan.
LEMMA LogStep ==
    ASSUME IInv, NEW a \in Actions, NEW r \in Rows,
           act' = [act EXCEPT ![a] = r], UNCHANGED <<plan, log>>,
           r.planRev = act[a].planRev, act[a].state # ABSENT,
           r.state \in ReachedStates \ {ABSENT},
           act[a].state \in ExecutedStates <=> r.state \in ExecutedStates,
           r.state \in ExecutedStates <=> r.outcome # "mutation_not_started",
           r.state = "VERIFICATION_FAILED" => plan.rev > r.planRev + 1
    PROVE  LogInv'
<1>1. /\ act'[a] = r
      /\ \A b \in Actions : b # a => act'[b] = act[b]
  BY DEF IInv, TypeOK
<1>2. log \in Seq(Actions)
  BY DEF IInv, TypeOK
<1>3. \A i \in DOMAIN log : log[i] \in Actions
  BY <1>2
<1>4. \A i \in DOMAIN log : /\ act'[log[i]].planRev = i
                            /\ act'[log[i]].state \in ExecutedStates
  BY <1>1, <1>3 DEF IInv, LogInv
<1>5. ASSUME NEW b \in Actions
      PROVE  /\ act'[b].state \in ReachedStates
             /\ act'[b].state = ABSENT => act'[b] = NoRow
             /\ act'[b].state # ABSENT => act'[b].planRev \in 1 .. plan.rev
             /\ act'[b].state \in ExecutedStates
                  => /\ act'[b].planRev \in DOMAIN log
                     /\ log[act'[b].planRev] = b
             /\ act'[b].state \in ExecutedStates
                  <=> act'[b].outcome # "mutation_not_started"
             /\ act'[b].state = "VERIFICATION_FAILED"
                  => plan.rev > act'[b].planRev + 1
  BY <1>1 DEF IInv, LogInv
<1> QED
  BY <1>4, <1>5 DEF IInv, LogInv

\* ... which leaves bindings alone, and the phase of consent with them.
LEMMA ConsentStep ==
    ASSUME IInv, NEW a \in Actions, NEW r \in Rows,
           act' = [act EXCEPT ![a] = r], UNCHANGED conf,
           act[a].state \in {ABSENT, "CONFIRMATION_REQUIRED"}
             <=> r.state \in {ABSENT, "CONFIRMATION_REQUIRED"},
           act[a].state \in StartedStates <=> r.state \in StartedStates
    PROVE  ConsentInv'
<1>1. /\ act'[a] = r
      /\ \A b \in Actions : b # a => act'[b] = act[b]
  BY DEF IInv, TypeOK
<1>2. \A b \in Actions : Granted(b)' = Granted(b)
  BY DEF Granted
<1>3. ASSUME NEW b \in Actions
      PROVE  /\ \A c, d \in Granted(b) : c = d
             /\ Granted(b) # {}
                  <=> act'[b].state \notin {ABSENT, "CONFIRMATION_REQUIRED"}
             /\ \A c \in Granted(b) :
                  conf[c].state = "consumed" <=> act'[b].state \in StartedStates
  BY <1>1 DEF IInv, ConsentInv
<1> QED
  BY <1>2, <1>3 DEF IInv, ConsentInv

\* ... which leaves snapshots and leases alone.
LEMMA LeaseStep ==
    ASSUME IInv, NEW a \in Actions, NEW r \in Rows,
           act' = [act EXCEPT ![a] = r], UNCHANGED <<snap, leases>>,
           r.state \in LeasedStates \cup {"SNAPSHOT_CAPTURED"} =>
             /\ act[a].state \in LeasedStates \cup {"SNAPSHOT_CAPTURED"}
             /\ r.planRev = act[a].planRev,
           act[a].state \in LeasedStates <=> r.state \in LeasedStates,
           r.state = "LEASED" => act[a].state = "LEASED" /\ r.version = act[a].version,
           r.state \in LeasedStates \ {"LEASED"} => act[a].version < r.version,
           r.state \in LeasedStates \ JudgedStates
             => act[a].state \in LeasedStates \ JudgedStates,
           r.state \in StartedStates => r.digest # NoContract
    PROVE  LeaseInv'
<1>1. /\ act'[a] = r
      /\ \A b \in Actions : b # a => act'[b] = act[b]
  BY DEF IInv, TypeOK
<1>2. r.state \in LeasedStates \ {"LEASED"} => leases[a][1].version < r.version
  <2>1. SUFFICES ASSUME r.state \in LeasedStates \ {"LEASED"}
                 PROVE  leases[a][1].version < r.version
    OBVIOUS
  <2>2. act[a].state \in LeasedStates
    BY <2>1
  <2>3. leases[a][1].version \in Nat /\ act[a].version \in Nat /\ r.version \in Nat
    BY <2>2, TheLease DEF LeaseRows, IInv, TypeOK, Rows
  <2>4. leases[a][1].version <= act[a].version
    BY <2>2, <2>3 DEF IInv, LeaseInv
  <2> QED
    BY <2>1, <2>3, <2>4
<1>3. ASSUME NEW b \in Actions
      PROVE  /\ act'[b].state \in LeasedStates \cup {"SNAPSHOT_CAPTURED"}
                  => snap[b] = act'[b].planRev
             /\ act'[b].state \in LeasedStates <=> Len(leases[b]) = 1
             /\ act'[b].state \notin LeasedStates <=> Len(leases[b]) = 0
             /\ act'[b].state = "LEASED" => leases[b][1].version = act'[b].version
             /\ act'[b].state \in LeasedStates \ {"LEASED"}
                  => leases[b][1].version < act'[b].version
             /\ act'[b].state \in LeasedStates \ JudgedStates
                  => leases[b][1].state = "granted"
             /\ act'[b].state \in StartedStates => act'[b].digest # NoContract
  <2>1. CASE b = a
    BY <1>1, <1>2, <2>1 DEF IInv, LeaseInv
  <2>2. CASE b # a
    BY <1>1, <2>2 DEF IInv, LeaseInv
  <2> QED
    BY <2>1, <2>2
<1> QED
  BY <1>3 DEF LeaseInv

\* ... which takes nothing back of its row.
LEMMA RowsStay ==
    ASSUME IInv, NEW a \in Actions, NEW r \in Rows,
           act' = [act EXCEPT ![a] = r],
           act[a].state \in LeasedStates => r.state \in LeasedStates,
           act[a].state \in ExecutedStates =>
             r.state \in ExecutedStates /\ r.planRev = act[a].planRev,
           act[a].state \in JudgedStates => r.state \in JudgedStates,
           act[a].version <= r.version,
           act[a].digest # NoContract => r.digest # NoContract,
           \A b \in Actions : act[b].state \in LeasedStates =>
             leases'[b][1].version = leases[b][1].version
    PROVE  \A b \in Actions : RowStays(b)
<1>1. /\ act'[a] = r
      /\ \A b \in Actions : b # a => act'[b] = act[b]
  BY DEF IInv, TypeOK
<1>2. \A b \in Actions : act[b].version \in Nat
  BY DEF IInv, TypeOK, Rows
<1>3. ASSUME NEW b \in Actions PROVE RowStays(b)
  <2>1. CASE b = a
    BY <1>1, <2>1 DEF RowStays
  <2>2. CASE b # a
    BY <1>1, <1>2, <2>2 DEF RowStays
  <2> QED
    BY <2>1, <2>2
<1> QED
  BY <1>3

\* The worker that moves, and the others.
LEMMA EnterEffect ==
    ASSUME TypeOK, NEW w \in Workers, NEW s \in Steps \cup {"idle"}, NEW j \in Jobs,
           Enter(w, s, j)
    PROVE  /\ pc' \in [Workers -> Steps \cup {"idle", "down"}]
           /\ job' \in [Workers -> Jobs]
           /\ todo' = todo /\ clock' = clock
           /\ pc'[w] = s /\ job'[w] = j
           /\ \A v \in Workers \ {w} : pc'[v] = pc[v] /\ job'[v] = job[v]
  BY DEF TypeOK, Enter

\* A call that has returned knows nothing, nor does a sweep.
LEMMA RestFits ==
    ASSUME NEW w \in Workers, pc'[w] \in {"idle", "sweep"}
    PROVE  JobFits(pc[w], job[w])'
  BY DEF JobFits, Steps, ConfirmSteps, ExecuteSteps, ContractSteps, CheckSteps

-----------------------------------------------------------------------------
(* The transactions, one lemma each.                                         *)

\* register_action preserves the invariant.
LEMMA RegisterActionStep ==
    ASSUME IInv, NEW w \in Workers, RegisterAction(w)
    PROVE  IInv'
<1> DEFINE a == job[w].action
           r == [state |-> "CONFIRMATION_REQUIRED", version |-> 2,
                 outcome |-> "mutation_not_started", planRev |-> job[w].rev,
                 expires |-> job[w].now + DecisionTTL, digest |-> NoContract]
<1>0. /\ TypeOK /\ job[w] \in Jobs /\ a \in Actions
      /\ job[w].rev \in 1 .. plan.rev
      /\ act[a].state = ABSENT
      /\ act' = [act EXCEPT ![a] = r]
      /\ Enter(w, "idle", IdleJob)
      /\ UNCHANGED <<conf, snap, leases, plan, switch, log>>
  BY Fits DEF IInv, RegisterAction, Return, JobFits, Steps
<1>1. r \in Rows
  <2>1. job[w].now + DecisionTTL \in Nat /\ job[w].rev \in Nat
    BY <1>0, ConstantsAssumption DEF Jobs
  <2>2. NoContract \in Contracts
    BY DEF NoContract, Contracts
  <2> QED
    BY <2>1, <2>2 DEF Rows, Outcomes, LifecycleStates
<1>2. /\ act'[a] = r
      /\ \A b \in Actions : b # a => act'[b] = act[b]
  BY <1>0 DEF TypeOK
<1>3. TypeOK'
  BY <1>0, <1>1, IdleType, EnterEffect DEF TypeOK
<1> HIDE DEF r
<1>4. r.state = "CONFIRMATION_REQUIRED" /\ r.planRev = job[w].rev
      /\ r.outcome = "mutation_not_started" /\ r.version = 2
  BY DEF r
<1>5. LogInv'
  <2>1. \A i \in DOMAIN log : log[i] \in Actions /\ log[i] # a
    <3>1. \A i \in DOMAIN log : log[i] \in Actions
      BY <1>0 DEF TypeOK
    <3> QED
      BY <1>0, <3>1 DEF IInv, LogInv, ExecutedStates, ABSENT
  <2>2. \A i \in DOMAIN log : /\ act'[log[i]].planRev = i
                              /\ act'[log[i]].state \in ExecutedStates
    BY <1>2, <2>1 DEF IInv, LogInv
  <2>3. ASSUME NEW b \in Actions
        PROVE  /\ act'[b].state \in ReachedStates
               /\ act'[b].state = ABSENT => act'[b] = NoRow
               /\ act'[b].state # ABSENT => act'[b].planRev \in 1 .. plan.rev
               /\ act'[b].state \in ExecutedStates
                    => /\ act'[b].planRev \in DOMAIN log
                       /\ log[act'[b].planRev] = b
               /\ act'[b].state \in ExecutedStates
                    <=> act'[b].outcome # "mutation_not_started"
               /\ act'[b].state = "VERIFICATION_FAILED"
                    => plan.rev > act'[b].planRev + 1
    <3>1. CASE b = a
      BY <1>0, <1>2, <1>4, <3>1 DEF ReachedStates, ABSENT, ExecutedStates
    <3>2. CASE b # a
      BY <1>2, <3>2 DEF IInv, LogInv
    <3> QED
      BY <3>1, <3>2
  <2> QED
    BY <1>0, <2>2, <2>3 DEF IInv, LogInv
<1>6. ConsentInv'
  BY <1>0, <1>1, <1>4, ConsentStep DEF StartedStates, ExecutedStates, ABSENT
<1>7. LeaseInv'
  BY <1>0, <1>1, <1>4, LeaseStep DEF LeasedStates, StartedStates, ExecutedStates, ABSENT
<1>8. \A b \in Actions : RowStays(b)
  <2>1. act[a].state \notin LeasedStates \cup ExecutedStates \cup JudgedStates
    BY <1>0 DEF LeasedStates, StartedStates, ExecutedStates, JudgedStates, ABSENT
  <2>2. act[a].digest = NoContract /\ act[a].version = 0
    BY <1>0 DEF IInv, LogInv, NoRow
  <2>3. act[a].version <= r.version
    BY <1>4, <2>2
  <2>4. a \in Actions /\ act' = [act EXCEPT ![a] = r] /\ leases' = leases
    BY <1>0
  <2> HIDE DEF a
  <2> QED
    BY <1>1, <2>1, <2>2, <2>3, <2>4, RowsStay
<1>9. \A c \in ConfIds : BindingStays(c)
  BY <1>0 DEF BindingStays
<1>10. plan.rev <= plan'.rev
  BY <1>0 DEF TypeOK
<1>11. JobFits(pc[w], job[w])'
  BY <1>0, IdleType, EnterEffect, RestFits
<1>12. \A v \in Workers \ {w} : pc[v] = "execute_plan_mutation" =>
         act'[job[v].action] = act[job[v].action]
  BY <1>0, <1>2, MutatorRuns DEF ABSENT
<1> QED
  BY <1>0, <1>3, <1>5, <1>6, <1>7, <1>8, <1>9, <1>10, <1>11, <1>12, IdleType,
     EnterEffect, WriteStep

\* The unguarded put of a pending binding preserves the invariant, although two
\* workers may both have passed the check before it.
LEMMA PutPendingStep ==
    ASSUME IInv, NEW w \in Workers, PutPending(w)
    PROVE  IInv'
<1> DEFINE a == job[w].action
<1>0. /\ TypeOK /\ a \in Actions
      /\ UNCHANGED <<act, snap, leases, plan, switch, log>>
  BY Fits DEF IInv, PutPending, JobFits, Steps
<1>1. PICK c \in ConfIds \ UsedBindings :
         /\ conf' = [conf EXCEPT ![c] = [action |-> a, state |-> "requested"]]
         /\ Enter(w, "build_confirmation", [For(a) EXCEPT !.contract.conf = c])
  BY DEF PutPending
<1> DEFINE j == [For(a) EXCEPT !.contract.conf = c]
<1>2. j \in Jobs /\ j.action = a /\ j.contract.conf = c
  BY <1>0, ForType DEF Jobs, Contracts
<1>3. /\ conf'[c].action = a /\ conf'[c].state = "requested"
      /\ \A d \in ConfIds : d # c => conf'[d] = conf[d]
      /\ conf[c].state = "none" /\ conf[c].action = NoAction
  BY <1>0, <1>1 DEF TypeOK, UsedBindings, IInv, ConsentInv
<1> HIDE DEF j, a
<1>e. /\ pc'[w] = "build_confirmation" /\ job'[w] = j
      /\ \A v \in Workers \ {w} : pc'[v] = pc[v] /\ job'[v] = job[v]
      /\ pc' \in [Workers -> Steps \cup {"idle", "down"}]
      /\ job' \in [Workers -> Jobs] /\ todo' = todo /\ clock' = clock
  BY <1>0, <1>1, <1>2, EnterEffect DEF Steps, j
<1>4. TypeOK'
  <2>1. [action |-> a, state |-> "requested"] \in Bindings
    BY <1>0 DEF Bindings
  <2>2. conf' \in [ConfIds -> Bindings]
    BY <1>0, <1>1, <2>1 DEF TypeOK
  <2> QED
    BY <1>0, <1>e, <2>2 DEF TypeOK
<1>5. LogInv' /\ LeaseInv'
  BY <1>0 DEF IInv, LogInv, LeaseInv
<1>6. ConsentInv'
  <2>1. \A b \in Actions : Granted(b)' = Granted(b)
    BY <1>3 DEF Granted
  <2>2. \A b \in Actions : \A d \in Granted(b) : conf'[d] = conf[d]
    BY <1>3 DEF Granted
  <2> QED
    BY <1>0, <1>3, <2>1, <2>2 DEF IInv, ConsentInv
<1>7. \A b \in Actions : RowStays(b)
  BY <1>0 DEF RowStays, TypeOK, Rows
<1>8. \A d \in ConfIds : BindingStays(d)
  BY <1>3 DEF BindingStays
<1>9. JobFits(pc[w], job[w])'
  BY <1>0, <1>1, <1>2, <1>3, <1>e DEF JobFits, Steps, ConfirmSteps,
     ExecuteSteps, ContractSteps, CheckSteps
<1>10. plan.rev <= plan'.rev
  BY <1>0 DEF TypeOK
<1> QED
  BY <1>0, <1>4, <1>5, <1>6, <1>7, <1>8, <1>9, <1>10, <1>e, WriteStep

\* record_confirmation_with_advance preserves the invariant.
LEMMA RecordConfirmationStep ==
    ASSUME IInv, NEW w \in Workers, RecordConfirmation(w)
    PROVE  IInv'
<1>a. PICK a \in Actions, c \in ConfIds :
        a = job[w].action /\ c = job[w].contract.conf
  BY Fits DEF RecordConfirmation, JobFits, Steps, ConfirmSteps
<1> DEFINE r == Advanced(a, "CONFIRMED")
<1>0. /\ TypeOK /\ a \in Actions /\ c \in ConfIds /\ conf[c].action = a
      /\ act[a].state = "CONFIRMATION_REQUIRED"
      /\ conf' = [conf EXCEPT ![c] = [action |-> a, state |-> "confirmed"]]
      /\ act' = [act EXCEPT ![a] = r]
      /\ Enter(w, "capture", For(a))
      /\ UNCHANGED <<snap, leases, plan, switch, log>>
  BY <1>a, Fits DEF IInv, RecordConfirmation, MayRecordConfirmation, MayAdvance,
     JobFits, Steps, ConfirmSteps
<1>1. /\ r \in Rows /\ r.state = "CONFIRMED" /\ r.version = act[a].version + 1
      /\ r.outcome = act[a].outcome /\ r.planRev = act[a].planRev
      /\ r.digest = act[a].digest /\ act[a].version \in Nat
  BY <1>0, AdvancedRow DEF LifecycleStates
<1> HIDE DEF r
<1>2. /\ conf'[c].action = a /\ conf'[c].state = "confirmed"
      /\ \A d \in ConfIds : d # c => conf'[d] = conf[d]
      /\ act'[a] = r
      /\ \A b \in Actions : b # a => act'[b] = act[b]
  BY <1>0 DEF TypeOK
<1>e. /\ pc'[w] = "capture" /\ job'[w] = For(a)
      /\ \A v \in Workers \ {w} : pc'[v] = pc[v] /\ job'[v] = job[v]
      /\ pc' \in [Workers -> Steps \cup {"idle", "down"}]
      /\ job' \in [Workers -> Jobs] /\ todo' = todo /\ clock' = clock
  BY <1>0, ForType, EnterEffect DEF Steps
<1>3. TypeOK'
  <2>1. [action |-> a, state |-> "confirmed"] \in Bindings
    BY <1>0 DEF Bindings
  <2>2. conf' \in [ConfIds -> Bindings]
    BY <1>0, <2>1 DEF TypeOK
  <2>3. act' \in [Actions -> Rows]
    BY <1>0, <1>1 DEF TypeOK
  <2> QED
    BY <1>0, <1>e, <2>2, <2>3 DEF TypeOK
<1>4. act[a].outcome = "mutation_not_started"
  BY <1>0 DEF IInv, LogInv, ExecutedStates
<1>5. LogInv'
  BY <1>0, <1>1, <1>4, LogStep DEF ReachedStates, ExecutedStates, ABSENT
\* The first binding of the action to be confirmed.
<1>6. ConsentInv'
  <2>1. Granted(a) = {}
    BY <1>0 DEF IInv, ConsentInv
  <2>2. Granted(a)' = {c}
    <3>1. \A d \in ConfIds : d # c => d \notin Granted(a)'
      BY <1>2, <2>1 DEF Granted
    <3> QED
      BY <1>0, <1>2, <3>1 DEF Granted
  <2>3. \A b \in Actions : b # a => Granted(b)' = Granted(b)
    BY <1>0, <1>2 DEF Granted
  <2>4. \A b \in Actions : b # a => \A d \in Granted(b) : conf'[d] = conf[d]
    BY <1>0, <1>2 DEF Granted
  <2>5. \A d \in ConfIds : conf'[d].state = "none" => conf'[d].action = NoAction
    BY <1>2 DEF IInv, ConsentInv
  <2>6. ASSUME NEW b \in Actions
        PROVE  /\ \A d, e \in Granted(b)' : d = e
               /\ Granted(b)' # {}
                    <=> act'[b].state \notin {ABSENT, "CONFIRMATION_REQUIRED"}
               /\ \A d \in Granted(b)' :
                    conf'[d].state = "consumed" <=> act'[b].state \in StartedStates
    <3>1. CASE b = a
      BY <1>1, <1>2, <2>2, <3>1 DEF StartedStates, ExecutedStates, ABSENT
    <3>2. CASE b # a
      BY <1>2, <2>3, <2>4, <3>2 DEF IInv, ConsentInv
    <3> QED
      BY <3>1, <3>2
  <2> QED
    BY <2>5, <2>6 DEF ConsentInv
<1>7. LeaseInv'
  BY <1>0, <1>1, LeaseStep DEF LeasedStates, StartedStates, ExecutedStates
<1>8. \A b \in Actions : RowStays(b)
  <2>1. act[a].state \notin LeasedStates \cup ExecutedStates \cup JudgedStates
    BY <1>0 DEF LeasedStates, StartedStates, ExecutedStates, JudgedStates
  <2> QED
    <3>1. leases' = leases /\ act[a].version <= r.version
      BY <1>0, <1>1
    <3> QED
      BY <1>0, <1>1, <2>1, <3>1, RowsStay
<1>9. \A d \in ConfIds : BindingStays(d)
  BY <1>0, <1>2 DEF BindingStays
<1>10. JobFits(pc[w], job[w])'
  BY <1>0, <1>e, ForType DEF JobFits, Steps, ConfirmSteps, ExecuteSteps,
     ContractSteps, CheckSteps
<1>11. plan.rev <= plan'.rev
  BY <1>0 DEF TypeOK
<1>12. \A v \in Workers \ {w} : pc[v] = "execute_plan_mutation" =>
         act'[job[v].action] = act[job[v].action]
  BY <1>0, <1>2, MutatorRuns
<1> QED
  BY <1>0, <1>3, <1>5, <1>6, <1>7, <1>8, <1>9, <1>10, <1>11, <1>12, <1>e, WriteStep

\* capture_snapshot_and_advance preserves the invariant.
LEMMA CommitSnapshotStep ==
    ASSUME IInv, NEW w \in Workers, CommitSnapshot(w)
    PROVE  IInv'
<1>a. PICK a \in Actions : a = job[w].action
  BY Fits DEF CommitSnapshot, JobFits, Steps
<1> DEFINE r == Advanced(a, "SNAPSHOT_CAPTURED")
<1>0. /\ TypeOK /\ job[w] \in Jobs
      /\ act[a].state = "CONFIRMED" /\ job[w].rev = act[a].planRev
      /\ snap' = [snap EXCEPT ![a] = job[w].rev]
      /\ act' = [act EXCEPT ![a] = r]
      /\ Enter(w, "idle", IdleJob)
      /\ UNCHANGED <<conf, leases, plan, switch, log>>
  BY <1>a, Fits DEF IInv, CommitSnapshot, MayCommitSnapshot, MayAdvance, Return
<1>1. /\ r \in Rows /\ r.state = "SNAPSHOT_CAPTURED" /\ r.version = act[a].version + 1
      /\ r.outcome = act[a].outcome /\ r.planRev = act[a].planRev
      /\ r.digest = act[a].digest /\ act[a].version \in Nat
  BY <1>0, AdvancedRow DEF LifecycleStates
<1> HIDE DEF r
<1>2. /\ act'[a] = r /\ snap'[a] = act[a].planRev
      /\ \A b \in Actions : b # a => act'[b] = act[b] /\ snap'[b] = snap[b]
  BY <1>0 DEF TypeOK
<1>e. /\ pc'[w] = "idle" /\ job'[w] = IdleJob
      /\ \A v \in Workers \ {w} : pc'[v] = pc[v] /\ job'[v] = job[v]
      /\ pc' \in [Workers -> Steps \cup {"idle", "down"}]
      /\ job' \in [Workers -> Jobs] /\ todo' = todo /\ clock' = clock
  BY <1>0, IdleType, EnterEffect
<1>3. TypeOK'
  <2>1. act' \in [Actions -> Rows]
    BY <1>0, <1>1 DEF TypeOK
  <2>2. snap' \in [Actions -> Nat]
    BY <1>0 DEF TypeOK, Jobs
  <2> QED
    BY <1>0, <1>e, <2>1, <2>2 DEF TypeOK
<1>4. act[a].outcome = "mutation_not_started"
  BY <1>0 DEF IInv, LogInv, ExecutedStates
<1>5. LogInv'
  BY <1>0, <1>1, <1>4, LogStep DEF ReachedStates, ExecutedStates, ABSENT
<1>6. ConsentInv'
  BY <1>0, <1>1, ConsentStep DEF StartedStates, ExecutedStates, ABSENT
<1>7. LeaseInv'
  <2>1. ASSUME NEW b \in Actions
        PROVE  /\ act'[b].state \in LeasedStates \cup {"SNAPSHOT_CAPTURED"}
                    => snap'[b] = act'[b].planRev
               /\ act'[b].state \in LeasedStates <=> Len(leases[b]) = 1
               /\ act'[b].state \notin LeasedStates <=> Len(leases[b]) = 0
               /\ act'[b].state = "LEASED" => leases[b][1].version = act'[b].version
               /\ act'[b].state \in LeasedStates \ {"LEASED"}
                    => leases[b][1].version < act'[b].version
               /\ act'[b].state \in LeasedStates \ JudgedStates
                    => leases[b][1].state = "granted"
               /\ act'[b].state \in StartedStates => act'[b].digest # NoContract
    <3>1. CASE b = a
      BY <1>0, <1>1, <1>2, <3>1 DEF IInv, LeaseInv, LeasedStates, StartedStates,
         ExecutedStates
    <3>2. CASE b # a
      BY <1>2, <3>2 DEF IInv, LeaseInv
    <3> QED
      BY <3>1, <3>2
  <2> QED
    BY <1>0, <2>1 DEF LeaseInv
<1>8. \A b \in Actions : RowStays(b)
  <2>1. act[a].state \notin LeasedStates \cup ExecutedStates \cup JudgedStates
    BY <1>0 DEF LeasedStates, StartedStates, ExecutedStates, JudgedStates
  <2>2. leases' = leases /\ act[a].version <= r.version
    BY <1>0, <1>1
  <2> QED
    BY <1>0, <1>1, <2>1, <2>2, RowsStay
<1>9. \A d \in ConfIds : BindingStays(d)
  BY <1>0 DEF BindingStays
<1>10. JobFits(pc[w], job[w])'
  BY <1>e, RestFits
<1>11. plan.rev <= plan'.rev
  BY <1>0 DEF TypeOK
<1>12. \A v \in Workers \ {w} : pc[v] = "execute_plan_mutation" =>
         act'[job[v].action] = act[job[v].action]
  BY <1>0, <1>2, MutatorRuns
<1> QED
  BY <1>0, <1>3, <1>5, <1>6, <1>7, <1>8, <1>9, <1>10, <1>11, <1>12, <1>e, WriteStep

\* acquire_lease preserves the invariant: it grants the action's only lease.
LEMMA AcquireLeaseStep ==
    ASSUME IInv, NEW w \in Workers, AcquireLease(w)
    PROVE  IInv'
<1>a. PICK a \in Actions : a = job[w].action
  BY Fits DEF AcquireLease, JobFits, Steps
<1> DEFINE r == Advanced(a, "LEASED")
           lease == [state |-> "granted", expires |-> job[w].now + LeaseTTL,
                     version |-> act[a].version + 1]
           j == [job[w] EXCEPT !.version = @ + 1]
<1>0. /\ TypeOK /\ job[w] \in Jobs
      /\ act[a].state = "SNAPSHOT_CAPTURED"
      /\ job[w].contract.conf \in Granted(a)
      /\ leases' = [leases EXCEPT ![a] = Append(@, lease)]
      /\ act' = [act EXCEPT ![a] = r]
      /\ Enter(w, "build_contract", j)
      /\ UNCHANGED <<conf, snap, plan, switch, log>>
  BY <1>a, Fits DEF IInv, AcquireLease, MayAcquireLease, MayAdvance, JobFits,
     ExecuteSteps
<1>1. /\ r \in Rows /\ r.state = "LEASED" /\ r.version = act[a].version + 1
      /\ r.outcome = act[a].outcome /\ r.planRev = act[a].planRev
      /\ r.digest = act[a].digest /\ act[a].version \in Nat
  BY <1>0, AdvancedRow DEF LifecycleStates
<1>j. j \in Jobs /\ j.action = a /\ j.contract = job[w].contract
  BY <1>0, <1>a, NextVersion
<1>l. lease \in LeaseRows
  <2>1. job[w].now + LeaseTTL \in Nat
    BY <1>0, ConstantsAssumption DEF Jobs
  <2> QED
    BY <1>1, <2>1 DEF LeaseRows
<1>m. lease.version = act[a].version + 1 /\ lease.state = "granted"
  OBVIOUS
<1> HIDE DEF r, j, lease
<1>2. /\ act'[a] = r
      /\ \A b \in Actions : b # a => act'[b] = act[b] /\ leases'[b] = leases[b]
      /\ leases'[a] = Append(leases[a], lease)
  BY <1>0 DEF TypeOK
\* The action had no lease.
<1>n. Len(leases'[a]) = 1 /\ leases'[a][1] = lease /\ leases'[a] \in Seq(LeaseRows)
  <2>1. Len(leases[a]) = 0
    BY <1>0 DEF IInv, LeaseInv, LeasedStates, StartedStates, ExecutedStates
  <2>2. leases[a] \in Seq(LeaseRows)
    BY <1>0 DEF TypeOK
  <2> QED
    BY <1>2, <1>l, <2>1, <2>2
<1>e. /\ pc'[w] = "build_contract" /\ job'[w] = j
      /\ \A v \in Workers \ {w} : pc'[v] = pc[v] /\ job'[v] = job[v]
      /\ pc' \in [Workers -> Steps \cup {"idle", "down"}]
      /\ job' \in [Workers -> Jobs] /\ todo' = todo /\ clock' = clock
  BY <1>0, <1>j, EnterEffect DEF Steps
<1>3. TypeOK'
  <2>1. act' \in [Actions -> Rows]
    BY <1>0, <1>1 DEF TypeOK
  <2>2. leases' \in [Actions -> Seq(LeaseRows)]
    BY <1>0, <1>2, <1>n DEF TypeOK
  <2> QED
    BY <1>0, <1>e, <2>1, <2>2 DEF TypeOK
<1>4. act[a].outcome = "mutation_not_started"
  BY <1>0 DEF IInv, LogInv, ExecutedStates
<1>5. LogInv'
  BY <1>0, <1>1, <1>4, LogStep DEF ReachedStates, LeasedStates, ExecutedStates, ABSENT
<1>6. ConsentInv'
  BY <1>0, <1>1, ConsentStep DEF StartedStates, ExecutedStates, ABSENT
<1>7. LeaseInv'
  <2>1. ASSUME NEW b \in Actions
        PROVE  /\ act'[b].state \in LeasedStates \cup {"SNAPSHOT_CAPTURED"}
                    => snap[b] = act'[b].planRev
               /\ act'[b].state \in LeasedStates <=> Len(leases'[b]) = 1
               /\ act'[b].state \notin LeasedStates <=> Len(leases'[b]) = 0
               /\ act'[b].state = "LEASED" => leases'[b][1].version = act'[b].version
               /\ act'[b].state \in LeasedStates \ {"LEASED"}
                    => leases'[b][1].version < act'[b].version
               /\ act'[b].state \in LeasedStates \ JudgedStates
                    => leases'[b][1].state = "granted"
               /\ act'[b].state \in StartedStates => act'[b].digest # NoContract
    <3>1. CASE b = a
      BY <1>0, <1>1, <1>2, <1>m, <1>n, <3>1 DEF IInv, LeaseInv, LeasedStates,
         StartedStates, ExecutedStates
    <3>2. CASE b # a
      BY <1>2, <3>2 DEF IInv, LeaseInv
    <3> QED
      BY <3>1, <3>2
  <2> QED
    BY <1>0, <2>1 DEF LeaseInv
<1>8. \A b \in Actions : RowStays(b)
  <2>1. act[a].state \notin LeasedStates \cup ExecutedStates \cup JudgedStates
    BY <1>0 DEF LeasedStates, StartedStates, ExecutedStates, JudgedStates
  <2>2. act[a].version <= r.version
    BY <1>1
  <2>3. \A b \in Actions : act[b].state \in LeasedStates =>
          leases'[b][1].version = leases[b][1].version
    BY <1>2, <2>1
  <2> QED
    BY <1>0, <1>1, <2>1, <2>2, <2>3, RowsStay
<1>9. \A d \in ConfIds : BindingStays(d)
  BY <1>0 DEF BindingStays
<1>10. JobFits(pc[w], job[w])'
  <2>1. job[w].contract.conf \in Granted(a)'
    BY <1>0 DEF Granted
  <2> QED
    BY <1>j, <1>e, <2>1 DEF JobFits, Steps, ConfirmSteps, ExecuteSteps,
       ContractSteps, CheckSteps, Granted
<1>11. plan.rev <= plan'.rev
  BY <1>0 DEF TypeOK
<1>12. \A v \in Workers \ {w} : pc[v] = "execute_plan_mutation" =>
         act'[job[v].action] = act[job[v].action]
  BY <1>0, <1>2, MutatorRuns
<1> QED
  BY <1>0, <1>3, <1>5, <1>6, <1>7, <1>8, <1>9, <1>10, <1>11, <1>12, <1>e, WriteStep

\* The digest write of bind_contract_evidence preserves the invariant, whichever
\* of two racing contracts it leaves on record.
LEMMA BindWriteStep ==
    ASSUME IInv, NEW w \in Workers, BindWrite(w)
    PROVE  IInv'
<1>a. PICK a \in Actions : a = job[w].action
  BY Fits DEF BindWrite, JobFits, Steps
<1> DEFINE k == job[w].contract
           r == IF act[a].version = job[w].version
                THEN [act[a] EXCEPT !.digest = k] ELSE act[a]
<1>0. /\ TypeOK /\ job[w] \in Jobs
      /\ k.conf \in Granted(a) /\ act[a].state \in LeasedStates /\ k.token = 1
      /\ job[w].version = k.version /\ job[w].version <= act[a].version
      /\ job[w].state # "LEASED" => leases[a][1].version < job[w].version
      /\ act' = [act EXCEPT ![a] = r]
      /\ Enter(w, "gate", job[w])
      /\ UNCHANGED <<conf, snap, leases, plan, switch, log>>
  BY <1>a, Fits DEF IInv, BindWrite, JobFits, ExecuteSteps, ContractSteps, CheckSteps
<1>k. k \in Contracts /\ k # NoContract
  BY <1>0 DEF Jobs, NoContract
<1>1. /\ r \in Rows /\ r.state = act[a].state /\ r.version = act[a].version
      /\ r.outcome = act[a].outcome /\ r.planRev = act[a].planRev
      /\ act[a].version = job[w].version => r.digest # NoContract
      /\ act[a].digest # NoContract => r.digest # NoContract
  <2>1. act[a] \in Rows
    BY <1>0 DEF TypeOK
  <2>2. CASE act[a].version = job[w].version
    <3>1. r = [act[a] EXCEPT !.digest = k]
      BY <2>2
    <3> HIDE DEF r
    <3>2. r \in Rows
      BY <1>k, <2>1, <3>1 DEF Rows
    <3>3. /\ r.state = act[a].state /\ r.version = act[a].version
          /\ r.outcome = act[a].outcome /\ r.planRev = act[a].planRev
          /\ r.digest = k
      BY <2>1, <3>1 DEF Rows
    <3> QED
      BY <1>k, <3>2, <3>3
  <2>3. CASE act[a].version # job[w].version
    BY <2>1, <2>3
  <2> QED
    BY <2>2, <2>3
<1> HIDE DEF r
<1>2. /\ act'[a] = r
      /\ \A b \in Actions : b # a => act'[b] = act[b]
  BY <1>0 DEF TypeOK
<1>e. /\ pc'[w] = "gate" /\ job'[w] = job[w]
      /\ \A v \in Workers \ {w} : pc'[v] = pc[v] /\ job'[v] = job[v]
      /\ pc' \in [Workers -> Steps \cup {"idle", "down"}]
      /\ job' \in [Workers -> Jobs] /\ todo' = todo /\ clock' = clock
  BY <1>0, EnterEffect DEF Steps
<1>3. TypeOK'
  <2>1. act' \in [Actions -> Rows]
    BY <1>0, <1>1 DEF TypeOK
  <2> QED
    BY <1>0, <1>e, <2>1 DEF TypeOK
<1>5. LogInv'
  <2>1. act[a].state \in ReachedStates \ {ABSENT}
    BY <1>0 DEF ReachedStates, LeasedStates, StartedStates, ExecutedStates, ABSENT
  <2>2. /\ act[a].state \in ExecutedStates <=> act[a].outcome # "mutation_not_started"
        /\ act[a].state = "VERIFICATION_FAILED" => plan.rev > act[a].planRev + 1
    BY DEF IInv, LogInv
  <2> QED
    BY <1>0, <1>1, <2>1, <2>2, LogStep
<1>6. ConsentInv'
  BY <1>0, <1>1, ConsentStep
<1>7. LeaseInv'
  <2>1. ASSUME NEW b \in Actions
        PROVE  /\ act'[b].state = act[b].state /\ act'[b].version = act[b].version
               /\ act'[b].planRev = act[b].planRev
               /\ act[b].digest # NoContract => act'[b].digest # NoContract
    BY <1>1, <1>2
  <2> QED
    BY <1>0, <2>1 DEF IInv, LeaseInv
<1>8. \A b \in Actions : RowStays(b)
  <2>1. leases' = leases /\ act[a].version <= r.version
    BY <1>0, <1>1 DEF TypeOK, Rows
  <2> QED
    BY <1>0, <1>1, <2>1, RowsStay
<1>9. \A d \in ConfIds : BindingStays(d)
  BY <1>0 DEF BindingStays
\* The digest is on record, unless the action has moved on.
<1>10. JobFits(pc[w], job[w])'
  <2>1. k.conf \in Granted(a)'
    BY <1>0 DEF Granted
  <2> QED
    BY <1>a, <1>0, <1>1, <1>2, <1>e, <2>1 DEF JobFits, Steps, ConfirmSteps,
       ExecuteSteps, ContractSteps, CheckSteps, Granted
<1>11. plan.rev <= plan'.rev
  BY <1>0 DEF TypeOK
<1>12. \A v \in Workers \ {w} : pc[v] = "execute_plan_mutation" =>
         act'[job[v].action].state = act[job[v].action].state
         /\ act'[job[v].action].version = act[job[v].action].version
  BY <1>1, <1>2, MutatorRuns
<1> QED
  BY <1>0, <1>3, <1>5, <1>6, <1>7, <1>8, <1>9, <1>10, <1>11, <1>12, <1>e, WriteStep

\* begin_execution preserves the invariant: it makes its worker the only mutator.
LEMMA BeginExecutionStep ==
    ASSUME IInv, NEW w \in Workers, BeginExecution(w)
    PROVE  IInv'
<1>a. PICK a \in Actions, c \in ConfIds :
        a = job[w].action /\ c = job[w].contract.conf /\ c \in Granted(a)
  BY Fits DEF BeginExecution, JobFits, Steps, ExecuteSteps, ContractSteps, Granted
<1> DEFINE r == Advanced(a, "RUNNING")
           j == [job[w] EXCEPT !.version = @ + 1]
<1>0. /\ TypeOK /\ job[w] \in Jobs
      /\ job[w].contract.token = 1
      /\ act[a].state = "LEASED" /\ act[a].version = job[w].version
      /\ act[a].digest # NoContract
      /\ conf' = [conf EXCEPT ![c].state = "consumed"]
      /\ act' = [act EXCEPT ![a] = r]
      /\ Enter(w, "execute_plan_mutation", j)
      /\ UNCHANGED <<snap, leases, plan, switch, log>>
  BY <1>a, Fits DEF IInv, BeginExecution, MayBeginExecution, MayAdvance, JobFits,
     ContractSteps, CheckSteps
<1>1. /\ r \in Rows /\ r.state = "RUNNING" /\ r.version = act[a].version + 1
      /\ r.outcome = act[a].outcome /\ r.planRev = act[a].planRev
      /\ r.digest = act[a].digest /\ act[a].version \in Nat
  BY <1>0, AdvancedRow DEF LifecycleStates
<1>j. /\ j \in Jobs /\ j.action = a /\ j.contract = job[w].contract
      /\ j.version = job[w].version + 1
  BY <1>0, <1>a, NextVersion
<1> HIDE DEF r, j
<1>2. /\ act'[a] = r
      /\ \A b \in Actions : b # a => act'[b] = act[b]
      /\ \A d \in ConfIds : d # c => conf'[d] = conf[d]
      /\ conf'[c] = [conf[c] EXCEPT !.state = "consumed"]
  BY <1>0 DEF TypeOK
<1>c. conf'[c] \in Bindings /\ conf'[c].action = a /\ conf'[c].state = "consumed"
  <2>1. conf[c] \in Bindings /\ conf[c].action = a
    BY <1>0, <1>a DEF TypeOK, Granted
  <2> QED
    BY <1>2, <2>1 DEF Bindings
<1>e. /\ pc'[w] = "execute_plan_mutation" /\ job'[w] = j
      /\ \A v \in Workers \ {w} : pc'[v] = pc[v] /\ job'[v] = job[v]
      /\ pc' \in [Workers -> Steps \cup {"idle", "down"}]
      /\ job' \in [Workers -> Jobs] /\ todo' = todo /\ clock' = clock
  BY <1>0, <1>j, EnterEffect DEF Steps
<1>3. TypeOK'
  <2>1. act' \in [Actions -> Rows]
    BY <1>0, <1>1 DEF TypeOK
  <2>2. conf' \in [ConfIds -> Bindings]
    BY <1>0, <1>2, <1>c DEF TypeOK
  <2> QED
    BY <1>0, <1>e, <2>1, <2>2 DEF TypeOK
<1>4. act[a].outcome = "mutation_not_started"
  BY <1>0 DEF IInv, LogInv, ExecutedStates
<1>5. LogInv'
  BY <1>0, <1>1, <1>4, LogStep DEF ReachedStates, LeasedStates, StartedStates,
     ExecutedStates, ABSENT
\* The one granted binding is spent.
<1>6. ConsentInv'
  <2>1. \A b \in Actions : Granted(b)' = Granted(b)
    BY <1>2, <1>c, <1>a DEF Granted
  <2>2. \A b \in Actions : b # a => \A d \in Granted(b) : conf'[d] = conf[d]
    BY <1>2, <1>a DEF Granted
  <2>3. \A d \in Granted(a) : d = c
    BY <1>a DEF IInv, ConsentInv
  <2>4. \A d \in ConfIds : conf'[d].state = "none" => conf'[d].action = NoAction
    BY <1>2, <1>c DEF IInv, ConsentInv
  <2>5. ASSUME NEW b \in Actions
        PROVE  /\ \A d, e \in Granted(b) : d = e
               /\ Granted(b) # {}
                    <=> act'[b].state \notin {ABSENT, "CONFIRMATION_REQUIRED"}
               /\ \A d \in Granted(b) :
                    conf'[d].state = "consumed" <=> act'[b].state \in StartedStates
    <3>1. CASE b = a
      BY <1>1, <1>2, <1>a, <1>c, <2>3, <3>1 DEF StartedStates, ABSENT
    <3>2. CASE b # a
      BY <1>2, <2>2, <3>2 DEF IInv, ConsentInv
    <3> QED
      BY <3>1, <3>2
  <2> QED
    BY <2>1, <2>4, <2>5 DEF ConsentInv
<1>7. LeaseInv'
  <2>1. /\ act[a].state \in LeasedStates \ JudgedStates
        /\ r.state \in LeasedStates \ {"LEASED"}
    BY <1>0, <1>1 DEF LeasedStates, StartedStates, ExecutedStates, JudgedStates
  <2>2. act[a].version < r.version /\ r.digest # NoContract
    BY <1>0, <1>1
  <2> QED
    BY <1>0, <1>1, <2>1, <2>2, LeaseStep
<1>8. \A b \in Actions : RowStays(b)
  <2>1. act[a].state \notin ExecutedStates \cup JudgedStates
    BY <1>0 DEF ExecutedStates, JudgedStates
  <2>2. leases' = leases /\ act[a].version <= r.version /\ r.state \in LeasedStates
    BY <1>0, <1>1 DEF LeasedStates, StartedStates
  <2> QED
    BY <1>0, <1>1, <2>1, <2>2, RowsStay
<1>9. \A d \in ConfIds : BindingStays(d)
  BY <1>a, <1>2, <1>c DEF BindingStays, Granted
<1>10. JobFits(pc[w], job[w])'
  <2>1. c \in Granted(a)'
    BY <1>c DEF Granted
  <2>2. act'[a].state = "RUNNING" /\ act'[a].version = j.version
    BY <1>0, <1>1, <1>2, <1>j
  <2> QED
    BY <1>a, <1>0, <1>j, <1>e, <2>1, <2>2 DEF JobFits, Steps, ConfirmSteps,
       ExecuteSteps, ContractSteps, CheckSteps, Granted, LeasedStates, StartedStates
<1>11. plan.rev <= plan'.rev
  BY <1>0 DEF TypeOK
<1>12. \A v \in Workers \ {w} : pc[v] = "execute_plan_mutation" =>
         job[v].action \in Actions /\ job[v].action # a
  BY <1>0, MutatorRuns
<1> QED
  BY <1>0, <1>2, <1>3, <1>5, <1>6, <1>7, <1>8, <1>9, <1>10, <1>11, <1>12, <1>e, <1>j,
     WriteStep

\* execute_plan_mutation preserves the invariant: log, plan and row move together.
LEMMA ExecutePlanMutationStep ==
    ASSUME IInv, NEW w \in Workers, ExecutePlanMutation(w)
    PROVE  IInv'
<1>a. PICK a \in Actions, c \in ConfIds :
        a = job[w].action /\ c = job[w].contract.conf /\ c \in Granted(a)
  BY Fits DEF ExecutePlanMutation, JobFits, Steps, ExecuteSteps, ContractSteps, Granted
<1> DEFINE r == [Advanced(a, "EXECUTED_PENDING_VERIFICATION")
                   EXCEPT !.outcome = "mutation_succeeded"]
           j == [job[w] EXCEPT !.version = @ + 1]
<1>0. /\ TypeOK /\ job[w] \in Jobs
      /\ job[w].contract.token = 1
      /\ act[a].state = "RUNNING"
      /\ plan.rev = act[a].planRev
      /\ plan' = [rev |-> plan.rev + 1, by |-> a]
      /\ log' = Append(log, a)
      /\ act' = [act EXCEPT ![a] = r]
      /\ Enter(w, "read_back", j)
      /\ UNCHANGED <<conf, snap, leases, switch>>
      /\ pc[w] = "execute_plan_mutation"
  BY <1>a, Fits DEF IInv, ExecutePlanMutation, MayExecutePlanMutation, MayAdvance,
     JobFits, ContractSteps
<1>1. /\ r \in Rows /\ r.state = "EXECUTED_PENDING_VERIFICATION"
      /\ r.version = act[a].version + 1
      /\ r.outcome = "mutation_succeeded" /\ r.planRev = act[a].planRev
      /\ r.digest = act[a].digest /\ act[a].version \in Nat
  <2> DEFINE q == Advanced(a, "EXECUTED_PENDING_VERIFICATION")
  <2>1. /\ q \in Rows /\ q.state = "EXECUTED_PENDING_VERIFICATION"
        /\ q.version = act[a].version + 1
        /\ q.planRev = act[a].planRev
        /\ q.digest = act[a].digest /\ act[a].version \in Nat
    BY <1>0, AdvancedRow DEF LifecycleStates
  <2> HIDE DEF q
  <2>2. [q EXCEPT !.outcome = "mutation_succeeded"] \in Rows
    BY <2>1 DEF Rows, Outcomes
  <2> QED
    BY <2>1, <2>2 DEF q, Rows
<1>j. /\ j \in Jobs /\ j.action = a /\ j.contract = job[w].contract
  BY <1>0, <1>a, NextVersion
<1> HIDE DEF r, j
<1>2. /\ act'[a] = r
      /\ \A b \in Actions : b # a => act'[b] = act[b]
  BY <1>0 DEF TypeOK
<1>e. /\ pc'[w] = "read_back" /\ job'[w] = j
      /\ \A v \in Workers \ {w} : pc'[v] = pc[v] /\ job'[v] = job[v]
      /\ pc' \in [Workers -> Steps \cup {"idle", "down"}]
      /\ job' \in [Workers -> Jobs] /\ todo' = todo /\ clock' = clock
  BY <1>0, <1>j, EnterEffect DEF Steps
<1>p. /\ plan'.rev = plan.rev + 1 /\ plan'.by = a
      /\ plan.rev \in Nat \ {0}
      /\ log \in Seq(Actions) /\ log' \in Seq(Actions) /\ Len(log') = Len(log) + 1
      /\ log'[Len(log')] = a /\ Len(log) \in Nat
      /\ \A i \in 1 .. Len(log) : log'[i] = log[i] /\ log[i] \in Actions
  BY <1>0 DEF TypeOK
<1>3. TypeOK'
  <2>1. act' \in [Actions -> Rows]
    BY <1>0, <1>1 DEF TypeOK
  <2>2. plan' \in [rev : Nat \ {0}, by : Actions \cup {NoAction}]
    BY <1>0, <1>p
  <2> QED
    BY <1>0, <1>e, <1>p, <2>1, <2>2 DEF TypeOK
\* The action is new to the log: its row says that it has not executed.
<1>5. LogInv'
  <2>0. /\ plan.rev = Len(log) + 1 /\ DOMAIN log = 1 .. Len(log)
        /\ \A i \in DOMAIN log : /\ act[log[i]].planRev = i
                                 /\ act[log[i]].state \in ExecutedStates
    BY <1>p DEF IInv, LogInv
  <2>1. DOMAIN log' = 1 .. Len(log) + 1
    BY <1>p
  <2>2. plan'.rev = Len(log') + 1
        /\ plan'.by = IF log' = << >> THEN NoAction ELSE log'[Len(log')]
    BY <1>p, <2>0
  <2>3. \A i \in 1 .. Len(log) : log[i] # a
    BY <1>0, <2>0 DEF ExecutedStates
  <2>4. ASSUME NEW i \in DOMAIN log'
        PROVE  act'[log'[i]].planRev = i /\ act'[log'[i]].state \in ExecutedStates
    <3>1. CASE i = Len(log) + 1
      BY <1>0, <1>1, <1>2, <1>p, <2>0, <3>1 DEF ExecutedStates
    <3>2. CASE i \in 1 .. Len(log)
      BY <1>2, <1>p, <2>0, <2>3, <3>2
    <3> QED
      BY <2>1, <3>1, <3>2, <1>p
  <2>5. ASSUME NEW b \in Actions
        PROVE  /\ act'[b].state \in ReachedStates
               /\ act'[b].state = ABSENT => act'[b] = NoRow
               /\ act'[b].state # ABSENT => act'[b].planRev \in 1 .. plan'.rev
               /\ act'[b].state \in ExecutedStates
                    => /\ act'[b].planRev \in DOMAIN log'
                       /\ log'[act'[b].planRev] = b
               /\ act'[b].state \in ExecutedStates
                    <=> act'[b].outcome # "mutation_not_started"
               /\ act'[b].state = "VERIFICATION_FAILED"
                    => plan'.rev > act'[b].planRev + 1
    <3>0. act[b].planRev \in Nat
      BY <1>0 DEF TypeOK, Rows
    <3>1. CASE b = a
      BY <1>0, <1>1, <1>2, <1>p, <2>0, <2>1, <3>0, <3>1 DEF ReachedStates, LeasedStates,
         StartedStates, ExecutedStates, ABSENT
    <3>2. CASE b # a
      BY <1>2, <1>p, <2>0, <2>1, <3>0, <3>2 DEF IInv, LogInv
    <3> QED
      BY <3>1, <3>2
  <2> QED
    BY <2>2, <2>4, <2>5 DEF LogInv
<1>6. ConsentInv'
  BY <1>0, <1>1, ConsentStep DEF StartedStates, ExecutedStates, ABSENT
<1>7. LeaseInv'
  <2>1. act[a].digest # NoContract
    BY <1>0 DEF IInv, LeaseInv, StartedStates
  <2>2. /\ act[a].state \in LeasedStates \ JudgedStates
        /\ r.state \in LeasedStates \ {"LEASED"}
    BY <1>0, <1>1 DEF LeasedStates, StartedStates, ExecutedStates, JudgedStates
  <2>3. act[a].version < r.version /\ r.digest # NoContract
    BY <1>1, <2>1
  <2> QED
    BY <1>0, <1>1, <2>2, <2>3, LeaseStep
<1>8. \A b \in Actions : RowStays(b)
  <2>1. act[a].state \notin ExecutedStates \cup JudgedStates
    BY <1>0 DEF ExecutedStates, JudgedStates
  <2>2. leases' = leases /\ act[a].version <= r.version /\ r.state \in LeasedStates
    BY <1>0, <1>1 DEF LeasedStates, StartedStates, ExecutedStates
  <2> QED
    BY <1>0, <1>1, <2>1, <2>2, RowsStay
<1>9. \A d \in ConfIds : BindingStays(d)
  BY <1>0 DEF BindingStays
<1>10. JobFits(pc[w], job[w])'
  <2>1. c \in Granted(a)'
    BY <1>0, <1>a DEF Granted
  <2>2. act'[a].state = "EXECUTED_PENDING_VERIFICATION"
    BY <1>1, <1>2
  <2> QED
    BY <1>a, <1>0, <1>j, <1>e, <2>1, <2>2 DEF JobFits, Steps, ConfirmSteps,
       ExecuteSteps, ContractSteps, CheckSteps, Granted, LeasedStates,
       StartedStates, ExecutedStates
<1>11. plan.rev <= plan'.rev
  BY <1>p
<1>12. \A v \in Workers \ {w} : pc[v] = "execute_plan_mutation" =>
         job[v].action \in Actions /\ job[v].action # a
  BY <1>a, <1>0, MutatorRuns DEF IInv, MutatorInv
<1> QED
  BY <1>0, <1>2, <1>3, <1>5, <1>6, <1>7, <1>8, <1>9, <1>10, <1>11, <1>12, <1>e,
     WriteStep

\* record_verification_outcome preserves the invariant.
LEMMA RecordVerificationStep ==
    ASSUME IInv, NEW w \in Workers, RecordVerification(w)
    PROVE  IInv'
<1>a. PICK a \in Actions, c \in ConfIds :
        a = job[w].action /\ c = job[w].contract.conf /\ c \in Granted(a)
  BY Fits DEF RecordVerification, JobFits, Steps, ExecuteSteps, ContractSteps, Granted
<1> DEFINE q == Advanced(a, Verdict(w))
           outcome == IF job[w].ok THEN "verification_succeeded"
                      ELSE "verification_failed"
           r == [q EXCEPT !.outcome = outcome]
<1>0. /\ TypeOK /\ job[w] \in Jobs
      /\ job[w].contract.token = 1
      /\ act[a].state = "EXECUTED_PENDING_VERIFICATION"
      /\ ~job[w].ok => plan.rev > act[a].planRev + 1
      /\ act' = [act EXCEPT ![a] = r]
      /\ Enter(w, "release_lease", job[w])
      /\ UNCHANGED <<conf, snap, leases, plan, switch, log>>
  BY <1>a, Fits DEF IInv, RecordVerification, MayRecordVerification, MayAdvance,
     JobFits, ContractSteps
<1>v. /\ Verdict(w) \in JudgedStates
      /\ Verdict(w) = "VERIFICATION_FAILED" => ~job[w].ok
  BY DEF Verdict, JudgedStates
<1>1. /\ r \in Rows /\ r.state = Verdict(w)
      /\ r.version = act[a].version + 1
      /\ r.outcome # "mutation_not_started" /\ r.planRev = act[a].planRev
      /\ r.digest = act[a].digest /\ act[a].version \in Nat
  <2>0. Verdict(w) \in LifecycleStates
    BY <1>v DEF JudgedStates, LifecycleStates, TerminalStates
  <2>1. /\ q \in Rows /\ q.state = Verdict(w)
        /\ q.version = act[a].version + 1
        /\ q.planRev = act[a].planRev
        /\ q.digest = act[a].digest /\ act[a].version \in Nat
    BY <1>0, <2>0, AdvancedRow
  <2>2. outcome \in Outcomes /\ outcome # "mutation_not_started"
    BY DEF Outcomes
  <2> HIDE DEF q, outcome
  <2>3. r \in Rows
    BY <2>1, <2>2 DEF Rows
  <2> QED
    BY <2>1, <2>2, <2>3 DEF Rows
<1> HIDE DEF r
<1>2. /\ act'[a] = r
      /\ \A b \in Actions : b # a => act'[b] = act[b]
  BY <1>0 DEF TypeOK
<1>s. /\ act[a].state \in LeasedStates \ JudgedStates
      /\ act[a].state \in ExecutedStates /\ act[a].state \in StartedStates
      /\ r.state \in ExecutedStates /\ r.state \in StartedStates
      /\ r.state \in LeasedStates \ {"LEASED"} /\ r.state \in JudgedStates
      /\ act[a].state \notin {ABSENT, "CONFIRMATION_REQUIRED"}
      /\ r.state \notin {ABSENT, "CONFIRMATION_REQUIRED"}
      /\ r.state \in ReachedStates
  BY <1>0, <1>1, <1>v DEF LeasedStates, StartedStates, ExecutedStates, JudgedStates,
     ReachedStates, ABSENT
<1>e. /\ pc'[w] = "release_lease" /\ job'[w] = job[w]
      /\ \A v \in Workers \ {w} : pc'[v] = pc[v] /\ job'[v] = job[v]
      /\ pc' \in [Workers -> Steps \cup {"idle", "down"}]
      /\ job' \in [Workers -> Jobs] /\ todo' = todo /\ clock' = clock
  BY <1>0, EnterEffect DEF Steps
<1>3. TypeOK'
  <2>1. act' \in [Actions -> Rows]
    BY <1>0, <1>1 DEF TypeOK
  <2> QED
    BY <1>0, <1>e, <2>1 DEF TypeOK
<1>5. LogInv'
  BY <1>0, <1>1, <1>v, <1>s, LogStep
<1>6. ConsentInv'
  BY <1>0, <1>1, <1>s, ConsentStep
<1>7. LeaseInv'
  <2>1. act[a].digest # NoContract
    BY <1>s DEF IInv, LeaseInv
  <2>2. act[a].version < r.version /\ r.digest # NoContract
    BY <1>1, <2>1
  <2> QED
    BY <1>0, <1>1, <1>s, <2>2, LeaseStep
<1>8. \A b \in Actions : RowStays(b)
  <2>1. leases' = leases /\ act[a].version <= r.version
    BY <1>0, <1>1
  <2> QED
    BY <1>0, <1>1, <1>s, <2>1, RowsStay
<1>9. \A d \in ConfIds : BindingStays(d)
  BY <1>0 DEF BindingStays
<1>10. JobFits(pc[w], job[w])'
  <2>1. c \in Granted(a)'
    BY <1>0, <1>a DEF Granted
  <2> QED
    BY <1>a, <1>0, <1>2, <1>s, <1>e, <2>1 DEF JobFits, Steps, ConfirmSteps,
       ExecuteSteps, ContractSteps, CheckSteps, Granted
<1>11. plan.rev <= plan'.rev
  BY <1>0 DEF TypeOK
<1>12. \A v \in Workers \ {w} : pc[v] = "execute_plan_mutation" =>
         job[v].action \in Actions /\ job[v].action # a
  BY <1>0, MutatorRuns
<1> QED
  BY <1>0, <1>2, <1>3, <1>5, <1>6, <1>7, <1>8, <1>9, <1>10, <1>11, <1>12, <1>e,
     WriteStep

\* release_lease preserves the invariant: it follows the verdict.
LEMMA ReleaseLeaseStep ==
    ASSUME IInv, NEW w \in Workers, ReleaseLease(w)
    PROVE  IInv'
<1>a. PICK a \in Actions : a = job[w].action
  BY Fits DEF ReleaseLease, JobFits, Steps
<1>0. /\ TypeOK /\ act[a].state \in JudgedStates /\ act[a].state \in LeasedStates
      /\ leases' = [leases EXCEPT ![a][1].state = "released"]
      /\ Enter(w, "idle", IdleJob)
      /\ UNCHANGED <<act, conf, snap, plan, switch, log>>
  BY <1>a, Fits DEF IInv, ReleaseLease, Return, JobFits, ContractSteps
<1>1. leases[a] \in Seq(LeaseRows) /\ leases[a][1] \in LeaseRows /\ Len(leases[a]) = 1
  BY <1>0, TheLease DEF IInv, LeaseInv
<1>2. /\ leases'[a] = [leases[a] EXCEPT ![1].state = "released"]
      /\ \A b \in Actions : b # a => leases'[b] = leases[b]
  BY <1>0 DEF TypeOK
<1> DEFINE lease == [leases[a][1] EXCEPT !.state = "released"]
<1>3. lease \in LeaseRows /\ lease.version = leases[a][1].version
  BY <1>1 DEF LeaseRows
<1>4. leases'[a] = [leases[a] EXCEPT ![1] = lease]
  BY <1>2
<1> HIDE DEF lease
<1>5. /\ leases'[a] \in Seq(LeaseRows) /\ Len(leases'[a]) = 1
      /\ leases'[a][1].version = leases[a][1].version
  BY <1>1, <1>3, <1>4
<1>e. /\ pc'[w] = "idle" /\ job'[w] = IdleJob
      /\ \A v \in Workers \ {w} : pc'[v] = pc[v] /\ job'[v] = job[v]
      /\ pc' \in [Workers -> Steps \cup {"idle", "down"}]
      /\ job' \in [Workers -> Jobs] /\ todo' = todo /\ clock' = clock
  BY <1>0, IdleType, EnterEffect
<1>6. TypeOK'
  <2>1. leases' \in [Actions -> Seq(LeaseRows)]
    BY <1>0, <1>2, <1>5 DEF TypeOK
  <2> QED
    BY <1>0, <1>e, <2>1 DEF TypeOK
<1>7. LogInv' /\ ConsentInv'
  BY <1>0 DEF IInv, LogInv, ConsentInv, Granted
<1>8. LeaseInv'
  <2>1. ASSUME NEW b \in Actions
        PROVE  /\ Len(leases'[b]) = Len(leases[b])
               /\ act[b].state \in LeasedStates =>
                    leases'[b][1].version = leases[b][1].version
               /\ act[b].state \notin JudgedStates => leases'[b] = leases[b]
    BY <1>0, <1>1, <1>2, <1>5
  <2> QED
    BY <1>0, <2>1 DEF IInv, LeaseInv, LeasedStates
<1>9. \A b \in Actions : RowStays(b)
  <2>1. \A b \in Actions : leases'[b][1].version = leases[b][1].version
    BY <1>2, <1>5
  <2>2. \A b \in Actions : act[b].version \in Nat
    BY <1>0 DEF TypeOK, Rows
  <2> QED
    BY <1>0, <2>1, <2>2 DEF RowStays
<1>10. \A d \in ConfIds : BindingStays(d)
  BY <1>0 DEF BindingStays
<1>11. JobFits(pc[w], job[w])'
  BY <1>e, RestFits
<1>12. plan.rev <= plan'.rev
  BY <1>0 DEF TypeOK
<1> QED
  BY <1>0, <1>6, <1>7, <1>8, <1>9, <1>10, <1>11, <1>12, <1>e, WriteStep

\* Saving the kill switch disturbs nothing the invariant speaks of.
LEMMA SaveSwitchStep ==
    ASSUME IInv, NEW w \in Workers, SaveSwitch(w)
    PROVE  IInv'
<1>0. /\ TypeOK /\ job[w] \in Jobs
      /\ switch' = [engaged |-> job[w].ok, epoch |-> job[w].contract.epoch]
      /\ Enter(w, "idle", IdleJob)
      /\ UNCHANGED <<act, conf, snap, leases, plan, log>>
  BY Fits DEF IInv, SaveSwitch, Return
<1>e. /\ pc'[w] = "idle" /\ job'[w] = IdleJob
      /\ \A v \in Workers \ {w} : pc'[v] = pc[v] /\ job'[v] = job[v]
      /\ pc' \in [Workers -> Steps \cup {"idle", "down"}]
      /\ job' \in [Workers -> Jobs] /\ todo' = todo /\ clock' = clock
  BY <1>0, IdleType, EnterEffect
<1>1. TypeOK'
  <2>1. switch' \in [engaged : BOOLEAN, epoch : Nat]
    BY <1>0 DEF Jobs, Contracts
  <2> QED
    BY <1>0, <1>e, <2>1 DEF TypeOK
<1>2. LogInv' /\ ConsentInv' /\ LeaseInv'
  BY <1>0 DEF IInv, LogInv, ConsentInv, LeaseInv, Granted
<1>3. \A b \in Actions : RowStays(b)
  BY <1>0 DEF RowStays, TypeOK, Rows
<1>4. \A d \in ConfIds : BindingStays(d)
  BY <1>0 DEF BindingStays
<1>5. JobFits(pc[w], job[w])'
  BY <1>e, RestFits
<1>6. plan.rev <= plan'.rev
  BY <1>0 DEF TypeOK
<1> QED
  BY <1>0, <1>1, <1>2, <1>3, <1>4, <1>5, <1>6, <1>e, WriteStep

\* The recovery sweep's one transition preserves the invariant.
LEMMA RecoverStep ==
    ASSUME IInv, NEW w \in Workers, NEW a \in Actions, Recover(w, a)
    PROVE  IInv'
<1> DEFINE r == Advanced(a, "RECONCILIATION_REQUIRED")
<1>0. /\ TypeOK /\ pc[w] = "sweep"
      /\ act[a].state = "LEASED"
      /\ act' = [act EXCEPT ![a] = r]
      /\ todo' = [todo EXCEPT ![w] = @ \ {a}]
      /\ UNCHANGED <<conf, snap, leases, plan, switch, pc, job, clock, log>>
  BY DEF IInv, Recover, Visit, Recoverable
<1>1. /\ r \in Rows /\ r.state = "RECONCILIATION_REQUIRED"
      /\ r.version = act[a].version + 1
      /\ r.outcome = act[a].outcome /\ r.planRev = act[a].planRev
      /\ r.digest = act[a].digest /\ act[a].version \in Nat
  BY <1>0, AdvancedRow DEF LifecycleStates
<1> HIDE DEF r
<1>2. /\ act'[a] = r
      /\ \A b \in Actions : b # a => act'[b] = act[b]
  BY <1>0 DEF TypeOK
<1>3. TypeOK'
  <2>1. act' \in [Actions -> Rows]
    BY <1>0, <1>1 DEF TypeOK
  <2>2. todo' \in [Workers -> SUBSET Actions]
    BY <1>0 DEF TypeOK
  <2> QED
    BY <1>0, <2>1, <2>2 DEF TypeOK
<1>4. act[a].outcome = "mutation_not_started"
  BY <1>0 DEF IInv, LogInv, ExecutedStates
<1>5. LogInv'
  BY <1>0, <1>1, <1>4, LogStep DEF ReachedStates, LeasedStates, ExecutedStates, ABSENT
<1>6. ConsentInv'
  BY <1>0, <1>1, ConsentStep DEF StartedStates, ExecutedStates, ABSENT
<1>7. LeaseInv'
  <2>1. /\ act[a].state \in LeasedStates \ JudgedStates
        /\ r.state \in LeasedStates \ {"LEASED"} /\ r.state \notin StartedStates
    BY <1>0, <1>1 DEF LeasedStates, StartedStates, ExecutedStates, JudgedStates
  <2>2. act[a].version < r.version
    BY <1>1
  <2> QED
    BY <1>0, <1>1, <2>1, <2>2, LeaseStep
<1>8. \A b \in Actions : RowStays(b)
  <2>1. act[a].state \notin ExecutedStates \cup JudgedStates
    BY <1>0 DEF ExecutedStates, JudgedStates
  <2>2. leases' = leases /\ act[a].version <= r.version /\ r.state \in LeasedStates
    BY <1>0, <1>1 DEF LeasedStates
  <2> QED
    BY <1>0, <1>1, <2>1, <2>2, RowsStay
<1>9. \A d \in ConfIds : BindingStays(d)
  BY <1>0 DEF BindingStays
<1>10. JobFits(pc[w], job[w])'
  BY <1>0, RestFits
<1>11. plan.rev <= plan'.rev
  BY <1>0 DEF TypeOK
<1>12. \A v \in Workers : pc[v] = "execute_plan_mutation" =>
         job[v].action \in Actions /\ job[v].action # a
  BY <1>0, MutatorRuns
<1> QED
  BY <1>0, <1>2, <1>3, <1>5, <1>6, <1>7, <1>8, <1>9, <1>10, <1>11, <1>12, WriteStep

-----------------------------------------------------------------------------
(* The invariant.                                                            *)

\* The empty store satisfies the invariant.
LEMMA InitIInv == Init => IInv
<1> SUFFICES ASSUME Init PROVE IInv
  OBVIOUS
<1>1. NoRow \in Rows /\ NoRow.state = ABSENT /\ NoRow.outcome = "mutation_not_started"
  BY DEF NoRow, Rows, Outcomes, NoContract, Contracts
<1>2. NoBinding \in Bindings /\ NoBinding.state = "none" /\ NoBinding.action = NoAction
  BY DEF NoBinding, Bindings
<1>3. TypeOK
  BY <1>1, <1>2, IdleType DEF Init, TypeOK
<1>4. LogInv
  BY <1>1 DEF Init, LogInv, ReachedStates, ExecutedStates, ABSENT
<1>5. ConsentInv
  BY <1>1, <1>2 DEF Init, ConsentInv, Granted, StartedStates, ExecutedStates
<1>6. LeaseInv
  BY <1>1 DEF Init, LeaseInv, LeasedStates, StartedStates, ExecutedStates, ABSENT
<1>7. JobInv
  BY IdleType, IdleFits DEF Init, JobInv
<1>8. MutatorInv
  BY DEF Init, MutatorInv
<1> QED
  BY <1>3, <1>4, <1>5, <1>6, <1>7, <1>8 DEF IInv

\* Every step of every worker, crash and tick preserves the invariant.
LEMMA StepIInv == IInv /\ [Next]_vars => IInv'
<1> SUFFICES ASSUME IInv, [Next]_vars PROVE IInv'
  OBVIOUS
<1>1. ASSUME NEW w \in Workers, Call(w) PROVE IInv'
  BY <1>1, CallSteps
<1>2. ASSUME NEW w \in Workers, Proceed(w) PROVE IInv'
  <2>1. CASE \/ BuildConfirmation(w) \/ CaptureSnapshot(w) \/ BuildContract(w)
             \/ ValidateWorld(w) \/ BindRead(w) \/ PassGate(w) \/ ReadBack(w)
             \/ Refuse(w) \/ FinishSweep(w)
    BY <2>1, ReadSteps
  <2>2. CASE RegisterAction(w) \/ PutPending(w) \/ RecordConfirmation(w)
    BY <2>2, RegisterActionStep, PutPendingStep, RecordConfirmationStep
  <2>3. CASE CommitSnapshot(w) \/ AcquireLease(w) \/ BindWrite(w)
    BY <2>3, CommitSnapshotStep, AcquireLeaseStep, BindWriteStep
  <2>4. CASE BeginExecution(w) \/ ExecutePlanMutation(w) \/ RecordVerification(w)
    BY <2>4, BeginExecutionStep, ExecutePlanMutationStep, RecordVerificationStep
  <2>5. CASE ReleaseLease(w) \/ SaveSwitch(w)
    BY <2>5, ReleaseLeaseStep, SaveSwitchStep
  <2>6. CASE \E a \in Actions : Recover(w, a)
    BY <2>6, RecoverStep
  <2>7. CASE \E a \in Actions : Observe(w, a)
    BY <2>7, ProcessSteps
  <2> QED
    BY <1>2, <2>1, <2>2, <2>3, <2>4, <2>5, <2>6, <2>7 DEF Proceed
<1>3. CASE Tick \/ \E w \in Workers : Crash(w) \/ Restart(w)
  BY <1>3, ProcessSteps
<1>4. CASE UNCHANGED vars
  <2>1. UNCHANGED <<act, conf, snap, leases, plan, switch, pc, job, todo, clock, log>>
    BY <1>4 DEF vars
  <2>2. TypeOK' /\ LogInv' /\ LeaseInv'
    BY <2>1 DEF IInv, TypeOK, LogInv, LeaseInv
  <2>3. ConsentInv' /\ MutatorInv'
    BY <2>1 DEF IInv, ConsentInv, MutatorInv, Granted
  <2>4. JobInv'
    BY <2>1 DEF IInv, JobInv, JobFits, Granted
  <2> QED
    BY <2>2, <2>3, <2>4 DEF IInv
<1> QED
  BY <1>1, <1>2, <1>3, <1>4 DEF Next

\* The inductive invariant holds in every reachable state: between any two
\* steps of any workers, the database is consistent with what every call knows.
THEOREM Invariance == Spec => []IInv
  BY InitIInv, StepIInv, PTL DEF Spec

\* Type correctness.
THEOREM TypeCorrectness == Spec => []TypeOK
<1>1. IInv => TypeOK
  BY DEF IInv
<1> QED
  BY <1>1, Invariance, PTL

\* Exactly-once: execute_plan_mutation applies an action at most once, at the
\* revision it was authorized for, whatever retries, duplicates and crashes do.
THEOREM ExactlyOnce == Spec => []AppliedOnce
<1>1. IInv => AppliedOnce
  BY DEF IInv, LogInv, AppliedOnce
<1> QED
  BY <1>1, Invariance, PTL

\* The recorded outcome says that the mutation happened if and only if it did.
THEOREM TruthfulOutcome == Spec => []OutcomeIsTruthful
<1>1. IInv => OutcomeIsTruthful
  <2> SUFFICES ASSUME IInv, NEW a \in Actions
               PROVE  /\ act[a].outcome # "mutation_not_started"
                           <=> \E i \in DOMAIN log : log[i] = a
                      /\ act[a].state \in ExecutedStates
                           <=> act[a].outcome # "mutation_not_started"
    BY DEF OutcomeIsTruthful
  <2> QED
    BY DEF IInv, LogInv
<1> QED
  BY <1>1, Invariance, PTL

\* One confirmation at most is granted for an action, and it is spent if and
\* only if begin_execution was.
THEOREM SingleConsent == Spec => []ConsentSpentOnce
<1>1. IInv => ConsentSpentOnce
  <2> SUFFICES ASSUME IInv, NEW a \in Actions
               PROVE  /\ \A c, d \in Granted(a) : c = d
                      /\ Granted(a) # {}
                           <=> act[a].state \notin {ABSENT, "CONFIRMATION_REQUIRED"}
                      /\ (\E c \in Granted(a) : conf[c].state = "consumed")
                           <=> act[a].state \in StartedStates
    BY DEF ConsentSpentOnce
  <2>1. act[a].state \in StartedStates =>
          act[a].state \notin {ABSENT, "CONFIRMATION_REQUIRED"}
    BY DEF StartedStates, ExecutedStates, ABSENT
  <2> QED
    BY <2>1 DEF IInv, ConsentInv
<1> QED
  BY <1>1, Invariance, PTL

\* A recorded verdict is right, although reading back and recording are two
\* steps.
THEOREM SoundVerdict == Spec => []VerdictIsSound
<1>1. IInv => VerdictIsSound
  BY DEF IInv, LogInv, VerdictIsSound, ExecutedStates
<1> QED
  BY <1>1, Invariance, PTL

\* An action is leased once, and one worker at most is about to mutate the
\* plan for it.
THEOREM Fencing == Spec => []OneMutator
<1>1. IInv => OneMutator
  <2> SUFFICES ASSUME IInv PROVE OneMutator
    OBVIOUS
  <2>1. ASSUME NEW a \in Actions PROVE Len(leases[a]) <= 1
    <3>1. act[a].state \in LeasedStates => Len(leases[a]) = 1
      BY DEF IInv, LeaseInv
    <3>2. act[a].state \notin LeasedStates => Len(leases[a]) = 0
      BY DEF IInv, LeaseInv
    <3>3. leases[a] \in Seq(LeaseRows)
      BY DEF IInv, TypeOK
    <3>4. Len(leases[a]) \in Nat
      BY <3>3
    <3>5. Len(leases[a]) = 0 \/ Len(leases[a]) = 1
      BY <3>1, <3>2
    <3>6. \A n \in Nat : n = 0 \/ n = 1 => n <= 1
      OBVIOUS
    <3> QED
      BY <3>4, <3>5, <3>6
  <2> QED
    BY <2>1 DEF IInv, MutatorInv, OneMutator
<1> QED
  BY <1>1, Invariance, PTL

-----------------------------------------------------------------------------
(* What a step may do: the action properties, and the refinement of          *)
(* PlanRegister.                                                             *)

\* The transactions that write an action, a lease or the plan.
Writes(w) ==
    \/ RegisterAction(w) \/ RecordConfirmation(w) \/ CommitSnapshot(w)
    \/ AcquireLease(w) \/ BindWrite(w) \/ BeginExecution(w)
    \/ ExecutePlanMutation(w) \/ RecordVerification(w) \/ ReleaseLease(w)
    \/ \E a \in Actions : Recover(w, a)

\* Only the transactions of Writes change an action's row, a lease, the plan or
\* the log.
LEMMA WhoWrites ==
    ASSUME [Next]_vars
    PROVE  \/ UNCHANGED <<act, leases, plan, log>>
           \/ \E w \in Workers : Writes(w)
<1>1. ASSUME NEW w \in Workers, Call(w) PROVE UNCHANGED <<act, leases, plan, log>>
  BY <1>1 DEF Call, Authorize, ReusePending, RequestConfirmation, ResumeCapture,
     ExecuteAction, ReadSwitch, db
<1>2. ASSUME NEW w \in Workers, Proceed(w), ~Writes(w)
      PROVE  UNCHANGED <<act, leases, plan, log>>
  <2>1. CASE PutPending(w) \/ SaveSwitch(w)
    BY <2>1 DEF PutPending, SaveSwitch
  <2>2. CASE BuildConfirmation(w) \/ CaptureSnapshot(w) \/ BuildContract(w)
             \/ ValidateWorld(w) \/ BindRead(w)
    BY <2>2 DEF BuildConfirmation, CaptureSnapshot, BuildContract, ValidateWorld,
       BindRead, db
  <2>3. CASE PassGate(w) \/ ReadBack(w) \/ Refuse(w) \/ FinishSweep(w)
    BY <2>3 DEF PassGate, ReadBack, Refuse, FinishSweep, db
  <2>4. CASE \E a \in Actions : Observe(w, a)
    BY <2>4 DEF Observe, Visit
  <2> QED
    BY <1>2, <2>1, <2>2, <2>3, <2>4 DEF Proceed, Writes
<1>3. CASE Tick \/ \E w \in Workers : Crash(w) \/ Restart(w)
  BY <1>3 DEF Tick, Crash, Restart, db
<1>4. CASE UNCHANGED vars
  BY <1>4 DEF vars
<1> QED
  BY <1>1, <1>2, <1>3, <1>4 DEF Next

\* Only execute_plan_mutation writes the plan.
LEMMA WhoMutates ==
    ASSUME [Next]_vars, plan' # plan
    PROVE  \E w \in Workers : ExecutePlanMutation(w)
<1>1. PICK w \in Workers : Writes(w)
  BY WhoWrites
<1>2. \/ ExecutePlanMutation(w)
      \/ plan' = plan
  BY <1>1 DEF Writes, RegisterAction, RecordConfirmation, CommitSnapshot,
     AcquireLease, BindWrite, BeginExecution, RecordVerification, ReleaseLease,
     Recover, Visit
<1> QED
  BY <1>2

\* A mutation commits only for a running action with its snapshot, its spent
\* consent, its contract and its lease on record.
THEOREM AuthorizedMutation == Spec => MutationIsAuthorized
<1> DEFINE Authorized ==
      \E a \in Actions :
        /\ log' = Append(log, a)
        /\ act[a].state = "RUNNING"
        /\ snap[a] = plan.rev
        /\ \E c \in Granted(a) : conf[c].state = "consumed"
        /\ act[a].digest # NoContract
        /\ \E i \in DOMAIN leases[a] : leases[a][i].state = "granted"
<1>1. IInv /\ [Next]_vars => [plan' # plan => Authorized]_vars
  <2> SUFFICES ASSUME IInv, [Next]_vars, plan' # plan PROVE Authorized
    OBVIOUS
  <2>1. PICK w \in Workers : ExecutePlanMutation(w)
    BY WhoMutates
  <2>2. PICK a \in Actions : a = job[w].action
    BY <2>1, Fits DEF ExecutePlanMutation, JobFits, Steps
  <2>3. log' = Append(log, a) /\ act[a].state = "RUNNING" /\ plan.rev = act[a].planRev
    BY <2>1, <2>2 DEF ExecutePlanMutation, MayExecutePlanMutation, MayAdvance
  <2>4. /\ act[a].state \in LeasedStates \ JudgedStates
        /\ act[a].state \in StartedStates
        /\ act[a].state \notin {ABSENT, "CONFIRMATION_REQUIRED"}
    BY <2>3 DEF LeasedStates, StartedStates, JudgedStates, ABSENT
  <2>5. snap[a] = plan.rev /\ act[a].digest # NoContract
    BY <2>3, <2>4 DEF IInv, LeaseInv
  <2>6. \E c \in Granted(a) : conf[c].state = "consumed"
    BY <2>4 DEF IInv, ConsentInv
  <2>7. 1 \in DOMAIN leases[a] /\ leases[a][1].state = "granted"
    BY <2>4, TheLease DEF IInv, LeaseInv
  <2> QED
    BY <2>3, <2>5, <2>6, <2>7
<1> QED
  BY <1>1, Invariance, PTL DEF Spec, MutationIsAuthorized

-----------------------------------------------------------------------------
(* Rows.                                                                     *)

\* The row of one action is rewritten: its state stays or takes a valid
\* transition, and its plan revision and lifetime stay.
Rewrites(a, r) ==
    /\ act' = [act EXCEPT ![a] = r]
    /\ r \in Rows
    /\ act[a].state # ABSENT /\ r.state # ABSENT
    /\ r.planRev = act[a].planRev /\ r.expires = act[a].expires
    /\ \/ r.state = act[a].state
       \/ /\ ValidTransition(act[a].state, r.state, FALSE)
          /\ r.version = act[a].version + 1

\* Such a transaction inserts a row, leaves the rows alone or rewrites one along
\* the transition table; only record_verification_outcome changes a verdict.
LEMMA WriteEffect ==
    ASSUME IInv, NEW w \in Workers, Writes(w)
    PROVE  \/ RegisterAction(w)
           \/ act' = act
           \/ \E a \in Actions, r \in Rows :
                /\ Rewrites(a, r)
                /\ RecordVerification(w) \/ VerdictOf(r.state) = VerdictOf(act[a].state)
<1>0. TypeOK /\ job[w] \in Jobs /\ JobFits(pc[w], job[w])
  BY Fits DEF IInv
\* The row of a compare-and-swap that advances the action.
<1>1. ASSUME NEW a \in Actions, NEW to \in LifecycleStates, NEW from, NEW expired,
             act[a].state = from, from # ABSENT, ValidTransition(from, to, expired)
      PROVE  LET r == Advanced(a, to)
             IN  /\ r \in Rows /\ r.state # ABSENT
                 /\ r.planRev = act[a].planRev /\ r.expires = act[a].expires
                 /\ r.version = act[a].version + 1 /\ r.state = to
                 /\ ValidTransition(act[a].state, r.state, FALSE)
  <2>1. to # ABSENT
    BY DEF LifecycleStates, TerminalStates, ABSENT
  <2>2. ValidTransition(from, to, FALSE)
    BY <1>1 DEF ValidTransition
  <2> QED
    BY <1>0, <1>1, <2>1, <2>2, AdvancedRow
<1>2. CASE RecordConfirmation(w)
  <2>1. PICK a \in Actions : a = job[w].action
    BY <1>0, <1>2 DEF RecordConfirmation, JobFits, Steps
  <2>2. /\ act' = [act EXCEPT ![a] = Advanced(a, "CONFIRMED")]
        /\ act[a].state = "CONFIRMATION_REQUIRED"
        /\ ValidTransition("CONFIRMATION_REQUIRED", "CONFIRMED", Expired(a, job[w].now))
    BY <1>2, <2>1 DEF RecordConfirmation, MayRecordConfirmation, MayAdvance
  <2>3. Rewrites(a, Advanced(a, "CONFIRMED")) /\ Advanced(a, "CONFIRMED") \in Rows
        /\ Advanced(a, "CONFIRMED").state = "CONFIRMED"
    BY <2>2, <1>1 DEF Rewrites, LifecycleStates, ABSENT
  <2> QED
    BY <2>2, <2>3 DEF VerdictOf
<1>3. CASE CommitSnapshot(w)
  <2>1. PICK a \in Actions : a = job[w].action
    BY <1>0, <1>3 DEF CommitSnapshot, JobFits, Steps
  <2>2. /\ act' = [act EXCEPT ![a] = Advanced(a, "SNAPSHOT_CAPTURED")]
        /\ act[a].state = "CONFIRMED"
        /\ ValidTransition("CONFIRMED", "SNAPSHOT_CAPTURED", Expired(a, job[w].now))
    BY <1>3, <2>1 DEF CommitSnapshot, MayCommitSnapshot, MayAdvance
  <2>3. /\ Rewrites(a, Advanced(a, "SNAPSHOT_CAPTURED"))
        /\ Advanced(a, "SNAPSHOT_CAPTURED") \in Rows
        /\ Advanced(a, "SNAPSHOT_CAPTURED").state = "SNAPSHOT_CAPTURED"
    BY <2>2, <1>1 DEF Rewrites, LifecycleStates, ABSENT
  <2> QED
    BY <2>2, <2>3 DEF VerdictOf
<1>4. CASE AcquireLease(w)
  <2>1. PICK a \in Actions : a = job[w].action
    BY <1>0, <1>4 DEF AcquireLease, JobFits, Steps
  <2>2. /\ act' = [act EXCEPT ![a] = Advanced(a, "LEASED")]
        /\ act[a].state = "SNAPSHOT_CAPTURED"
        /\ ValidTransition("SNAPSHOT_CAPTURED", "LEASED", Expired(a, job[w].now))
    BY <1>4, <2>1 DEF AcquireLease, MayAcquireLease, MayAdvance
  <2>3. Rewrites(a, Advanced(a, "LEASED")) /\ Advanced(a, "LEASED") \in Rows
        /\ Advanced(a, "LEASED").state = "LEASED"
    BY <2>2, <1>1 DEF Rewrites, LifecycleStates, ABSENT
  <2> QED
    BY <2>2, <2>3 DEF VerdictOf
<1>5. CASE BindWrite(w)
  <2>1. PICK a \in Actions : a = job[w].action /\ act[a].state \in LeasedStates
    BY <1>0, <1>5 DEF BindWrite, JobFits, Steps, ContractSteps
  <2> DEFINE q == [act[a] EXCEPT !.digest = job[w].contract]
             r == IF act[a].version = job[w].version THEN q ELSE act[a]
  <2>2. act' = [act EXCEPT ![a] = r]
    BY <1>5, <2>1 DEF BindWrite
  <2>3. act[a] \in Rows /\ act[a].state # ABSENT
    BY <1>0, <2>1 DEF TypeOK, LeasedStates, StartedStates, ExecutedStates, ABSENT
  <2>4. job[w].contract \in Contracts
    BY <1>0 DEF Jobs
  <2>5. /\ q \in Rows /\ q.state = act[a].state
        /\ q.planRev = act[a].planRev /\ q.expires = act[a].expires
    BY <2>3, <2>4 DEF Rows
  <2> HIDE DEF q
  <2>6. /\ r \in Rows /\ r.state = act[a].state
        /\ r.planRev = act[a].planRev /\ r.expires = act[a].expires
    BY <2>3, <2>5
  <2> HIDE DEF r
  <2>7. Rewrites(a, r)
    BY <2>2, <2>3, <2>6 DEF Rewrites
  <2> QED
    BY <2>6, <2>7
<1>6. CASE BeginExecution(w)
  <2>1. PICK a \in Actions : a = job[w].action
    BY <1>0, <1>6 DEF BeginExecution, JobFits, Steps
  <2>2. /\ act' = [act EXCEPT ![a] = Advanced(a, "RUNNING")]
        /\ act[a].state = "LEASED"
        /\ ValidTransition("LEASED", "RUNNING", Expired(a, job[w].now))
    BY <1>6, <2>1 DEF BeginExecution, MayBeginExecution, MayAdvance
  <2>3. Rewrites(a, Advanced(a, "RUNNING")) /\ Advanced(a, "RUNNING") \in Rows
        /\ Advanced(a, "RUNNING").state = "RUNNING"
    BY <2>2, <1>1 DEF Rewrites, LifecycleStates, ABSENT
  <2> QED
    BY <2>2, <2>3 DEF VerdictOf
<1>7. CASE ExecutePlanMutation(w)
  <2>1. PICK a \in Actions : a = job[w].action
    BY <1>0, <1>7 DEF ExecutePlanMutation, JobFits, Steps
  <2> DEFINE q == Advanced(a, "EXECUTED_PENDING_VERIFICATION")
             r == [q EXCEPT !.outcome = "mutation_succeeded"]
  <2>2. /\ act' = [act EXCEPT ![a] = r]
        /\ act[a].state = "RUNNING"
        /\ ValidTransition("RUNNING", "EXECUTED_PENDING_VERIFICATION",
                           Expired(a, job[w].now))
    BY <1>7, <2>1 DEF ExecutePlanMutation, MayExecutePlanMutation, MayAdvance
  <2>3. /\ q \in Rows /\ q.state = "EXECUTED_PENDING_VERIFICATION"
        /\ q.planRev = act[a].planRev /\ q.expires = act[a].expires
        /\ q.version = act[a].version + 1
        /\ ValidTransition(act[a].state, q.state, FALSE) /\ act[a].state # ABSENT
        /\ q.state # ABSENT
    BY <2>2, <1>1 DEF LifecycleStates, ABSENT
  <2> HIDE DEF q
  <2>4. r \in Rows
    BY <2>3 DEF Rows, Outcomes
  <2>5. /\ r.state = q.state /\ r.version = q.version
        /\ r.planRev = q.planRev /\ r.expires = q.expires
    BY <2>3 DEF Rows
  <2> HIDE DEF r
  <2>6. Rewrites(a, r)
    BY <2>2, <2>3, <2>4, <2>5 DEF Rewrites
  <2> QED
    BY <2>2, <2>3, <2>4, <2>5, <2>6 DEF VerdictOf
<1>8. CASE RecordVerification(w)
  <2>1. PICK a \in Actions : a = job[w].action
    BY <1>0, <1>8 DEF RecordVerification, JobFits, Steps
  <2> DEFINE q == Advanced(a, Verdict(w))
             outcome == IF job[w].ok THEN "verification_succeeded"
                        ELSE "verification_failed"
             r == [q EXCEPT !.outcome = outcome]
  <2>2. /\ act' = [act EXCEPT ![a] = r]
        /\ act[a].state = "EXECUTED_PENDING_VERIFICATION"
        /\ ValidTransition("EXECUTED_PENDING_VERIFICATION", Verdict(w),
                           Expired(a, job[w].now))
    BY <1>8, <2>1 DEF RecordVerification, MayRecordVerification, MayAdvance
  <2>v. Verdict(w) \in LifecycleStates
    BY DEF Verdict, LifecycleStates, TerminalStates
  <2>3. /\ q \in Rows /\ q.state # ABSENT
        /\ q.planRev = act[a].planRev /\ q.expires = act[a].expires
        /\ q.version = act[a].version + 1
        /\ ValidTransition(act[a].state, q.state, FALSE) /\ act[a].state # ABSENT
    BY <2>2, <2>v, <1>1 DEF ABSENT
  <2>o. outcome \in Outcomes
    BY DEF Outcomes
  <2> HIDE DEF q, outcome
  <2>4. r \in Rows
    BY <2>3, <2>o DEF Rows
  <2>5. /\ r.state = q.state /\ r.version = q.version
        /\ r.planRev = q.planRev /\ r.expires = q.expires
    BY <2>3 DEF Rows
  <2> HIDE DEF r
  <2>6. Rewrites(a, r)
    BY <2>2, <2>3, <2>4, <2>5 DEF Rewrites
  <2> QED
    BY <1>8, <2>4, <2>6
<1>9. CASE \E a \in Actions : Recover(w, a)
  <2>1. PICK a \in Actions : Recover(w, a)
    BY <1>9
  <2>2. /\ act' = [act EXCEPT ![a] = Advanced(a, "RECONCILIATION_REQUIRED")]
        /\ act[a].state = "LEASED"
        /\ ValidTransition("LEASED", "RECONCILIATION_REQUIRED", Expired(a, clock))
    BY <2>1 DEF Recover, Recoverable
  <2>3. /\ Rewrites(a, Advanced(a, "RECONCILIATION_REQUIRED"))
        /\ Advanced(a, "RECONCILIATION_REQUIRED") \in Rows
        /\ Advanced(a, "RECONCILIATION_REQUIRED").state = "RECONCILIATION_REQUIRED"
    BY <2>2, <1>1 DEF Rewrites, LifecycleStates, ABSENT
  <2> QED
    BY <2>2, <2>3 DEF VerdictOf
<1>10. CASE ReleaseLease(w)
  BY <1>10 DEF ReleaseLease
<1> QED
  BY <1>2, <1>3, <1>4, <1>5, <1>6, <1>7, <1>8, <1>9, <1>10 DEF Writes

\* Every change of an action's state follows the transition table, one version
\* at a time; none leaves a terminal state.
THEOREM LegalLifecycle == Spec => LifecycleIsLegal
<1> DEFINE Legal ==
      \A a \in Actions :
        act'[a].state # act[a].state =>
          \/ act[a].state = ABSENT /\ act'[a].state = "CONFIRMATION_REQUIRED"
          \/ /\ act'[a].version = act[a].version + 1
             /\ ValidTransition(act[a].state, act'[a].state, FALSE)
<1>1. IInv /\ [Next]_vars => [Legal]_vars
  <2> SUFFICES ASSUME IInv, [Next]_vars PROVE Legal
    OBVIOUS
  <2>0. act \in [Actions -> Rows]
    BY DEF IInv, TypeOK
  <2>1. CASE act' = act
    BY <2>1
  <2>2. ASSUME NEW w \in Workers, RegisterAction(w) PROVE Legal
    <3>1. \A b \in Actions : b # job[w].action => act'[b] = act[b]
      BY <2>0, <2>2 DEF RegisterAction
    <3>2. \A b \in Actions : b = job[w].action =>
            act[b].state = ABSENT /\ act'[b].state = "CONFIRMATION_REQUIRED"
      BY <2>0, <2>2 DEF RegisterAction
    <3> QED
      BY <3>1, <3>2
  <2>3. ASSUME NEW a \in Actions, NEW r \in Rows, Rewrites(a, r) PROVE Legal
    <3>1. act'[a] = r /\ \A b \in Actions : b # a => act'[b] = act[b]
      BY <2>0, <2>3 DEF Rewrites
    <3> QED
      BY <2>3, <3>1 DEF Rewrites
  <2> QED
    BY <2>1, <2>2, <2>3, WhoWrites, WriteEffect
<1> QED
  BY <1>1, Invariance, PTL DEF Spec, LifecycleIsLegal

-----------------------------------------------------------------------------
(* Lifetimes.                                                                *)

\* The calls that take the clock for a lifetime, and everyone else.
LEMMA WhoTakesTheClock ==
    ASSUME IInv, [Next]_vars, NEW v \in Workers
    PROVE  \/ pc'[v] = pc[v] /\ job'[v] = job[v]
           \/ pc'[v] = "register" /\ job'[v].now = clock
           \/ /\ pc'[v] = "acquire_lease" /\ job'[v].now = clock
              /\ job'[v].action \in Actions
              /\ act[job'[v].action].state # ABSENT
           \/ pc'[v] \notin {"register", "acquire_lease"}
<1> DEFINE Goal == \/ pc'[v] = pc[v] /\ job'[v] = job[v]
                   \/ pc'[v] = "register" /\ job'[v].now = clock
                   \/ /\ pc'[v] = "acquire_lease" /\ job'[v].now = clock
                      /\ job'[v].action \in Actions
                      /\ act[job'[v].action].state # ABSENT
                   \/ pc'[v] \notin {"register", "acquire_lease"}
<1>0. TypeOK
  BY DEF IInv
<1>e. ASSUME NEW w \in Workers, NEW s, NEW j, Enter(w, s, j)
      PROVE  IF v = w THEN pc'[v] = s /\ job'[v] = j
             ELSE pc'[v] = pc[v] /\ job'[v] = job[v]
  BY <1>0, <1>e DEF TypeOK, Enter
<1>f. ASSUME NEW w \in Workers, NEW s, NEW j, Enter(w, s, j),
             s \notin {"register", "acquire_lease"}
      PROVE  Goal
  BY <1>e, <1>f
<1>1. ASSUME NEW w \in Workers, NEW a \in Actions, Authorize(w, a) PROVE Goal
  <2> DEFINE j == [For(a) EXCEPT !.now = clock, !.rev = plan.rev]
  <2>1. j.now = clock
    BY ForType DEF Jobs
  <2>2. Enter(w, "register", j)
    BY <1>1 DEF Authorize
  <2> HIDE DEF j
  <2> QED
    BY <1>e, <2>1, <2>2
<1>2. ASSUME NEW w \in Workers, NEW a \in Actions, ExecuteAction(w, a) PROVE Goal
  <2> DEFINE s == IF act[a].state = "SNAPSHOT_CAPTURED"
                  THEN "acquire_lease" ELSE "build_contract"
             j(c) == [For(a) EXCEPT !.now = clock, !.version = act[a].version,
                                    !.contract.conf = c]
  <2>1. PICK c \in ConfIds : Enter(w, s, j(c))
    BY <1>2 DEF ExecuteAction
  <2>2. j(c).now = clock /\ j(c).action = a
    BY ForType DEF Jobs
  <2>3. act[a].state # ABSENT
    BY <1>2 DEF ExecuteAction
  <2>4. s = "acquire_lease" \/ s = "build_contract"
    OBVIOUS
  <2> HIDE DEF j, s
  <2>5. IF v = w THEN pc'[v] = s /\ job'[v] = j(c)
        ELSE pc'[v] = pc[v] /\ job'[v] = job[v]
    BY <1>e, <2>1
  <2>6. CASE v = w
    BY <2>2, <2>3, <2>4, <2>5, <2>6
  <2>7. CASE v # w
    BY <2>5, <2>7
  <2> QED
    BY <2>6, <2>7
<1>3. ASSUME NEW w \in Workers, NEW a \in Actions,
             ReusePending(w, a) \/ RequestConfirmation(w, a) \/ ResumeCapture(w, a)
      PROVE  Goal
  <2>1. CASE ReusePending(w, a)
    <3>1. PICK c : Enter(w, "build_confirmation", [For(a) EXCEPT !.contract.conf = c])
      BY <2>1 DEF ReusePending
    <3> QED
      BY <3>1, <1>f
  <2>2. CASE RequestConfirmation(w, a) \/ ResumeCapture(w, a)
    BY <2>2, <1>f DEF RequestConfirmation, ResumeCapture
  <2> QED
    BY <1>3, <2>1, <2>2
<1>4. ASSUME NEW w \in Workers, NEW engage \in BOOLEAN, ReadSwitch(w, engage)
      PROVE  Goal
  BY <1>4, <1>f DEF ReadSwitch
<1>5. ASSUME NEW w \in Workers, Proceed(w) PROVE Goal
  <2>0. CASE PutPending(w)
    <3>1. PICK c : Enter(w, "build_confirmation",
                         [For(job[w].action) EXCEPT !.contract.conf = c])
      BY <2>0 DEF PutPending
    <3> QED
      BY <3>1, <1>f
  <2>1. CASE \/ RegisterAction(w) \/ BuildConfirmation(w)
             \/ RecordConfirmation(w) \/ CaptureSnapshot(w) \/ CommitSnapshot(w)
    BY <2>1, <1>f DEF RegisterAction, BuildConfirmation,
       RecordConfirmation, CaptureSnapshot, CommitSnapshot, Return
  <2>2. CASE AcquireLease(w) \/ BuildContract(w) \/ BindWrite(w) \/ BeginExecution(w)
    BY <2>2, <1>f DEF AcquireLease, BuildContract, BindWrite, BeginExecution
  <2>3. CASE ValidateWorld(w)
    BY <2>3, <1>f DEF ValidateWorld
  <2>4. CASE BindRead(w)
    BY <2>4, <1>f DEF BindRead
  <2>5. CASE PassGate(w)
    BY <2>5, <1>f DEF PassGate
  <2>6. CASE ExecutePlanMutation(w) \/ ReadBack(w) \/ RecordVerification(w)
             \/ ReleaseLease(w) \/ Refuse(w) \/ SaveSwitch(w) \/ FinishSweep(w)
    BY <2>6, <1>f DEF ExecutePlanMutation, ReadBack, RecordVerification,
       ReleaseLease, Refuse, SaveSwitch, FinishSweep, Return
  <2>7. CASE \E a \in Actions : Recover(w, a) \/ Observe(w, a)
    BY <2>7 DEF Recover, Observe, Visit
  <2> QED
    BY <1>5, <2>0, <2>1, <2>2, <2>3, <2>4, <2>5, <2>6, <2>7 DEF Proceed
<1>6. CASE Tick \/ \E w \in Workers : Crash(w) \/ Restart(w)
  BY <1>0, <1>6 DEF Tick, Crash, Restart, TypeOK
<1>7. CASE UNCHANGED vars
  BY <1>7 DEF vars
<1> QED
  BY <1>1, <1>2, <1>3, <1>4, <1>5, <1>6, <1>7 DEF Next, Call

\* No step turns the clock back.
LEMMA ClockAdvances ==
    ASSUME IInv, [Next]_vars
    PROVE  clock \in Nat /\ clock' \in Nat /\ clock <= clock'
<1>1. clock \in Nat
  BY DEF IInv, TypeOK
<1>2. \/ clock' = clock + 1
      \/ clock' = clock
  <2>1. ASSUME NEW w \in Workers, Call(w) PROVE clock' = clock
    BY <2>1 DEF Call, Authorize, ReusePending, RequestConfirmation, ResumeCapture,
       ExecuteAction, ReadSwitch, Enter
  <2>2. ASSUME NEW w \in Workers, Proceed(w) PROVE clock' = clock
    <3>1. CASE \/ RegisterAction(w) \/ PutPending(w) \/ BuildConfirmation(w)
               \/ RecordConfirmation(w) \/ CaptureSnapshot(w) \/ CommitSnapshot(w)
      BY <3>1 DEF RegisterAction, PutPending, BuildConfirmation,
         RecordConfirmation, CaptureSnapshot, CommitSnapshot, Return, Enter
    <3>2. CASE \/ AcquireLease(w) \/ BuildContract(w) \/ ValidateWorld(w)
               \/ BindRead(w) \/ BindWrite(w) \/ PassGate(w)
      BY <3>2 DEF AcquireLease, BuildContract, ValidateWorld, BindRead, BindWrite,
         PassGate, Enter
    <3>3. CASE \/ BeginExecution(w) \/ ExecutePlanMutation(w) \/ ReadBack(w)
               \/ RecordVerification(w) \/ ReleaseLease(w) \/ Refuse(w)
               \/ SaveSwitch(w) \/ FinishSweep(w)
      BY <3>3 DEF BeginExecution, ExecutePlanMutation, ReadBack, RecordVerification,
         ReleaseLease, Refuse, SaveSwitch, FinishSweep, Return, Enter
    <3>4. CASE \E a \in Actions : Recover(w, a) \/ Observe(w, a)
      BY <3>4 DEF Recover, Observe, Visit
    <3> QED
      BY <2>2, <3>1, <3>2, <3>3, <3>4 DEF Proceed
  <2>3. CASE Tick \/ \E w \in Workers : Crash(w) \/ Restart(w)
    BY <2>3 DEF Tick, Crash, Restart
  <2>4. CASE UNCHANGED vars
    BY <2>4 DEF vars
  <2> QED
    BY <2>1, <2>2, <2>3, <2>4 DEF Next
<1> QED
  BY <1>1, <1>2

\* The lifetime of a row stays once it is registered.
LEMMA Lifetimes ==
    ASSUME IInv, TimeInv, [Next]_vars, NEW a \in Actions
    PROVE  /\ act'[a].expires \in Nat /\ act[a].expires \in Nat
           /\ act[a].state # ABSENT =>
                act'[a].state # ABSENT /\ act'[a].expires = act[a].expires
           /\ act'[a].expires <= clock + DecisionTTL
<1>0. /\ act \in [Actions -> Rows] /\ act' \in [Actions -> Rows]
      /\ clock \in Nat /\ DecisionTTL \in Nat /\ act[a].expires <= clock + DecisionTTL
  BY StepIInv, ConstantsAssumption DEF IInv, TypeOK, TimeInv
<1>1. act'[a].expires \in Nat /\ act[a].expires \in Nat
  BY <1>0 DEF Rows
<1>2. CASE act' = act
  BY <1>0, <1>1, <1>2
<1>3. ASSUME NEW w \in Workers, RegisterAction(w)
      PROVE  /\ act[a].state # ABSENT => act'[a] = act[a]
             /\ act'[a].expires <= clock + DecisionTTL
  <2>1. job[w].action \in Actions
    BY <1>3, Fits DEF RegisterAction, JobFits, Steps
  <2>2. job[w].now <= clock /\ job[w].now \in Nat
    BY <1>3, Fits DEF RegisterAction, TimeInv, Jobs
  <2>3. CASE job[w].action = a
    <3>1. act'[a].expires = job[w].now + DecisionTTL /\ act[a].state = ABSENT
      BY <1>0, <1>3, <2>3 DEF RegisterAction
    <3> QED
      BY <1>0, <2>2, <3>1
  <2>4. CASE job[w].action # a
    BY <1>0, <1>3, <2>4 DEF RegisterAction
  <2> QED
    BY <2>3, <2>4
<1>4. ASSUME NEW b \in Actions, NEW r \in Rows, Rewrites(b, r)
      PROVE  /\ act'[a].expires = act[a].expires
             /\ act[a].state # ABSENT => act'[a].state # ABSENT
  BY <1>0, <1>4 DEF Rewrites
<1> QED
  BY <1>0, <1>1, <1>2, <1>3, <1>4, WhoWrites, WriteEffect

\* Every step preserves the relation between the clock and the lifetimes.
LEMMA StepTimeInv == IInv /\ TimeInv /\ [Next]_vars => TimeInv'
<1> SUFFICES ASSUME IInv, TimeInv, [Next]_vars PROVE TimeInv'
  OBVIOUS
<1>0. /\ clock \in Nat /\ clock' \in Nat /\ clock <= clock' /\ DecisionTTL \in Nat
      /\ job \in [Workers -> Jobs] /\ job' \in [Workers -> Jobs]
  BY ClockAdvances, StepIInv, ConstantsAssumption DEF IInv, TypeOK
<1>1. ASSUME NEW v \in Workers, pc'[v] = "register" PROVE job'[v].now <= clock'
  <2>1. job'[v].now \in Nat /\ job[v].now \in Nat
    BY <1>0 DEF Jobs
  <2>2. job'[v].now <= clock
    BY <1>0, <1>1, <2>1, WhoTakesTheClock DEF TimeInv
  <2> QED
    BY <1>0, <2>1, <2>2
<1>2. ASSUME NEW a \in Actions PROVE act'[a].expires <= clock' + DecisionTTL
  BY <1>0, Lifetimes
<1>3. ASSUME NEW v \in Workers, pc'[v] = "acquire_lease"
      PROVE  /\ act'[job'[v].action].state # ABSENT
             /\ act'[job'[v].action].expires <= job'[v].now + DecisionTTL
  <2>1. CASE pc'[v] = pc[v] /\ job'[v] = job[v]
    <3>1. job[v].action \in Actions
      BY <1>3, <2>1, Fits DEF JobFits, Steps
    <3>2. /\ act[job[v].action].state # ABSENT
          /\ act[job[v].action].expires <= job[v].now + DecisionTTL
      BY <1>3, <2>1 DEF TimeInv
    <3> QED
      BY <2>1, <3>1, <3>2, Lifetimes
  <2>2. CASE /\ job'[v].now = clock
             /\ job'[v].action \in Actions
             /\ act[job'[v].action].state # ABSENT
    BY <2>2, Lifetimes
  <2> QED
    BY <1>3, <2>1, <2>2, WhoTakesTheClock
<1> QED
  BY <1>1, <1>2, <1>3 DEF TimeInv

\* A lease is granted for at least as long as its action has left.
LEMMA LeasesOutlive ==
    ASSUME IInv, TimeInv, [Next]_vars, LeaseTTL >= DecisionTTL, NEW a \in Actions,
           \A i \in DOMAIN leases[a] : leases[a][i].expires >= act[a].expires
    PROVE  \A i \in DOMAIN leases'[a] : leases'[a][i].expires >= act'[a].expires
<1> DEFINE Goal == \A i \in DOMAIN leases'[a] : leases'[a][i].expires >= act'[a].expires
<1>0. /\ TypeOK /\ leases[a] \in Seq(LeaseRows) /\ leases \in [Actions -> Seq(LeaseRows)]
      /\ LeaseTTL \in Nat /\ DecisionTTL \in Nat
  BY ConstantsAssumption DEF IInv, TypeOK
<1>1. ASSUME leases'[a] = leases[a] PROVE Goal
  <2>1. CASE act[a].state = ABSENT
    <3>1. Len(leases[a]) = 0
      BY <2>1 DEF IInv, LeaseInv, LeasedStates, StartedStates, ExecutedStates, ABSENT
    <3> QED
      BY <1>0, <1>1, <3>1
  <2>2. CASE act[a].state # ABSENT
    <3>1. act'[a].expires = act[a].expires
      BY <2>2, Lifetimes
    <3> QED
      BY <1>1, <3>1
  <2> QED
    BY <2>1, <2>2
<1>2. ASSUME NEW w \in Workers, AcquireLease(w) PROVE Goal
  <2>1. CASE job[w].action # a
    BY <1>0, <1>1, <1>2, <2>1 DEF AcquireLease
  <2>2. CASE job[w].action = a
    <3> DEFINE lease == [state |-> "granted", expires |-> job[w].now + LeaseTTL,
                         version |-> act[a].version + 1]
    <3>1. /\ leases'[a] = Append(leases[a], lease)
          /\ act[a].state = "SNAPSHOT_CAPTURED"
      BY <1>0, <1>2, <2>2 DEF AcquireLease, MayAcquireLease, MayAdvance
    <3>2. act'[a].expires = act[a].expires /\ act[a].expires \in Nat
      BY <3>1, Lifetimes DEF ABSENT
    <3>3. act[a].expires <= job[w].now + DecisionTTL /\ job[w].now \in Nat
      BY <1>2, <2>2, Fits DEF AcquireLease, TimeInv, Jobs
    <3>4. lease.expires >= act[a].expires
      BY <1>0, <3>2, <3>3
    <3>5. lease \in LeaseRows
      <4>0. act[a].version \in Nat
        BY <1>0 DEF TypeOK, Rows
      <4>1. job[w].now + LeaseTTL \in Nat /\ act[a].version + 1 \in Nat
        BY <1>0, <3>3, <4>0
      <4> QED
        BY <4>1 DEF LeaseRows
    <3> HIDE DEF lease
    <3>6. Len(leases[a]) = 0
      BY <3>1 DEF IInv, LeaseInv, LeasedStates, StartedStates, ExecutedStates
    <3>7. DOMAIN leases'[a] = {1} /\ leases'[a][1] = lease
      BY <1>0, <3>1, <3>5, <3>6
    <3> QED
      BY <3>2, <3>4, <3>7
  <2> QED
    BY <2>1, <2>2
<1>3. ASSUME NEW w \in Workers, ReleaseLease(w) PROVE Goal
  <2>1. PICK b \in Actions : b = job[w].action /\ act[b].state \in LeasedStates
    BY <1>3, Fits DEF ReleaseLease, JobFits, Steps, ContractSteps
  <2>2. leases' = [leases EXCEPT ![b][1].state = "released"] /\ act' = act
    BY <1>3, <2>1, Fits DEF ReleaseLease, JobFits, ContractSteps
  <2>3. CASE b # a
    BY <1>0, <1>1, <2>2, <2>3
  <2>4. CASE b = a
    <3>1. /\ DOMAIN leases[a] = {1} /\ leases[a][1] \in LeaseRows
      BY <2>1, <2>4, TheLease
    <3>2. leases'[a] = [leases[a] EXCEPT ![1].state = "released"]
      BY <1>0, <2>2, <2>4
    <3>3. DOMAIN leases'[a] = {1}
          /\ leases'[a][1] = [leases[a][1] EXCEPT !.state = "released"]
      BY <1>0, <3>1, <3>2
    <3>4. leases'[a][1].expires = leases[a][1].expires
      BY <3>1, <3>3 DEF LeaseRows
    <3> QED
      BY <2>2, <3>1, <3>3, <3>4
  <2> QED
    BY <2>3, <2>4
<1>4. ASSUME NEW w \in Workers, Writes(w), ~AcquireLease(w), ~ReleaseLease(w)
      PROVE  leases' = leases
  BY <1>4 DEF Writes, RegisterAction, RecordConfirmation, CommitSnapshot, BindWrite,
     BeginExecution, ExecutePlanMutation, RecordVerification, Recover, Visit
<1> QED
  BY <1>1, <1>2, <1>3, <1>4, WhoWrites

\* With a lease that outlives its action, no step reaches recovery.
LEMMA StepUnreachable ==
    IInv /\ TimeInv /\ RecoveryIsUnreachable /\ [Next]_vars => RecoveryIsUnreachable'
<1> SUFFICES ASSUME IInv, TimeInv, RecoveryIsUnreachable, [Next]_vars,
                    LeaseTTL >= DecisionTTL, NEW a \in Actions
             PROVE  /\ act'[a].state # "RECONCILIATION_REQUIRED"
                    /\ \A i \in DOMAIN leases'[a] :
                         leases'[a][i].expires >= act'[a].expires
  BY DEF RecoveryIsUnreachable
<1>0. /\ TypeOK /\ act \in [Actions -> Rows]
      /\ act[a].state # "RECONCILIATION_REQUIRED"
      /\ \A i \in DOMAIN leases[a] : leases[a][i].expires >= act[a].expires
  BY DEF IInv, TypeOK, RecoveryIsUnreachable
<1>1. \A i \in DOMAIN leases'[a] : leases'[a][i].expires >= act'[a].expires
  BY <1>0, LeasesOutlive
\* When the lease is no longer active the action has expired with it.
<1>2. ~Recoverable(a)
  <2> SUFFICES ASSUME Recoverable(a) PROVE FALSE
    OBVIOUS
  <2>1. act[a].state = "LEASED" /\ ActiveLeases(a, clock) = {} /\ ~Expired(a, clock)
    BY DEF Recoverable, ValidTransition
  <2>2. act[a].state \in LeasedStates \ JudgedStates
    BY <2>1 DEF LeasedStates, JudgedStates
  <2>3. /\ DOMAIN leases[a] = {1} /\ leases[a][1].state = "granted"
        /\ leases[a][1].expires \in Nat
    BY <2>2, TheLease DEF IInv, LeaseInv, LeaseRows
  <2>4. ~(leases[a][1].expires > clock)
    BY <2>1, <2>3 DEF ActiveLeases
  <2>5. act[a].expires \in Nat /\ clock \in Nat
    BY <1>0 DEF TypeOK, Rows
  <2>6. leases[a][1].expires >= act[a].expires
    BY <1>0, <2>3
  <2> QED
    BY <2>1, <2>3, <2>4, <2>5, <2>6 DEF Expired
<1>3. ASSUME act'[a].state = "RECONCILIATION_REQUIRED" PROVE FALSE
  <2>1. PICK w \in Workers : Writes(w)
    BY <1>0, <1>3, WhoWrites
  <2>2. CASE \E b \in Actions : Recover(w, b)
    BY <1>0, <1>2, <1>3, <2>2 DEF Recover
  <2>3. CASE ~\E b \in Actions : Recover(w, b)
    <3>1. \/ act'[a] = act[a]
          \/ act'[a].state \in {"CONFIRMATION_REQUIRED", "CONFIRMED",
               "SNAPSHOT_CAPTURED", "LEASED", "RUNNING",
               "EXECUTED_PENDING_VERIFICATION", "VERIFIED_SUCCESS",
               "VERIFICATION_FAILED"}
          \/ act'[a].state = act[a].state
      <4>1. CASE RegisterAction(w)
        BY <1>0, <4>1 DEF RegisterAction
      <4>2. CASE RecordConfirmation(w)
        BY <1>0, <4>2, AdvancedRow DEF RecordConfirmation, LifecycleStates
      <4>3. CASE CommitSnapshot(w)
        BY <1>0, <4>3, AdvancedRow DEF CommitSnapshot, LifecycleStates
      <4>4. CASE AcquireLease(w)
        BY <1>0, <4>4, AdvancedRow DEF AcquireLease, LifecycleStates
      <4>5. CASE BindWrite(w)
        <5>1. \A q \in Rows : \A k : [q EXCEPT !.digest = k].state = q.state
          BY DEF Rows
        <5> QED
          BY <1>0, <4>5, <5>1 DEF BindWrite
      <4>6. CASE BeginExecution(w)
        BY <1>0, <4>6, AdvancedRow DEF BeginExecution, LifecycleStates
      <4>7. CASE ExecutePlanMutation(w) \/ RecordVerification(w)
        <5>1. \A q \in Rows : \A k : [q EXCEPT !.outcome = k].state = q.state
          BY DEF Rows
        <5>2. CASE ExecutePlanMutation(w)
          BY <1>0, <5>1, <5>2, AdvancedRow DEF ExecutePlanMutation, LifecycleStates
        <5>3. CASE RecordVerification(w)
          <6>1. Verdict(w) \in {"VERIFIED_SUCCESS", "VERIFICATION_FAILED"}
                /\ Verdict(w) \in LifecycleStates
            BY DEF Verdict, LifecycleStates, TerminalStates
          <6> QED
            BY <1>0, <5>1, <5>3, <6>1, AdvancedRow DEF RecordVerification
        <5> QED
          BY <4>7, <5>2, <5>3
      <4>8. CASE ReleaseLease(w)
        BY <4>8 DEF ReleaseLease
      <4> QED
        BY <2>1, <2>3, <4>1, <4>2, <4>3, <4>4, <4>5, <4>6, <4>7, <4>8 DEF Writes
    <3> QED
      BY <1>0, <1>3, <3>1
  <2> QED
    BY <2>2, <2>3
<1> QED
  BY <1>1, <1>3

\* With lifetimes like the code's (leases no shorter than authorizations) the
\* recovery sweep never makes its transition.
THEOREM RecoveryUnreachable == Spec => []RecoveryIsUnreachable
<1>1. Init => TimeInv /\ RecoveryIsUnreachable
  BY ConstantsAssumption DEF Init, TimeInv, RecoveryIsUnreachable, NoRow, ABSENT
<1> QED
  BY <1>1, InitIInv, StepIInv, StepTimeInv, StepUnreachable, PTL DEF Spec

-----------------------------------------------------------------------------
(* Refinement.                                                               *)

\* The control plane implements the plan register, whatever its workers,
\* crashes and delays do: register_action binds, execute_plan_mutation applies,
\* record_verification_outcome judges, and every other step is invisible.
THEOREM Refinement == Spec => ImplementsPlanRegister
<1>1. Init => Register!Init
  BY DEF Init, Register!Init, Bounds, Verdicts, VerdictOf, NoRow, ABSENT
<1>2. IInv /\ [Next]_vars => [Register!Next]_(Register!vars)
  <2> SUFFICES ASSUME IInv, [Next]_vars PROVE [Register!Next]_(Register!vars)
    OBVIOUS
  <2>0. /\ TypeOK /\ act \in [Actions -> Rows] /\ log \in Seq(Actions)
        /\ plan.rev = Len(log) + 1 /\ plan.rev \in Nat
    BY DEF IInv, TypeOK, LogInv
  <2>1. ASSUME UNCHANGED <<act, log>> PROVE UNCHANGED Register!vars
    BY <2>1 DEF Register!vars, Bounds, Verdicts
  <2>2. ASSUME NEW w \in Workers, RegisterAction(w) PROVE Register!Next
    <3>1. PICK a \in Actions : /\ a = job[w].action
                               /\ job[w].rev \in 1 .. plan.rev
      BY <2>2, Fits DEF RegisterAction, JobFits, Steps
    <3>2. PICK rev \in 1 .. Len(log) + 1 : rev = job[w].rev
      BY <2>0, <3>1
    <3>3. /\ act[a].state = ABSENT /\ act'[a].state = "CONFIRMATION_REQUIRED"
          /\ act'[a].planRev = rev
          /\ \A b \in Actions : b # a => act'[b] = act[b]
          /\ log' = log
      BY <2>0, <2>2, <3>1, <3>2 DEF RegisterAction
    <3>4. Bounds[a] = 0
      BY <3>3 DEF IInv, LogInv, NoRow, Bounds
    <3>5. Bounds' = [Bounds EXCEPT ![a] = rev]
      BY <3>3 DEF Bounds
    <3>6. Verdicts' = Verdicts
      BY <3>3 DEF Verdicts, VerdictOf, ABSENT
    <3>7. Register!Bind(a)
      BY <3>3, <3>4, <3>5, <3>6 DEF Register!Bind
    <3> QED
      BY <3>7 DEF Register!Next
  <2>3. ASSUME NEW w \in Workers, Writes(w), ~RegisterAction(w)
        PROVE  /\ Bounds' = Bounds
               /\ ~RecordVerification(w) => Verdicts' = Verdicts
    <3>1. CASE act' = act
      BY <3>1 DEF Bounds, Verdicts
    <3>2. CASE act' # act
      <4>1. PICK a \in Actions, r \in Rows :
              /\ Rewrites(a, r)
              /\ RecordVerification(w) \/ VerdictOf(r.state) = VerdictOf(act[a].state)
        BY <2>3, <3>2, WriteEffect
      <4>2. act'[a] = r /\ \A b \in Actions : b # a => act'[b] = act[b]
        BY <2>0, <4>1 DEF Rewrites
      <4>3. r.planRev = act[a].planRev
        BY <4>1 DEF Rewrites
      <4> QED
        BY <4>1, <4>2, <4>3 DEF Bounds, Verdicts
    <3> QED
      BY <3>1, <3>2
  <2>4. ASSUME NEW w \in Workers, ExecutePlanMutation(w) PROVE Register!Next
    <3>1. PICK a \in Actions : a = job[w].action
      BY <2>4, Fits DEF ExecutePlanMutation, JobFits, Steps
    <3>2. /\ plan.rev = act[a].planRev /\ log' = Append(log, a)
          /\ act[a].state = "RUNNING"
      BY <2>4, <3>1 DEF ExecutePlanMutation, MayExecutePlanMutation, MayAdvance
    <3>3. ~RegisterAction(w) /\ ~RecordVerification(w)
      BY <2>4 DEF ExecutePlanMutation, RegisterAction, RecordVerification
    <3>4. Bounds' = Bounds /\ Verdicts' = Verdicts
      BY <2>3, <2>4, <3>3 DEF Writes
    <3>5. Register!Apply(a)
      BY <2>0, <3>2, <3>4 DEF Register!Apply, Bounds
    <3> QED
      BY <3>5 DEF Register!Next
  <2>5. ASSUME NEW w \in Workers, RecordVerification(w) PROVE Register!Next
    <3>1. PICK a \in Actions : a = job[w].action
      BY <2>5, Fits DEF RecordVerification, JobFits, Steps
    <3> DEFINE q == Advanced(a, Verdict(w))
    <3>2. /\ act[a].state = "EXECUTED_PENDING_VERIFICATION"
          /\ \E o : act' = [act EXCEPT ![a] = [q EXCEPT !.outcome = o]]
          /\ log' = log
      BY <2>5, <3>1 DEF RecordVerification, MayRecordVerification, MayAdvance
    <3>3. /\ Verdict(w) \in LifecycleStates
          /\ Verdict(w) = "VERIFIED_SUCCESS" \/ Verdict(w) = "VERIFICATION_FAILED"
          /\ Verdict(w) = "VERIFICATION_FAILED" => ~job[w].ok
      BY DEF Verdict, LifecycleStates, TerminalStates
    <3>4. q \in Rows /\ q.state = Verdict(w)
      BY <2>0, <3>3, AdvancedRow
    <3> HIDE DEF q
    <3>5. /\ act'[a].state = Verdict(w)
          /\ \A b \in Actions : b # a => act'[b] = act[b]
      BY <2>0, <3>2, <3>4 DEF Rows
    <3>6. act[a].planRev \in DOMAIN log /\ log[act[a].planRev] = a
      BY <3>2 DEF IInv, LogInv, ExecutedStates
    <3>7. Verdict(w) = "VERIFICATION_FAILED" => Len(log) > act[a].planRev
      <4>1. ~job[w].ok => plan.rev > act[a].planRev + 1
        BY <2>5, <3>1, Fits DEF RecordVerification, JobFits
      <4>2. act[a].planRev \in Nat
        BY <2>0 DEF Rows
      <4> QED
        BY <2>0, <3>3, <4>1, <4>2
    <3>8. ~RegisterAction(w)
      BY <2>5 DEF RegisterAction, RecordVerification
    <3>9. Bounds' = Bounds
      BY <2>3, <2>5, <3>8 DEF Writes
    <3>10. Verdicts[a] = "none" /\ Bounds[a] = act[a].planRev
      BY <3>2 DEF Verdicts, VerdictOf, Bounds
    <3>11. Verdicts' = [Verdicts EXCEPT ![a] = VerdictOf(Verdict(w))]
      BY <3>5 DEF Verdicts
    <3>12. \/ VerdictOf(Verdict(w)) = "success"
           \/ VerdictOf(Verdict(w)) = "failure" /\ Len(log) > act[a].planRev
      BY <3>3, <3>7 DEF VerdictOf
    <3>13. Register!Judge(a)
      BY <3>2, <3>6, <3>9, <3>10, <3>11, <3>12 DEF Register!Judge
    <3> QED
      BY <3>13 DEF Register!Next
  <2>6. ASSUME NEW w \in Workers, Writes(w), ~RegisterAction(w),
               ~ExecutePlanMutation(w), ~RecordVerification(w)
        PROVE  UNCHANGED Register!vars
    <3>1. log' = log
      BY <2>6 DEF Writes, RecordConfirmation, CommitSnapshot, AcquireLease,
         BindWrite, BeginExecution, ReleaseLease, Recover, Visit
    <3> QED
      BY <2>3, <2>6, <3>1 DEF Register!vars
  <2> QED
    BY <2>1, <2>2, <2>4, <2>5, <2>6, WhoWrites
<1> QED
  BY <1>1, <1>2, Invariance, PTL DEF Spec, ImplementsPlanRegister, Register!Spec
=============================================================================
