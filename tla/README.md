# AIPM: specifications, model checking and proofs

AIPM manages projects on one host. It observes them (telemetry, events, incidents, notifications, an
advisor), updates them (a Git and runtime update engine, Compose service updates), and guards every
change with an owner-driven *control plane*: an owner authorizes an action on a project, confirms it,
and a chain of durable checks takes it to a verified mutation, behind which a separate executor process
runs the real update. This directory models these parts in TLA+, checks them with TLC on small instances
and proves the safety properties of the core with TLAPS for every value of the constants. Paths below
are relative to the repository; `cp/` stands for `src/aipm/control_plane/`, `sv/` for
`src/aipm/services/`, `rp/` for `src/aipm/repositories/`.

Contents: inventory, modules and their correspondence to the code, runs, findings, proofs, what is only
model-checked, what is not modelled, plan.

## 1. Inventory

### Control plane (durable execution core)

All of it works over one SQLite database (`cp/storage/sqlite_store.py`). Several processes open it:
the transport service and every CLI command of the control plane (`cli/app.py` composes its own
service). `ControlPlaneDatabase.transaction` says so: separate processes "rely purely on SQLite
locking and constraints". A writer uses `BEGIN IMMEDIATE` and compares the action's `version`; every
decision before that is made on plain reads, which another process can make stale.

| Component | State | Operations | Correct when |
|---|---|---|---|
| Action lifecycle (`cp/lifecycle.py`, `cp/action_state.py`) | state, version and outcome of an action | `validate_transition`, `advance` | every change follows the table, one version at a time |
| Authorization, registration (`cp/service.py`, `cp/policy.py`) | decision, action row | `authorize`, `register_action` | one action per idempotency key, bound to a plan revision |
| Owner confirmation (`cp/approval.py`) | `confirmations` | `request_confirmation`, `build_confirmation`, `record_confirmation_with_advance`, consumption | one consent per action, spent when execution begins |
| Snapshot, lease, fencing (`cp/storage`) | `plan_snapshots`, `execution_leases` | `capture_snapshot_and_advance`, `acquire_lease`, `release_lease` | at most one worker mutates for an action |
| Final gate and executor (`cp/gate.py`, `cp/executor.py`, `cp/contracts.py`) | contract digest on the row | `execute`, `bind_contract_evidence`, `begin_execution` | the evidence checked still holds at the commit |
| Plan store and verification (`cp/project_plan.py`, `cp/verification.py`) | `project_plans` | `execute_plan_mutation`, `verify`, `record_verification_outcome` | exactly once; the durable outcome is true |
| Kill switch (`cp/kill_switch.py`) | engaged, epoch | `engage`, `disengage`, `permits` | nothing mutates past an engaged switch once it is seen |
| Recovery (`cp/recovery.py`, `cp/recovery_sweep.py`) | none of its own | `recover`, startup sweep | never repeats an effect, never damages a running action |
| Rollback (`cp/rollback.py`) | a second action | `request_rollback`, `execute_rollback` | undoes the failed mutation only, once, and closes the original truly |
| Start-up, schema (`cp/storage/schema.py`, `cp/composition.py`) | schema version, `action_protocol`, `registration_id` | create, migrate, seed, compose | an upgrade loses no row and runs no action of an earlier version |
| Audit ledger (`cp/audit`) | hash-chained events | append, in the transactions of the others | append-only, chained |
| Project registration (`cp/registration*.py`) | registrations | register, revoke | at most one active registration |
| Sessions, owner authentication (`cp/session.py`, `cp/owner_auth.py`) | sessions, credential epoch | create, rotate, revoke | a revoked or expired session authorizes nothing |
| HTTP transport (`cp/transport.py`) | CSRF and rate-limit counters | routes that call the service | no route skips a service check |

### Executor boundary

| Component | State | Operations | Correct when |
|---|---|---|---|
| Approved-update flow (`cp/service.py` `run_approved_update`) | local variables of the call | the gated execution, then the runtime call | the engine runs only for a verified action; the report is true |
| IPC channel (`cp/executor_ipc.py`) | a Unix socket, its backlog | `call`, `serve_one`, `serve_forever` | one answer per connection, to the call that opened it |
| Executor process (`cp/standalone_executor.py`, `src/aipm/composition/executor_update.py`) | request in hand | update handler, `execute_restart` | the provider is invoked at most once per claim |
| Mutation receipts (`cp/mutation_receipt.py`) | `executor_mutation_receipts` | `claim`, `complete` | a receipt never claims what did not happen |

### Updates

| Component | State | Operations | Correct when |
|---|---|---|---|
| Update engine (`sv/update`, `sv/git`, `src/aipm/providers/git`) | checkout, stash, tracking ref, running tree, snapshot | plan, check, snapshot, stash, fetch, pull, apply, drop, rebuild, verify, restore, audit | local work survives every failure; a success is whole |
| Compose service updates (`sv/compose`) | candidate cache, budgets, evidence, containers | merge configuration, observe, look up, plan, approve, re-check, pull, recreate, inspect | what starts is what was approved; the report is what happened |

### Observation

| Component | State | Operations | Correct when |
|---|---|---|---|
| Telemetry (`sv/telemetry`, `rp/telemetry`) | caches, slots and timers, `sample_runs` and their rows | sample, discover, refresh, retain, hydrate, answer | a stopped or failing sampler is noticed |
| Events and incidents (`sv/events`, `sv/incidents`) | `events`, processing markers, incidents, timeline | derive, commit, apply | each event once, in order, none lost |
| Notifications (`sv/notifications`, `rp/notifications`) | notifications, deliveries, attempts, limits | project, claim, send, finish, retry, reconcile | no storm, no lost decision, everything settles |
| Advisor (`sv/advisor`, `src/aipm/models/advisor.py`) | none of its own | export, normalise, evaluate, answer | findings rest on whole evidence; degradation is explicit |

The CLI, TUI and dashboard (presentation), models and mappers (data) and providers (calls to docker, git
and systemd) are not modelled beyond what the modules above need of them.

### How the parts interact, and where it is hard

* Processes share only the database and the socket. Two workers may execute the same action, or two
  actions of the same plan, and interleave between any read and its write.
* Each process may die between any two steps; what it knew is lost and the rows remain. A restarted
  process sweeps the non-terminal actions while the others work on.
* Authorizations and leases expire against a clock that a call reads once.
* The client of the executor gives up after 30 seconds. The executor, which serves one connection at a
  time, does not notice until it answers.
* The kill switch can be engaged and released between any two steps.
* The update command and the executor work on the same checkout, and the operator and the upstream keep
  changing it and its remote.
* The observation services are separate processes over shared tables. Each reads before it opens its write
  transaction, commits in several transactions, and can die between any two; retention deletes rows
  beneath the others.
* Slow tasks of the sampler cannot be killed; their timers are never cancelled.
* A commit that SQLite refuses stays open on the service's one connection.

`PROJECT.json` lists these hazards one by one, each at its line and with the properties that would
catch it going wrong.

## 2. Modules

| Module | Models | |
|---|---|---|
| `Lifecycle` | `cp/lifecycle.py` | states, transition table, `validate_transition` |
| `PlanRegister` | what the control plane promises of a plan | abstract specification: a register with optimistic concurrency |
| `ControlPlane` | authorization to verification, kill switch, crash, sweep | the core; its properties; the documents' claims |
| `ControlPlaneInv` | | its inductive invariant |
| `ExecutorBoundary` | approved update, IPC, executor, receipts | with its properties and invariant |
| `Startup` | `ControlPlaneDatabase.__init__`, migrations, composition | component of `Rollback` |
| `Rollback` | request, registration, execution and closing of a rollback | composes `Startup` and `Lifecycle`; with its invariant |
| `Access` | owner authentication, sessions, registrations, audit ledger | |
| `UpdateEngine` | planning, Git transaction, runtime, restore | behind `ExecutorBoundary`'s `FinishRun` |
| `ServiceUpdate` | Compose observation, plan, approval, gate re-check, adapter | |
| `Telemetry` | sampler, retention, dashboard freshness | produces what the next three read |
| `EventPipeline` | runs to events to incidents | |
| `Notifications` | incident transitions to messages | |
| `Advisor` | live and posted advice | |
| `MC...` | | instances for TLC |
| `ControlPlane_proofs`, `Rollback_proofs`, `Access_proofs`, `UpdateEngine_proofs`, `Telemetry_proofs`, `EventPipeline_proofs`, `ServiceUpdate_proofs`, `Notifications_proofs` | | section 5; `UpdateEngine_proofs` also proves what `ExecutorBoundary` promises; the last six also hold their component's inductive invariant |

`PROJECT.json` maps each definition to the lines it stands for. Definitions introduced as a *mutant*
or *altered form* are wrong on purpose: they are the bugs each property is shown to notice, and no
specification uses them.

### ControlPlane

**State.** The tables `act`, `conf`, `snap`, `leases`, `plan`, `switch`; for each worker `pc`, the
local variables `job` of its current call and the sweep's `todo`; `clock`. `log` is history: the
writers of the plan, in order.

**Grain.** One step is one read of the store outside a transaction, or one transaction. Two
simplifications keep the number of steps down, and both lose no behaviour:

* A store method that re-reads the row and then compares the same version in its transaction is one
  step, because the comparison makes the earlier read current.
* Consecutive checks of one call are one step when a check that holds at the later read held at the
  earlier one too (versions and revisions only grow, bindings and leases are only used up). An
  interleaving that changes something between them ends in the same refusal.

The exceptions the code really has are kept apart: `bind_contract_evidence` reads the digest in one
step and writes in another, and the kill switch is read and then saved.

**Actions.** `Call` is what the owner may ask of an idle worker; `Proceed` is what a call does
next. A step whose checks fail raises, and the call returns (`Refuse`). `Crash` loses a worker's
local state at any step; `Restart` begins the sweep over the actions that are not terminal then;
`Recover` and `Observe` are `RecoveryManager.recover` for one of them.

**Data.** A plan is its revision and its last writer. A contract is the four fields that can differ
between two contracts of one action, and its digest is injective on them. A policy's refusal, a
missing row or a malformed request changes nothing and is not an action. The requester is the one
owner, so the confirmer is the requester. The environment is staging: in production the kill switch
is permanently engaged and no operation gets past its first check.

**Nothing sets `UNKNOWN_OUTCOME`** in this composition, the only outcome on which
`reconcile_action` acts, so that `Executor.reconcile` has no action here.

### ExecutorBoundary

**State.** `state` of each update action and `receipt` are durable; `call` holds each worker's local
variables, `queue` the connections not yet accepted, `server` the executor process and the request
in its hands. `ran` and `effect` are history: how often the engine or provider was invoked for an
action, and how that ended.

**Grain.** One step per message, per receipt transaction and per boundary of the engine's work.
Either process may die at every step and a client may hang up at every step of the server.

**Link to ControlPlane.** The gated execution before the runtime call is one step here, which leaves
the action terminal or refuses: that is what ControlPlane specifies in detail. `OneMutator`, proved
there, says that an action is leased once in its life; therefore the action's identifier stands for
the receipt's key (action, fencing token). In the composition with an executor client the runtime is
the IPC one; the in-process runtime has no receipts and is not modelled.

### Rollback and Startup

**State.** `Startup` keeps the file, the stamped version, each action's `action_protocol`, each project's
`registration_id`, the switch and where each process is in its start. `Rollback` adds the plan, the row of
the original and of the rollback action, the expired actions and each process's call; `old` and `undone`
are history.

**Grain.** One step per read and per transaction. A process dies at any step, and up to three kinds of
database are found at the start: none, one of version 6 or 7 with a failed original and perhaps a prepared
rollback, one of a later version.

**What the code really does.**

* `plan_rollback` and `execute_rollback` compare the revision of the plan only: `expected_post_fields`, which
  the docstring of `cp/rollback.py` speaks of, is compared by nothing. `EXECUTION_FAILED` is written by nothing.
* After a correct mutation a failed verification means a later revision, so that no rollback is safe. A
  rollback executes only when the original's mutation itself went wrong ("odd" fields at its own revision).
* A crash after `begin_execution` leaves the rollback `RUNNING`; it is not resumed, and its idempotency key
  prevents another. A crash between registration and marking leaves a restored original
  `VERIFICATION_FAILED` for good, with the lease granted, where `docs/MC-6.12_OPERATOR_TRANSPORT.md:105`
  says rolled back.
* A rollback prepared before the upgrade becomes `legacy-v1`; the gate blocks it, and its key prevents a new one.
* A new database file is readable by others until `chmod`. A crash, or a second process, in between makes
  every later start refuse it.
* A fresh database composes no service until a project is registered.

Another action may write the plan at any time once the original is stored. When it does so before the original's
mutation, the original's compare-and-swap fails and leaves it `RUNNING`, and `plan_rollback` finds the revision it
expects although the fields are another's; `execute_rollback` then refuses, because the original has not failed.
Processes of an older program running during the upgrade are not modelled; the branch for a half-added column is
unreachable by this program. The sweep of a restarted process is `ControlPlane`'s.

### Access

One service process with one shared SQLite connection; `async` routes give up the event loop only at the request body,
the other routes run on threads; registrations come from command-line processes. A refused commit leaves its
transaction open: the process reads its own uncommitted writes, nothing else can begin, a restart discards them (the
three retries of an append cannot succeed then). Times are remaining lifetimes, so no clock is bounded; `guesses`
(history) keeps the ages of the wrong secrets up to one lockout. The rate limiter is a refusal at any time. The
in-memory stores are test doubles; `DISABLED`, `rotate` of one session and `active_count` have no caller. A
registration request is a sound one or one with a single deviation. A run of an approved update is modelled by its
session look-ups and its evidence. The registration plays no part in it: `FinalExecutionGate.evaluate` looks a
registration up only when it is given an `execution_binding` (`cp/gate.py:370`), and neither `cp/executor.py:298` and
`:584` nor `cp/systemd_executor.py:79` passes one; `run_approved_update` composes a binding after the action is verified
(`cp/service.py:1265`), with no `registration_id` when none is active (`cp/service.py:989`), and what receives it only
copies it. A project whose registration has been revoked is therefore updated all the same. Known and without a property: logout's evidence
precedes the revocation (`cp/service.py:242`), the kill-switch routes use a session looked up before their `await`
(`cp/transport.py:773`), the ledger's tamper check in the gate is structural.

### UpdateEngine

The checkout, its stash, tracking ref and remote, the running tree and each caller's place in
`execute_update`. A file's content is the commit that last changed it and the edits in it; git is modelled
from the commands the provider issues (external). Every step may fail. A repository read is several commands, each of
which counts as having found nothing when it fails (`ReadFailures`), or the empty repository as a whole; the exceptions
of the reads around the safety stash are failures like any other.

Nothing in the code rules out five *mishaps*, and the history variable `mishaps` records them: `overlap` (an update takes
its snapshot while another is at work, and may later restore it over the other's result), `under` (the operator edits or
stashes meanwhile), `miscounted` (the stash count before the push misses entries, so that an entry of the operator is
taken for the engine's own: `MCUpdateEngineStashClaim`), `torn` (a restore fails inside a file it has truncated), and
`unseen` (the count after the push misses entries: the own entry stays in the stash). The model takes all of them; the
properties say what holds until one of the first four has happened. Each of the four is needed in that list: TLC finds
a lost edit with any of them taken out. After `torn` the edits are still in the archive of the snapshot, which the
engine keeps and names in its audit record, but neither in the tree nor in a stash.

### ServiceUpdate

The merged configuration, observation under budget and LRU cache, plan, approval, the gate's re-check and the
adapter, for one owner; tags move, containers fail and the control plane restarts between any two steps.
Registries, docker, the resolver and the inspector are ports. In the default composition the ports are less
than the code around them expects: `Project.services` is an empty list, so that the adapter's
`_validate_service_definitions` refuses every service; the resolver is `lambda target: target`; the CLI's
`_service_inspector` calls `.get` on a tuple; no `lease_validator` is passed. The model gives the ports what
their signatures say. A tag has one digest: an index and its platform's child are not told apart, and the case of a
multi-platform manifest without a digest header (`sv/compose/registry_client.py:538`) is left out. The client counts its
queries over the life of the process and resets the count nowhere; the model lets it refuse a lookup at any time. After a restart the evidence is lost and the execution refused. A negative result gets
the positive lifetime, because the scheduler stores it again.

### Telemetry

The coordinator's loop, single-flight slots and uncancelled timers, caches shared without a lock, batched
retention, hydration at the start and the dashboard's answer from another process. Time counts fast
intervals. Interval and timeout of a slow task are unrelated: the configuration does not compare them, and retention's
60 seconds are fixed in the code. A refresh writes the entries of the containers, then one date for all of them, beside
the fast thread, which reads an entry and then the date; an exception in between leaves the entries without the date, and
while there is none an entry's own date counts (`sv/telemetry/docker.py:104`). So the statistics of a row may be older
than their date, and `ResourcesAreBacked` speaks of the refresh, not of the container. Hydration may fail at the start,
after the resources too. The legacy
synchronous mode (which never runs retention), host and tunnel measurements and the history queries are left
out. Observed on the way: the exception path of `_run` never stores the status, a container first listed
before its first refresh is dated by the aggregate one, a removed project's rows stay listed until
retention, and a lock on the resource runs, the one unguarded statement, ends the pass with an error.

### EventPipeline

The sampler's runs, retention, the event service and the one-shot command. One resource of each kind; its
incidents share nothing else. A processor has the set of runs it is left with, oldest first, at most
`ServiceLimit` (100 in the code) or `CommandLimit` (1000) of them, and, once they are stored, the events it is left
with. Events are stored by their key, which is made of the run, the type and the values: a container that goes from
restarting and unhealthy to running and healthy gives two recoveries with one key, so that one row is stored and applied
twice. The run's marker and events are committed before the incidents are updated: `OpeningsReachIncident` says that
between the two is the only place where an opening event is lost.

`apply_event` is three steps: the live incident is read in autocommit (`Apply`), then perhaps the newest one of any
status (`Search`), and the transaction opens with the first write (`Write`), by the incident's id and whatever has
become of it. Alone the service never notices. With `events process` beside it a severity may be lost, one transition
may start from a state the incident no longer has, and the second of two processors that both found no incident meets
the key's uniqueness, which ends its run like any error. `InRunOrder` says what is left then: no transition starts from
a state the incident never had, and the last one is the incident. The acknowledgement of an incident is not modelled: no
route or command reaches it (`docs/MISSION_CONTROL.md:365`, "not mounted").

### Notifications

Two services (as during a restart), operators' commands, the sends and retention. `sqlite3` opens a
transaction at the first write, so that a decision, a claim and a command act on what they read before.
Timestamps are ages and times left. A send that outlives its lease counts as a fault (60 s against a
timeout of 10 s). Which due row comes first is open. A projector's work is the set of transitions its pass fetched, at
most `ProjectLimit` (100 in the code) and taken in table order, and the set of routes (a policy and a place in its list of
channels) left for the first of them, in the order of the loops. The clock stands while a pass or a command is under way.
`NoStorm` speaks of the policies of a channel that agree on length and limit (`Agree`): the code keeps one counter per
channel and measures it with the window of whichever policy decides. Excluded through `retired`: days of downtime after
a crash before the marker let retention forget a notification that is then made again.

### Advisor

The two read transactions of a live request with the sampler between them, the adapter, the normaliser, the
ten rules and the answer's contract; posted requests go through the same code. Percentages are low or high
by threshold. Where the code orders by a hash the choice is open. On the live path only the sustained rule
can fire; the others need `POST`, which needs an authenticator that the default server does not have.

## 3. Runs

| Run | Instance | Checks | States |
|---|---|---|---|
| `two_actions` | 2 actions, 2 workers, 3 identifiers, `MaxBindings` 2 | `AppliedOnce`, `OutcomeIsTruthful`, `VerdictIsSound`, `ImplementsPlanRegister` | 284,000 |
| `races` | 1 action, 2 workers, leases shorter than authorizations, fairness | `ConsentSpentOnce`, `OneMutator`, `MutationIsAuthorized`, `CallsReturn` | 127,000 |
| `executor_boundary` | 1 update, 1 restart, 2 workers, `Backlog` 2 | `InvokedOnce`, `ReceiptIsTruthful`, `AnswerIsTruthful`, `RuntimeCallsReturn` | 300,000 |
| `rollback` | 2 processes, 1 project, revisions to 4, 1 crash | `UndoesOnlyTheFailed`, `VerdictsAgree`, `CutoverHolds`, `RowsSurviveUpgrade` | 1,210,000 |
| `access` | 2 requests, 1 command, 2 sessions, 2 registrations, 1 fault | `LogoutIsFinal`, `GuessesAreBounded`, `EvidenceIsWhole` | 293,000 |
| `update_engine` | 3 files, 2 callers, 3 commits, all repository shapes, every mishap | `EditsSurvive`, `SuccessIsComplete` | 1,230,000 |
| `service_update` | 3 services, 2 images, 2 digests, 2 events | `ReportIsTruthful`, `CandidateFresh`, `StartsAsApproved` | 2,110,000 |
| `telemetry` | 1 project, 1 container, 2 runs, 1 stop, each slow task | `StopsAreSeen`, `ResourcesAreBacked`, `TimeoutIsEarned` | 4,780,000 |
| `event_pipeline` | 4 kinds of resource, 2 or 3 runs, 1 fault | `AppliedOnce`, `OpeningsReachIncident`, `InRunOrder`, `RunsAreProcessed` | 432,000 |
| `notifications` | 2 services, 1 operator, 2 transitions, 2 policies on 1 channel, 1 fault | `AttemptsAreTruthful`, `NoStorm`, `DecisionsAreKept`, `EverythingSettles` | 514,000 |
| `advisor` | 2 metrics, 5 samples, posted pairs | `SustainedIsReal`, `RulesMeetTheContract`, `FreshIsComplete` | 764,000 |
| `reclaim_claim` | 2 operators, 1 service, 1 crash | `EverythingSettles`, violated (section 4) | |

What the passing runs show:

* `AppliedOnce`: retries, duplicate executions and crashes never apply an action twice, and each write
  lands on the revision its action was authorized for.
* `OutcomeIsTruthful`: after any crash the durable outcome says that the mutation happened exactly when
  the plan has it.
* `ConsentSpentOnce`: racing confirmations may leave several pending bindings, but one at most is
  granted, and it is spent exactly when execution begins.
* `VerdictIsSound`: reading back and recording are two steps, yet a success was applied and a failure
  means that a later action has overwritten the plan.
* `OneMutator`: an action is leased once, and one worker at most is about to mutate for it.
* `MutationIsAuthorized`: the evidence of a mutation (snapshot, consent, contract, lease), checked
  several steps earlier, still holds when it commits. It does not say that the lease is unexpired or
  that the switch still permits; the code does not ensure either (section 4).
* `ImplementsPlanRegister`: to the owner all this is a register whose actions are applied at most
  once, at their revision, and judged at most once.
* `InvokedOnce`, `ReceiptIsTruthful`, `AnswerIsTruthful`: the engine or provider runs at most once for an
  action, a receipt says what happened, and an answer, however late, reaches only the call it belongs to.
* `CallsReturn`, `RuntimeCallsReturn`: no interleaving leaves a call waiting for ever.
* `UndoesOnlyTheFailed`: however stale the reading that a rollback was judged safe on, a restore replaces
  the failed mutation and nothing else, once. `VerdictsAgree`: the original is closed as its rollback ended.
* `CutoverHolds`, `RowsSurviveUpgrade`: processes that upgrade one database at once, on versions they read
  earlier, lose and relabel no row, and no rollback of the earlier version restores anything.
* `LogoutIsFinal`: no request that arrives after a logout or rotation passes, in spite of lookups in flight,
  transactions left open and an epoch that a restart puts back. `GuessesAreBounded`: no interleaving gives more
  guesses per lockout. `EvidenceIsWhole`: sessions, registrations and the ledger agree after every crash and
  refused commit.
* `EditsSurvive`, `SuccessIsComplete`: whichever step fails and whatever the other reads miss, local edits are in the
  tree or in a stash, until one of the four mishaps that cost an edit; a success before any mishap has returned the
  stash and runs what is checked out.
* `ReportIsTruthful`, `CandidateFresh`, `StartsAsApproved`: a half-updated group is never reported as plainly
  failed; a cached digest is never older than its lifetime; the gate starts nothing on stale evidence.
* `StopsAreSeen`, `ResourcesAreBacked`, `TimeoutIsEarned`: freshness degrades when sampling stops or refreshes
  fail, across restarts, whatever a refresh that stopped midway left; the timer of an earlier run hits a later one only
  when the two started within a timeout of each other, which no interval longer than the timeout allows.
* `AppliedOnce` (events), `OpeningsReachIncident`, `InRunOrder`, `RunsAreProcessed`: the journal is applied once,
  through crashes, retries, retention and a command beside the service, and by the service alone in order.
* `AttemptsAreTruthful`, `NoStorm`, `DecisionsAreKept`, `EverythingSettles`: see the properties' comments; the second
  transition of the incident meets both the full window and the cooldown of the first; with one operator at a time every notification settles, with two it may not (section 4).
* `SustainedIsReal`, `RulesMeetTheContract`, `FreshIsComplete`: no finding from part of a window, no rule that
  makes the whole answer fail, no fresh answer that hides a row.

### Bounds

*ControlPlane, ExecutorBoundary.* `MaxTime` stops the clock, `MaxEpoch` the kill switch, `MaxBindings` the
bindings (256 in the code), `Backlog` the connections (a `listen(1)` socket holds two on Linux). Two workers are
enough for every race of two writers on one row, and a third in the same position sees one of the two
outcomes. Two actions are enough for one to overwrite the other's plan between mutation and read-back, the
only way in which actions of one target affect each other. Lifetimes of 1 or 2 put the expiry before, between
and after the steps of a call. There is one more binding identifier than `MaxBindings` admits, so that the race
past the limit, which the check before the write allows, happens.

*Rollback.* The original makes revision 2 and a restore revision 3; `MaxRevision` 4 leaves room for another action
before, between and after. One crash leaves any one transaction the last of its process.

*Access.* One request that uses a session is in flight beside another of any kind; logins and rotations are
over before the first registration, with which they share only the ledger. *UpdateEngine.* One commit touches an
edited and a new file, one a critical file; one part of a repository read fails at a time. A behaviour is followed up to
its first mishap other than `unseen` (`InScope`), after which the properties say nothing. *ServiceUpdate.* One group, one locally built image, a cache of one entry,
so that eviction happens. *EventPipeline.* A project has three runs (so that one fails between two others, and a batch
of two leaves one out), the other kinds two and the command beside the service. *Notifications.* One message per
window on a channel that two policies share, with a cooldown of two windows. Two recoveries of one incident, as the
event service and the command leave when both found it open, are explored without fault and command, one transition with
them (`Budgets`). *Telemetry.* The slow tasks share nothing but the loop and are explored
one kind at a time; two runs are enough for one to be due for deletion and the other not. Retention's timeout is longer than its
interval, the others' are shorter. *Advisor.* Limits are scaled: the parent query reads four rows and there may be
five, so that its silent cut happens in the boundary second; the normaliser takes six observations of up to eight, five
uncertainties may be stated. A metric of an available sample may be missing.

Deadlock is checked except where the system may simply be done: an update engine with no round left, an owner's
update that ended, an exhausted clock, or a pipeline with no run left. Symmetry is used in `two_actions`,
`access` and `rollback` (workers, identifiers, processes are interchangeable), never with liveness.

### Fairness

*ControlPlane* (`races`): weak fairness on each worker's `Proceed` (a process runs on until it returns or dies),
on `Restart` (the unit files say `Restart=on-failure`) and on `Tick`. *ExecutorBoundary*: weak fairness
on the worker's `Proceed` only; the socket's 30-second time-out makes giving up a step that must come. The
executor is not assumed fair: nothing bounds the engine's time. *EventPipeline*: the service's loop polls and
goes on, and a retention pass that began ends; neither the sampler, the command nor the operator is fair.
*Notifications*: the clock ticks, the services' loops go on, and a command that an operator began ends. Owners
and operators need not call and nobody needs to crash.

## 4. Where the documents and the code differ

`reclaim_claim` is a run of the project. The others are kept beside the runs as further `...Claim.cfg` files for the
MC module of their name; TLC finds a counterexample with each.

* **`MCNotificationsReclaimClaim`** "Leases recover rows left in `sending` after a worker crash"
  (`docs/MC-4_ARCHITECTURE.md:42`). `retry_delivery` reads the status before its write and then sets the
  notification to pending whatever it is by then. Two operators retry at once, the service crashes while
  sending: the delivery says sending and the notification pending, and nothing takes the row again.
* **`MCControlPlaneSweepClaim`** The sweep is said to advance a leased action with an expired lease to
  `RECONCILIATION_REQUIRED` (`cp/recovery_sweep.py:11`). With the code's lifetimes such an action has itself
  expired, and an expired action may become nothing but `EXPIRED`: the sweep records an isolated error.
* **`MCControlPlaneDigestClaim`** The contract digest is said to be immutable once set
  (`cp/storage/sqlite_store.py:1572`). Two executions that both read `NULL`, before and after the kill switch
  changed epoch, overwrite one another: the `UPDATE` compares the version only. The gate then refuses the
  first, so the mutation stays authorized.
* **`MCControlPlaneLeaseClaim`** "An expired lease cannot commit"
  (`docs/MC-6.12_PRODUCTION_ARCHITECTURE.md:246`). The clock is read once; a delayed worker commits under a
  lease that has expired.
* **`MCControlPlaneResumeClaim`** `EXECUTED_PENDING_VERIFICATION` is said to be resumable (same document, line
  52). A second execution is always refused, because the lease is bound to an earlier version than the
  replayed contract, and the plan has moved on from the revision it is compared with.
* **`MCExecutorBoundaryLoopClaim`** The accept loop is said to survive any single connection
  (`cp/executor_ipc.py:481`). An answer to a client that has hung up, or a repeated restart request, raises
  an exception that `serve_one` does not catch.
* **`MCExecutorBoundaryReportClaim`** A runtime failure is said to be fail-closed (`cp/service.py:1232`). A
  refusal by the executor is reported as executed and verified.
* **`MCUpdateEngineStashClaim`** "Only a stash this transaction actually created is ever applied or dropped"
  (`sv/update/git_transaction.py:16`). A failed read of the stash list counts as an empty one; when the push then
  finds nothing to save, the operator's own entry is applied and dropped.
* **`MCUpdateEngineCriticalClaim`** "Critical Git changes [...] block execution" (`README.md:110`). The plan judges
  the commits of the last fetch; the execution pulls the remote tip, which nothing classifies.
* **`MCServiceUpdateDigestClaim`** "Post-mutation runtime digest mismatch is caught and classified"
  (`tests/test_mc615_c3_executor_boundary.py:495`). The handler builds its intent without the expected
  digests and the adapter pulls by tag: a tag pushed after the gate's re-check is deployed and reported as
  verified.
* **`MCEventPipelineStableClaim`** Stable running and healthy evidence is said to resolve a container's incident
  (`docs/MC-3_ARCHITECTURE.md:514`). Only a `ContainerRecovered` event does, so that an incident opened by
  `exited` stays open.
* **`MCAdvisorUncertaintyClaim`** Degraded histories are said to fail closed with explicit uncertainty
  (`docs/MC-6.13_STATUS.md:157`). One uncertainty per unavailable observation exceeds the limit of 32 after eleven
  failed samples (at three metrics), and the request is refused without any.
* **`MCTelemetryFrozenClaim`** "It never reports fresh on frozen data"
  (`docs/MC-6.12_TELEMETRY_REMEDIATION.md:62`). A restarted sampler seeds its cache from the store and saves the
  old rows under the new sample's time before its first discovery has ended.
* **`MCAccessIdleClaim`** A session is said to be revalidated for inactivity at lookup
  (`sv/update/approval.py:111`). `DurableSessionStore.get` measures the timeout from the lookup itself.

## 5. Proofs

The theorems hold for every value of the constants: any sets of actions, workers, requests, sessions, identifiers,
processes, files and projects, any lifetimes, batch sizes and retention, any number of runs, crashes, faults and
updates. They rest on the assumptions TLC evaluates in every run and on nothing else: `ConstantsAssumption`,
`BoundaryAssumption`, `BoundsAssumption` (there is one original and one rollback) and `CrashesAssumption`,
`UpdateConstants`, `UpdateAssumption`, `TelemetryAssumption` (what `core/config.py:112-127` validates: positive intervals
and timeouts, and a staleness limit longer than the resource interval), `ValuesAssumption`, `ConfigurationAssumption`
(what `core/config.py:143-175` validates, and windows and cooldowns no longer than the retention) and
`BudgetsAssumption` (the type of the bounds). The theorems on `UpdateEngine` have no hypothesis on the constants; what they except are the mishaps that
have happened. The two on `NoStorm` have one hypothesis each, `NoReplay` and `Undisturbed`, discussed below. Besides the
properties of the runs they include some that no run needs to repeat: the types, the inductive invariants themselves,
`LifecycleIsLegal` (every path follows the table, the sweep's included), `RecoveryIsUnreachable` (with a lease that
lives as long as an authorization, as in the code, `RECONCILIATION_REQUIRED` is never reached) and `VerifiedBeforeRun`
(the engine runs for verified actions only).

**ControlPlane.** `AppliedOnce` is not inductive: whether the next write is safe depends on what every
worker *believes*. `IInv` has a part for each table and one for the workers:

* `LogInv`: an action is logged, at its revision, exactly when its row says so.
* `ConsentInv`: one binding granted, spent exactly in the states after `begin_execution`.
* `LeaseInv`: the lease exists from `LEASED` on, there is one, and it is bound to the version at which
  the action was leased; later states have later versions.
* `JobInv`: for each step, what a worker's local variables still say of the database whatever the
  others did since (`JobFits`).
* `MutatorInv`: no two workers are about to mutate for one action.

The heart is one conjunct of `JobFits`. A worker that finds the action already `RUNNING` builds a contract
of a later version than the lease it names, so that `_validate_lease` refuses it; hence only the worker
that itself began the execution reaches `execute_plan_mutation`, and its row cannot have moved. Without
that conjunct two workers may mutate for one action.

`ControlPlane_proofs` goes as follows. A step that changes no table only has to establish the facts of
its own new position (`LocalStep`, `CallSteps`, `ReadSteps`, `ProcessSteps`). A step that writes has a
lemma of its own (`RegisterActionStep`, ..., `RecoverStep`), which uses `KnowledgeStays` for the workers
that did nothing. `StepIInv` collects them, and the named theorems follow from `Invariance`.

Its last part proves `AuthorizedMutation` and `LegalLifecycle` from `IInv` and a lemma on
who writes what; `RecoveryUnreachable` from `TimeInv` (an action is authorized before it is leased, so
that with `LeaseTTL >= DecisionTTL` its lease ends no earlier); and `Refinement`: the initial states map,
`RegisterAction` is `Bind`, `ExecutePlanMutation` is `Apply`, `RecordVerification` is `Judge`, and
everything else stutters.

**ExecutorBoundary.** `InvokedOnce` rests on the claim being the only way to `invoke` and on a receipt
that never returns to `none`. `AnswerIsTruthful` needs more: a worker gives up and calls again, and the
late answer to its first call must not be read by the second. `ConnectionInv` states why it is not: a
worker has at most one open connection, the one its call waits on, and giving up closes it. `ServerInv`
relates what the executor holds to the receipt and the effect, `VerifiedInv` carries the action's
verification along the channel. `BoundaryInv` is their conjunction with the four properties and is
inductive. The proof has one lemma for the steps of a worker that leave the channel alone, one for those
that use it, and one each for the executor's work, its `Accept` and its `Reply`. It is the last part of
`UpdateEngine_proofs`, which extends both modules.

**Rollback, Startup.** `UndoesOnlyTheFailed` depends on what the revision of the plan tells of the past, and on
which processes may be about to write. `IInv` has these parts:

* `UpgradeInv`: a process about to migrate has read the version that still stands, unless another has stamped the
  schema since; a process that is up works on the stamped schema; a row without protocol exists only before it; and
  the rows of the earlier version are those without protocol or `legacy-v1`.
* `RowsInv`: a row has a state exactly when it is stored, so that storing never overwrites.
* `PlanInv`: revision 1 until the original mutates, revision 2 carries its fields, and after a restore the revision
  is beyond 2. Hence a restore, which both `ReadPlan` and the transaction hold to revision 2, happens once and replaces
  the original's fields.
* `FailedInv`: an execution works on a failed original, and past the gate on a rollback of this version.
* `VerdictInv`: a process about to close the original knows the verdict the rollback's row has. The row is terminal
  then, and no other process can move it.

`Rollback_proofs` first states for each step what it does to the job, the rows and the database (`...Effect`), then
goes through the parts one by one, with a step for each action; `QuietSteps` collects the actions that leave the
database alone. `UpgradeKeepsRows` is an action property: it follows from `RowsInv` and the migrations' own
conditions at every step.

**Access.** `EvidenceIsWhole` looks at the committed database, but the service writes a record and the row it is
about in different transactions, and a refused commit leaves the first one open. `RequestsSound` says what a request
still has to do and what its local variables guarantee: a login that was accepted holds the event loop and an unused
token, and has recorded the creation before it stores the row. `EndsHold` says that a session reported as ended is
revoked both in the database and in what the service reads through an open transaction; without the second half a
lookup behind a refused commit could revive it. `CommandsSound` and `EndsHold` keep registrations out of open
transactions. `GuessesCounted` relates the authenticator's counter, which a success and the end of a lockout reset, to
the guesses really made: while it is below the threshold no guess is uncounted, and at the threshold every guess will
be older than a lockout by the time the lock ends. The two action properties follow from the invariant at the step they
speak of. A registration's record is counted by the cardinality of a set of ledger positions; `RecordedOnce` reduces
that to the one position a step adds.

**UpdateEngine.** `UpdateInvariance` is `Spec => [](Harmless => IInv)`: the invariant holds until one of the four mishaps
that cost an edit has happened, and `mishaps` only grows (`MishapsGrow`), so that a step into a harmless state comes from
one. There is no assumption on which mishaps occur. Until then one update at a time is between its snapshot and its end
(`OneActive`): two may plan side by side, and nobody touches the checkout meanwhile. Why edits survive: an edit is in
the tree or in the entry the update pushed, which is the newest one, and the archive restored after a failure has all of
both; the drop happens only when the entry's edits are in the tree (`CallerSound`). That the update takes no other entry
for its own needs a true count before the push; the count after it may miss entries, and then the own entry is neither
applied nor dropped. `SuccessIsComplete` needs that, until the first update ended, the files are HEAD's (`VersionsKept`),
for the tree and for each entry relative to the commit it was taken from. The largest commit below another that touches
a file is a maximum over a set; `LastWriter` is the lemma on it.

**Telemetry.** Timers are never cancelled, so `TimeoutIsEarned` is about timers, not about tasks: `TimersSound` says that
a pending timer of a slot was armed by the run in it or by an earlier one, and when; `SlotsSound` that the next start of
a slot is an interval after its last. Interval and timeout need not be related. `SavesDateRows` and `RefreshesDateStats`
bound every date that is kept anywhere (rows, caches with their entry and their common date, the entry the fast thread
has read, the dashboard's copy) by the last save and by the start of the last refresh that got statistics; freshness,
which is computed from those dates, then implies the two properties.

**EventPipeline.** That an event is applied once depends on what each processor has left: `ApplierSound` says that those
events are stored and that none but a recovery has a transition already; `WriterSound` that what it is about to write
rests on a state the incident has had; `AppliersApart` that two processors are never at one run, because the marker's
key admits one of them and retention deletes no run with events. Which events one derivation may yield twice is
`DeriveIsDerived`: only recoveries. For the order, `ServiceInOrder` says what holds as long as no command ran: everything
up to `after_id` is processed, and everything before a run of the batch is processed or in it (`OldestFirst`: a limited
query returns the oldest). Its part `AloneSound` says that what the service has read is then still the incident, whence
the timeline without gap, and that a recovery it meets again finds the incident resolved and writes nothing: between two
recoveries of one key comes only an event that resolves as well. The oldest run of a batch is a minimum, which exists
because the order of the naturals is well-founded (`MinOf`).

**ServiceUpdate.** `CandidateFresh` rests on `CacheSound`: an entry with a digest has the positive lifetime, although
the client and the scheduler store it one after the other and judge "negative" differently (`ResolveCache`), and the
registry served that digest when the entry was made or later. `StartsAsApproved` needs the path to the gate:
`FlowSound` says that an observation's purpose fits the stage of the update and that, as long as there is evidence, it
is the presented, eligible plan; the gate's comparison then carries what the fresh listing says over to the approved plan
(`PlanFacts`). For `ReportIsTruthful`, `ExecSound` says at each phase which services of the scope are recreated and
inspected, in terms of those left. The work lists are sets taken in the order of `Order`; that they have a first element
follows, again, from the well-founded order of the naturals (`FirstIsMember`, `KeyIsMember`).

**Notifications.** `AttemptsAreTruthful` needs what a token proves: while the row of a claim has its token, the row's
number is the one of that claim (`DeliveryInv`), and the outcomes stored are those of earlier claims, or of the last one
when the message is no longer being sent (`AttemptInv`). `DecisionsAreKept` needs `ProgressOf`: the routes a projector no longer has before it have a decision, or
retention deleted it. These and the types are `CoreInv`.

`NoStorm` is about decisions that are committed on counters read earlier, by services that do not see each other. Two
services may both read "one message left", and both commit. Why the limit of the window holds all the same, whatever
their number: they work through the same transitions and routes in the same order, and a decision on an identity that
the other has made is a duplicate, not a message. Of two services that hold different identities the one that is
further along has passed the other's (`OneWasDecided`), so that all held decisions that are still open are about one
identity, and one of them is stored. `HeldOf` states it: what a projector is about to commit is what it would decide now,
unless another has decided the same identity meanwhile. Then the counters are as good as locked. `RowsCover` says that retention deletes
only counters that no longer matter, which is where windows no longer than the retention are used. `ChannelInv` bounds
the messages on a channel: those of the current window are at most its count, and a stretch as long as the window meets
at most one other window (`InWindow`, `AfterFirst`, `Preceding`), which is why the bound is `2 * max - 1`; `CooldownInv` is
the same for one scope. The counting is in `ChannelInsert` and `ChannelTick`, on cardinalities of the notifications by age.

All of this fails when an identity is decided twice, which only retention makes possible: a service that dies between the
decision and the marker, and stays down until the rows are deleted, projects the transition again, and what a second
service holds is stale then. `StormBound` therefore assumes `NoReplay` (nobody projects a transition of which a row has
been deleted), and `UndisturbedStormBound` shows that `NoReplay` needs no more than that nobody dies within a pass:
`PassInv` says that an unmarked transition with a decision is in some service's pass and that its decisions are of this
instant, too young for retention. The run `notifications` has neither hypothesis: it crashes services anywhere, and
`NoStorm` holds on its instance.

## 6. Only model-checked

`CallsReturn`, `RuntimeCallsReturn`, `RunsAreProcessed` and `EverythingSettles` are liveness properties under
fairness, out of the prover's reach. So is `Advisor` (`SustainedIsReal`, `RulesMeetTheContract`, `FreshIsComplete`): it
computes with folds over windows and lists, and what a fold returns for every list would need induction over data.
`NoStorm` when a transition is projected again after retention deleted its rows is checked on the run's instance only.
That the claims of section 4 fail is shown by counterexamples.

## 7. Not modelled, and why

* Hashing, signatures, canonical encodings, payload schemas: data. A digest is taken as injective.
* Capability and provenance predicates: a constant table and comparisons of file hashes, whose refusal changes
  nothing. The policy's decision is modelled for rollback requests.
* `reconcile_action` acts on an outcome nothing records here; `dry_run_update_intent` is not reachable
  over HTTP and writes nothing; the replay views of `approve_update_plan` write nothing.
* `SystemdRestartExecutor` (the in-process variant), the read-only receipt query and the privilege
  checks of the executor process.
* Telemetry's legacy mode, host and tunnel measurements, history queries.
* `docker compose pull` resolving a tag after the gate (`sv/compose/execution_adapter.py:177`) is modelled and has no
  property that holds: section 4, `MCServiceUpdateDigestClaim`.
* CLI, TUI, dashboard pages, mappers, models, providers: presentation, data, I/O.

Further places where the code is exposed and which the models contain, without a property of their own:
a `RUNNING` action left by a crash is only observed by every sweep (`cp/recovery.py:118`); two kill-switch commands
may save the same epoch (`cp/kill_switch.py:166`); the bindings' limit is checked before the write
(`cp/approval.py:139`); an action that is terminal before its runtime call is never run afterwards
(`cp/service.py:1266`); a new database file is open until `chmod` (`cp/storage/sqlite_store.py:190`).

## 8. What could come next

1. An abstract specification of the update engine (a checkout is updated, or as it was, or the audit says that it
   is neither), implemented by `UpdateEngine` and used for `ExecutorBoundary`'s `FinishRun`.
2. The incident timeline as the interface between `EventPipeline` and `Notifications`: now each has its own.
