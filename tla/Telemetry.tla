----------------------------- MODULE Telemetry -----------------------------
(***************************************************************************)
(* The telemetry sampler in split mode, its history store and the          *)
(* dashboard that reads the store from another process.                    *)
(*                                                                         *)
(* The coordinator thread takes the fast samples itself and starts three   *)
(* slow tasks (aggregate resource statistics, project discovery,           *)
(* retention) in single-flight slots, each in a thread of its own with a   *)
(* timer that is never cancelled.  Threads share the caches without a      *)
(* lock, a task cannot be killed, the process may stop or die at any step  *)
(* and a new one seeds its caches from the store.  Time is counted in fast *)
(* intervals; how long a step takes is left open.                          *)
(***************************************************************************)
EXTENDS Integers, FiniteSets

CONSTANTS
    Projects,      \* the project names discovery can meet
    Every,         \* task -> its interval (the *_interval_seconds)
    Limit,         \* task -> its timeout
    StaleAfter,    \* resource_stale_after_seconds, used for projects too
    Keep,          \* retention_days
    Batch,         \* RETENTION_BATCH_SIZE
    Together,      \* bound: the sets of slow tasks explored together
    MaxTime,       \* bound: the last instant explored
    MaxRuns,       \* bound: the runs the store holds
    MaxStops,      \* bound: how often the sampler process ends
    MaxChanges     \* bound: how often the host changes

Tasks == {"resource", "project", "retention"}

(***************************************************************************)
(* What the configuration validates: nothing relates an interval to a      *)
(* timeout.                                                                *)
(***************************************************************************)
ASSUME TelemetryAssumption ==
    /\ Every \in [Tasks -> Nat \ {0}] /\ Limit \in [Tasks -> Nat \ {0}]
    /\ StaleAfter \in Nat /\ StaleAfter > Every["resource"]
    /\ {Keep, MaxTime, MaxRuns, MaxStops, MaxChanges} \subseteq Nat
    /\ Batch \in Nat \ {0} /\ Together \subseteq SUBSET Tasks

VARIABLES
    now,
    host,       \* the world: [projects, container, changes]
    loop,       \* the coordinator: [pc, at, next, fast, tasks, sample, stops]
    slot,       \* task -> its _SingleFlightSlot and worker
    timers,     \* task -> the instants its pending timers are due
    cache,      \* the sampler's caches: [projects, entry, resourceAt]
    runs,       \* sample_runs, each with its child rows and whether an event cites it
    resources,  \* container_resource_samples: the newest row, or none
    dash,       \* the dashboard's cache of projects
    past        \* history the properties refer to; no step reads it

vars == <<now, host, loop, slot, timers, cache, runs, resources, dash, past>>

Never == -1
Times == 0 .. MaxTime
Tables == {"host", "project"}

-----------------------------------------------------------------------------
(* Freshness.                                                              *)

(* TelemetryFreshness.from_sample.  *)
from_sample(at, t, available, error) ==
    IF at = Never THEN IF error THEN "unavailable" ELSE "never_sampled"
    ELSE IF ~available THEN "unavailable"
    ELSE IF t - at <= StaleAfter THEN "fresh" ELSE "stale"

NoProjects == [available |-> FALSE, projects |-> {}]

(* The cache a failed discovery leaves: no project at all.  *)
Undiscovered == [available |-> FALSE, projects |-> {}]

(* hydrate_projects over get_latest_project_samples: the newest row of     *)
(* every name, dated by the newest of them all.                            *)
ProjectRows == {r \in runs : "project" \in r.kids}
Newest(S) == CHOOSE t \in S : \A u \in S : u <= t
HydratesNow(old, oldAt) ==
    IF ProjectRows = {} THEN [inventory |-> old, at |-> oldAt]
    ELSE [inventory |-> [available |-> TRUE,
                         projects |-> UNION {r.projects : r \in ProjectRows}],
          at |-> now]

hydrate_projects(old, oldAt) ==
    IF ProjectRows = {} THEN [inventory |-> old, at |-> oldAt]
    ELSE [inventory |-> [available |-> TRUE,
                         projects |-> UNION {r.projects : r \in ProjectRows}],
          at |-> Newest({r.at : r \in ProjectRows})]

(* A container's entry in the resource cache, the default for one that has *)
(* none, and what stands for a container that is not listed.               *)
NoEntry == [stats |-> "none", at |-> Never]
Unlisted == [stats |-> "unlisted", at |-> Never]
EmptyCache == [projects |-> NoProjects, entry |-> NoEntry, resourceAt |-> Never]

(* hydrate_resources over get_latest_resource_samples: the entry and the   *)
(* date of all entries.                                                    *)
hydrate_resources(c) == [c EXCEPT !.entry = resources, !.resourceAt = resources.at]

(* from_application, which seeds the caches of the sampler as well: the    *)
(* resources, then the projects.  It goes on without what it cannot read.  *)
Hydrated(read) ==
    CASE read = "nothing"   -> EmptyCache
      [] read = "resources" -> hydrate_resources(EmptyCache)
      [] read = "all"       -> [hydrate_resources(EmptyCache) EXCEPT
                                  !.projects = hydrate_projects(NoProjects, Never).inventory]

-----------------------------------------------------------------------------
(* Initial state: the sampler not started, the store empty or, where       *)
(* retention is explored, with a run of an earlier process.                *)

NoSample == [at |-> Never, projects |-> {}, stats |-> "none", entry |-> NoEntry]
IdleSlot == [running |-> FALSE, started |-> Never, timedOut |-> FALSE, cancel |-> FALSE,
             phase |-> "idle", found |-> {}, cutoff |-> Never]

(* When each slot was started last and the time before, in this process.   *)
NoStarts == [s \in Tasks |-> Never]

Init ==
    /\ now = 0
    /\ host \in [projects : {Projects}, container : {"running"}, changes : {0}]
    /\ loop \in [pc : {"down"}, at : {0}, next : {[s \in Tasks |-> 0]}, fast : {0},
                tasks : Together, sample : {NoSample}, stops : {0}]
    /\ slot = [s \in Tasks |-> IdleSlot]
    /\ timers = [s \in Tasks |-> {}]
    /\ cache = EmptyCache
    /\ runs = IF "retention" \in loop.tasks
              THEN {[at |-> 0, cited |-> FALSE, kids |-> Tables, projects |-> Projects]} ELSE {}
    /\ resources = NoEntry
    /\ dash = [inventory |-> NoProjects, at |-> Never, refreshed |-> Never]
    /\ past = [seen |-> [p \in Projects |-> Never], saved |-> IF runs = {} THEN Never ELSE 0,
               measured |-> Never, last |-> NoStarts, before |-> NoStarts]

-----------------------------------------------------------------------------
(* The coordinator.                                                        *)

store == <<runs, resources>>

(* build_sampler and the head of TelemetrySamplingCoordinator.run.         *)
Start ==
    /\ loop.pc = "down" /\ loop.stops <= MaxStops
    /\ \E read \in {"nothing", "resources", "all"} : cache' = Hydrated(read)
    /\ loop' = [loop EXCEPT !.pc = "slow", !.next = [s \in Tasks |-> now],
                            !.fast = now]
    /\ UNCHANGED <<now, host, slot, timers, store, dash, past>>

(* _SingleFlightSlot.start: skipped while the task runs.                   *)
Started(s) ==
    IF slot[s].running THEN slot[s]
    ELSE [IdleSlot EXCEPT !.running = TRUE, !.started = now, !.phase = "work"]

NextStartInStep(due, every) == due + every

(* When run next starts a task: counted from now, so that a loop that was  *)
(* held up does not catch up.                                              *)
NextStart(due, every) == now + every

(* The loop sleeps until the first of its deadlines.                       *)
Due == now >= loop.fast \/ \E s \in loop.tasks : now >= loop.next[s]

(* The slow part of one turn of run.                                       *)
StartTasks ==
    /\ loop.pc = "slow"
    /\ Due
    /\ LET due == {s \in loop.tasks : now >= loop.next[s]}
       IN  /\ slot' = [s \in Tasks |-> IF s \in due THEN Started(s) ELSE slot[s]]
           /\ timers' = [s \in Tasks |-> IF s \in due /\ ~slot[s].running
                                         THEN timers[s] \cup {now + Limit[s]} ELSE timers[s]]
           /\ loop' = [loop EXCEPT
                !.pc = IF now >= loop.fast THEN "fast" ELSE "slow",
                !.at = IF now >= loop.fast THEN now ELSE 0,
                !.next = [s \in Tasks |-> IF s \in due THEN NextStart(loop.next[s], Every[s])
                                                        ELSE loop.next[s]]]
           /\ past' = [past EXCEPT
                !.last = [s \in Tasks |-> IF s \in due /\ ~slot[s].running THEN now ELSE @[s]],
                !.before = [s \in Tasks |-> IF s \in due /\ ~slot[s].running THEN past.last[s] ELSE @[s]]]
    /\ UNCHANGED <<now, host, cache, store, dash>>

(* The Docker part of a fast snapshot: the entry that was read, dated by   *)
(* the cache's one date, or by its own while there is none.  ResourceStats *)
(* are available unless a refresh said otherwise, also for a container no  *)
(* refresh has seen.                                                       *)
fast_resources(e, t) ==
    IF e = Unlisted THEN "none"
    ELSE from_sample(IF cache.resourceAt # Never THEN cache.resourceAt ELSE e.at, t,
                     e.stats # "unavailable", e.stats = "unavailable")

(* fast_snapshot, which waits for no slow task: the containers, which may  *)
(* not be listed, and the cached entry ...                                 *)
ListContainers ==
    /\ loop.pc = "fast"
    /\ \E listed \in BOOLEAN :
          loop' = [loop EXCEPT !.pc = "docker",
                     !.sample = [NoSample EXCEPT !.at = now,
                        !.entry = IF listed /\ host.container # "absent" THEN cache.entry ELSE Unlisted]]
    /\ UNCHANGED <<now, host, slot, timers, cache, store, dash, past>>

(* to_sample: the project rows get the sample's time, not the cache's.     *)
to_sample(at, projects, stats) ==
    [at |-> at, projects |-> projects, stats |-> stats, entry |-> NoEntry]

(* ... then the date, which a refresh may have renewed in between, and the *)
(* cached projects.                                                        *)
FastSnapshot ==
    /\ loop.pc = "docker"
    /\ loop' = [loop EXCEPT !.pc = "save",
                  !.sample = to_sample(@.at, cache.projects.projects, fast_resources(@.entry, @.at))]
    /\ UNCHANGED <<now, host, slot, timers, cache, store, dash, past>>

(* The end of a turn of run: next_fast keeps its grid unless it is behind. *)
Turned == [loop EXCEPT !.sample = NoSample,
                       !.pc = "slow", !.at = 0,
                       !.fast = IF loop.fast + 1 <= loop.at THEN loop.at + 1 ELSE loop.fast + 1]

(* save_sample: the run and its children in one transaction.               *)
SaveSample ==
    /\ loop.pc = "save" /\ Cardinality(runs) < MaxRuns
    /\ runs' = runs \cup
         {[at |-> loop.sample.at, cited |-> FALSE,
           kids |-> IF loop.sample.projects = {} THEN {"host"} ELSE Tables,
           projects |-> loop.sample.projects]}
    /\ loop' = Turned
    /\ past' = IF loop.sample.projects = {} THEN past
               ELSE [past EXCEPT !.saved = loop.sample.at]
    /\ UNCHANGED <<now, host, slot, timers, cache, resources, dash>>

(* save_sample fails (a locked database): the sample is lost.              *)
SaveFails ==
    /\ loop.pc = "save" /\ loop' = Turned
    /\ UNCHANGED <<now, host, slot, timers, cache, store, dash, past>>

(* The process ends: by a crash at any step, or after request_stop, which  *)
(* also cancels the discovery (DiscoveryFails) and lets a sample that has  *)
(* begun finish.  Task and timer threads are daemons and end with it.      *)
Exit ==
    /\ loop.pc # "down"
    /\ loop' = [loop EXCEPT !.pc = "down", !.stops = @ + 1, !.at = 0, !.next = [s \in Tasks |-> 0],
                            !.fast = 0, !.sample = NoSample]
    /\ cache' = EmptyCache
    /\ slot' = [s \in Tasks |-> IdleSlot]
    /\ timers' = [s \in Tasks |-> {}]
    /\ past' = [past EXCEPT !.last = NoStarts, !.before = NoStarts]
    /\ UNCHANGED <<now, host, store, dash>>

(* _mark_timeout: a timer marks whatever its slot runs when it fires.      *)
MarkTimeout(s) ==
    /\ \E t \in timers[s] : t <= now /\ timers' = [timers EXCEPT ![s] = @ \ {t}]
    /\ slot' = IF slot[s].running
               THEN [slot EXCEPT ![s].timedOut = TRUE, ![s].cancel = TRUE]
               ELSE slot
    /\ UNCHANGED <<now, host, loop, cache, store, dash, past>>

(* The end of _run; last_status and the counters are only displayed.       *)
Ended(s) == [slot EXCEPT ![s] = IdleSlot]

-----------------------------------------------------------------------------
(* Project discovery: refresh_project_once, projects.snapshot, discover.   *)

(* A walk that fails, is cancelled or meets its deadline replaces the      *)
(* cache by an empty, unavailable inventory.                               *)
DiscoveryFails ==
    /\ slot["project"].phase = "work"
    /\ slot' = Ended("project")
    /\ cache' = [cache EXCEPT !.projects = Undiscovered]
    /\ UNCHANGED <<now, host, loop, timers, store, dash, past>>

(* The walk passes its last test of the deadline and the cancel event.     *)
Discover ==
    /\ slot["project"].phase = "work" /\ ~slot["project"].cancel
    /\ now < slot["project"].started + Limit["project"]
    /\ slot' = [slot EXCEPT !["project"].phase = "publish", !["project"].found = host.projects]
    /\ UNCHANGED <<now, host, loop, timers, cache, store, dash, past>>

(* snapshot replaces the cache.  *)
PublishInventory ==
    /\ slot["project"].phase = "publish"
    /\ cache' = [cache EXCEPT !.projects = [available |-> TRUE,
                                            projects |-> slot["project"].found]]
    /\ slot' = Ended("project")
    /\ past' = [past EXCEPT !.seen = [p \in Projects |->
                  IF p \in slot["project"].found THEN slot["project"].started ELSE @[p]]]
    /\ UNCHANGED <<now, host, loop, timers, store, dash>>

-----------------------------------------------------------------------------
(* Aggregate resource statistics: refresh_resource_once.                   *)

(* The entry refresh_resources writes for a container it lists: dated when *)
(* it was measured, undated otherwise.                                     *)
EntryOf(returned) ==
    IF host.container = "running" /\ returned
    THEN [stats |-> "ok", at |-> slot["resource"].started]
    ELSE [stats |-> "unavailable", at |-> Never]

(* The list and the aggregate statistics are there and the container's     *)
(* entry is written; one that is not listed keeps its entry.               *)
RefreshEntry ==
    /\ slot["resource"].phase = "work"
    /\ \E returned \in BOOLEAN :
          LET e == EntryOf(returned)
          IN  IF host.container = "absent"
              THEN /\ slot' = [slot EXCEPT !["resource"].phase = "date"]
                   /\ UNCHANGED cache
              ELSE /\ slot' = [slot EXCEPT !["resource"].phase = "date", !["resource"].found = {e.stats}]
                   /\ cache' = [cache EXCEPT !.entry = e]
    /\ past' = [past EXCEPT !.measured = slot["resource"].started]
    /\ UNCHANGED <<now, host, loop, timers, store, dash>>

(* After the last container all entries are dated by the refresh's start.  *)
RefreshDates ==
    /\ slot["resource"].phase = "date"
    /\ cache' = [cache EXCEPT !.resourceAt = slot["resource"].started]
    /\ slot' = [slot EXCEPT !["resource"].phase = "save"]
    /\ UNCHANGED <<now, host, loop, timers, store, dash, past>>

FailureRedates ==
    /\ slot["resource"].phase \in {"work", "date"}
    /\ slot' = Ended("resource")
    /\ cache' = [cache EXCEPT !.resourceAt = slot["resource"].started]
    /\ UNCHANGED <<now, host, loop, timers, store, dash, past>>

(* list_containers or stats_all fails, or a later container cannot be      *)
(* inspected: the entries written so far stay, the date is not renewed and *)
(* a run without rows is saved.                                            *)
RefreshFails ==
    /\ slot["resource"].phase \in {"work", "date"}
    /\ slot' = Ended("resource")
    /\ UNCHANGED <<now, host, loop, timers, cache, store, dash, past>>

(* save_resource_sample writes a row for every listed container, or fails. *)
SaveResources ==
    /\ slot["resource"].phase = "save"
    /\ \E saved \in BOOLEAN :
          /\ resources' = IF saved /\ slot["resource"].found # {}
                          THEN [at |-> slot["resource"].started,
                                stats |-> CHOOSE x \in slot["resource"].found : TRUE]
                          ELSE resources
    /\ slot' = Ended("resource")
    /\ UNCHANGED <<now, host, loop, timers, cache, runs, dash, past>>

-----------------------------------------------------------------------------
(* Retention: cleanup_retention and delete_older_than.  Every batch is a   *)
(* transaction of its own, so samples are saved and events written         *)
(* between two batches.                                                    *)

pass == slot["retention"]
Expired(r) == r.at < pass.cutoff
After(phase) == CASE phase = "host"      -> "project"
                  [] phase = "project"   -> "resources"
                  [] phase = "resources" -> "parents"
                  [] phase = "parents"   -> "runs"
                  [] OTHER               -> "done"

BeginPass ==
    /\ pass.phase = "work"
    /\ slot' = [slot EXCEPT !["retention"].phase = "host", !["retention"].cutoff = now - Keep]
    /\ UNCHANGED <<now, host, loop, timers, cache, store, dash, past>>

(* The batches a statement with LIMIT may delete; which rows is left open. *)
(* A batch that a reference refuses is tried again with a smaller limit.   *)
Batches(S) == {B \in SUBSET S : B # {} /\ Cardinality(B) <= Batch}

OrphanedChild(r, t) == [r EXCEPT !.kids = @ \ {t}, !.projects = IF t = "project" THEN {} ELSE @]

(* _delete_batch on a child table, repeated until it deletes nothing.      *)
DeleteChildren(t) ==
    /\ pass.phase = t
    /\ LET old == {r \in runs : Expired(r) /\ t \in r.kids}
       IN  \/ /\ old = {}
              /\ slot' = [slot EXCEPT !["retention"].phase = After(t)]
              /\ UNCHANGED runs
           \/ \E B \in Batches(old) :
                 /\ runs' = (runs \ B) \cup {OrphanedChild(r, t) : r \in B}
                 /\ UNCHANGED slot
    /\ UNCHANGED <<now, host, loop, timers, cache, resources, dash, past>>

(* The resource rows ...                                                   *)
DeleteResources ==
    /\ pass.phase = "resources"
    /\ resources' = IF resources.at < pass.cutoff THEN NoEntry ELSE resources
    /\ slot' = [slot EXCEPT !["retention"].phase = "parents"]
    /\ UNCHANGED <<now, host, loop, timers, cache, runs, dash, past>>

(* ... and the resource runs without rows, which nothing else reads.       *)
DeleteResourceRuns ==
    /\ pass.phase = "parents"
    /\ slot' = [slot EXCEPT !["retention"].phase = "runs"]
    /\ UNCHANGED <<now, host, loop, timers, cache, store, dash, past>>

(* The guards of the last statement: no child row and no event left.       *)
Deletable(r) == Expired(r) /\ r.kids = {} /\ ~r.cited

(* One batch of sample_runs.                                               *)
DeleteRuns ==
    /\ pass.phase = "runs"
    /\ LET old == {r \in runs : Deletable(r)}
       IN  \/ /\ old = {}
              /\ slot' = [slot EXCEPT !["retention"].phase = "done"]
              /\ UNCHANGED runs
           \/ \E B \in Batches(old) :
                 /\ runs' = runs \ B
                 /\ UNCHANGED slot
    /\ UNCHANGED <<now, host, loop, timers, cache, resources, dash, past>>

(* _execute_guarded gives a table up when the database stays locked or a   *)
(* reference refuses its smallest batch: the pass goes on with the next.   *)
(* The resource runs are not guarded: a lock there ends the pass with an   *)
(* error.                                                                  *)
Locked ==
    /\ pass.phase \in Tables \cup {"resources", "parents", "runs"}
    /\ slot' = [slot EXCEPT !["retention"].phase = IF @ = "parents" THEN "done" ELSE After(@)]
    /\ UNCHANGED <<now, host, loop, timers, cache, store, dash, past>>

PassEnds ==
    /\ pass.phase = "done"
    /\ slot' = Ended("retention")
    /\ UNCHANGED <<now, host, loop, timers, cache, store, dash, past>>

-----------------------------------------------------------------------------
(* The dashboard process.                                                  *)

(* What the projects part of an overview would say at this moment.         *)
Answer == from_sample(dash.at, now, dash.inventory.available, FALSE)

(* overview: _maybe_refresh_project_history re-reads the store at most     *)
(* once in project_interval_seconds, and a failure keeps the cache.  A     *)
(* dashboard that was restarted begins with an empty cache and reads the   *)
(* store first (from_application).                                         *)
Overview ==
    /\ "project" \in loop.tasks
    /\ \E readable, restarted \in BOOLEAN :
          LET inventory == IF restarted THEN NoProjects ELSE dash.inventory
              at == IF restarted THEN Never ELSE dash.at
              due == restarted \/ dash.refreshed = Never \/ now - dash.refreshed >= Every["project"]
              h == IF due /\ readable THEN hydrate_projects(inventory, at)
                   ELSE [inventory |-> inventory, at |-> at]
          IN  dash' = [inventory |-> h.inventory, at |-> h.at,
                       refreshed |-> IF due THEN now ELSE dash.refreshed]
    /\ UNCHANGED <<now, host, loop, slot, timers, cache, store, past>>

-----------------------------------------------------------------------------
(* The world: the host, the event pipeline, time.                          *)

(* An operator creates or removes a project, starts, stops or removes the  *)
(* container.                                                              *)
HostChanges ==
    /\ host.changes < MaxChanges
    /\ \/ /\ "project" \in loop.tasks
          /\ \E P \in SUBSET Projects \ {host.projects} :
                host' = [host EXCEPT !.projects = P, !.changes = @ + 1]
       \/ /\ "resource" \in loop.tasks
          /\ \E c \in {"absent", "stopped", "running"} \ {host.container} :
                host' = [host EXCEPT !.container = c, !.changes = @ + 1]
    /\ UNCHANGED <<now, loop, slot, timers, cache, store, dash, past>>

(* The event pipeline derives an event from a run; one cited run is enough *)
(* to stand in retention's way.                                            *)
EventCites ==
    /\ "retention" \in loop.tasks /\ \A r \in runs : ~r.cited
    /\ \E r \in runs : runs' = (runs \ {r}) \cup {[r EXCEPT !.cited = TRUE]}
    /\ UNCHANGED <<now, host, loop, slot, timers, cache, resources, dash, past>>

(* Timers fire and the sleeping loop wakes on time; a fast sample may hold *)
(* the loop up, but is saved long before its rows would be due for         *)
(* deletion (seconds against a day).                                       *)
Tick ==
    /\ now < MaxTime
    /\ \A s \in Tasks : \A t \in timers[s] : t > now
    /\ loop.pc # "fast" /\ ~(loop.pc = "slow" /\ Due)
    /\ loop.pc \in {"docker", "save"} => now - loop.sample.at < Keep
    /\ now' = now + 1
    /\ UNCHANGED <<host, loop, slot, timers, cache, store, dash, past>>

Next ==
    \/ Start \/ StartTasks \/ ListContainers \/ FastSnapshot \/ SaveSample \/ SaveFails
    \/ Exit
    \/ \E s \in Tasks : MarkTimeout(s)
    \/ DiscoveryFails \/ Discover \/ PublishInventory
    \/ RefreshEntry \/ RefreshDates \/ RefreshFails \/ SaveResources
    \/ BeginPass \/ (\E t \in Tables : DeleteChildren(t)) \/ DeleteResources \/ DeleteResourceRuns \/ DeleteRuns
    \/ Locked
    \/ PassEnds \/ Overview
    \/ HostChanges \/ EventCites \/ Tick

Spec == Init /\ [][Next]_vars

-----------------------------------------------------------------------------
(* Properties.                                                             *)

(* A dashboard that calls its projects fresh read rows the sampler saved   *)
(* no longer than StaleAfter before: when telemetry stops, the answer      *)
(* degrades, across restarts of either process, failed reads and the       *)
(* throttle of _maybe_refresh_project_history.                             *)
StopsAreSeen ==
    Answer = "fresh" => past.saved # Never /\ now - past.saved <= StaleAfter

(* A container row written with fresh resource statistics was sampled      *)
(* within StaleAfter of the start of a refresh that got the daemon's       *)
(* statistics: refreshes that get none (refresh_resources) never make a    *)
(* row fresh, whatever entries a refresh that stopped midway left, between *)
(* the fast thread's reads of entry and date and across restarts.  The     *)
(* statistics themselves may be older: one date stands for all containers. *)
ResourcesAreBacked ==
    loop.sample.stats = "fresh" =>
        past.measured # Never /\ loop.sample.at - past.measured <= StaleAfter

(* A task is marked as timed out before it has run for its timeout only    *)
(* when its slot's run before it had started no longer than a timeout      *)
(* earlier: _mark_timeout fires for the slot, not for the run that armed   *)
(* it.  Two runs of a slot start at least an interval apart, however the   *)
(* loop was held up, so that no interval longer than the timeout lets the  *)
(* timer of one run hit the next.                                          *)
TimeoutIsEarned ==
    \A s \in Tasks : slot[s].running =>
        /\ past.before[s] # Never => slot[s].started - past.before[s] >= Every[s]
        /\ slot[s].timedOut =>
              \/ now - slot[s].started >= Limit[s]
              \/ past.before[s] # Never /\ slot[s].started - past.before[s] <= Limit[s]

-----------------------------------------------------------------------------
(* A claim of the documentation that the code does not keep.               *)

(* docs/MC-6.12_TELEMETRY_REMEDIATION.md: project freshness "never reports *)
(* fresh on frozen data".  Generously: a project in a fresh inventory was  *)
(* seen by a discovery within StaleAfter plus one interval and timeout.    *)
NeverFreshOnFrozenData ==
    Answer = "fresh" =>
        \A p \in dash.inventory.projects :
            now - past.seen[p] <= StaleAfter + Every["project"] + Limit["project"]
=============================================================================
