------------------------- MODULE Telemetry_proofs --------------------------
(* Proofs for Telemetry: its safety properties hold for any projects, any    *)
(* intervals and timeouts the configuration admits, and any number of        *)
(* samples, restarts and changes of the host.                                *)
EXTENDS Telemetry, WellFoundedInduction, TLAPS

-----------------------------------------------------------------------------
(* The inductive invariant.                                                  *)

Instants == Nat \cup {Never}
Stats == {"none", "ok", "unavailable"}
Inventories == [available : BOOLEAN, projects : SUBSET Projects]
Entries == [stats : Stats, at : Instants]
Caches == [projects : Inventories, entry : Entries, resourceAt : Instants]
Samples == [at : Instants, projects : SUBSET Projects,
            stats : {"none", "never_sampled", "unavailable", "fresh", "stale"},
            entry : [stats : Stats \cup {"unlisted"}, at : Instants]]
Loops == [pc : {"down", "slow", "fast", "docker", "save"}, at : Nat, next : [Tasks -> Nat], fast : Nat,
          tasks : SUBSET Tasks, sample : Samples, stops : Nat]
Phases == {"idle", "work", "publish", "date", "save", "host", "project", "resources", "parents", "runs", "done"}
Slots == [running : BOOLEAN, started : Instants, timedOut : BOOLEAN, cancel : BOOLEAN,
          phase : Phases, found : SUBSET (Projects \cup Stats), cutoff : Int]
Runs == [at : Nat, cited : BOOLEAN, kids : SUBSET Tables, projects : SUBSET Projects]
Histories == [seen : [Projects -> Instants], saved : Instants, measured : Instants,
              last : [Tasks -> Instants], before : [Tasks -> Instants]]

TypeOK ==
    /\ now \in Nat
    /\ host \in [projects : SUBSET Projects, container : {"absent", "stopped", "running"},
                 changes : Nat]
    /\ loop \in Loops
    /\ slot \in [Tasks -> Slots]
    /\ slot["project"].found \subseteq Projects /\ slot["resource"].found \subseteq Stats
    /\ timers \in [Tasks -> SUBSET Nat]
    /\ cache \in Caches
    /\ runs \subseteq Runs
    /\ resources \in Entries
    /\ dash \in [inventory : Inventories, at : Instants, refreshed : Instants]
    /\ past \in Histories

\* A slot that is not in use is as it was made; two starts of a slot are an
\* interval apart, and a task that was marked has run for its timeout or was
\* started within a timeout of the one before.
SlotsSound ==
    \A s \in Tasks :
        /\ slot[s].running <=> slot[s].phase # "idle"
        /\ slot[s].running => slot[s].started \in 0 .. now /\ slot[s].started = past.last[s]
        /\ past.last[s] # Never => past.last[s] \in 0 .. now /\ past.last[s] + Every[s] <= loop.next[s]
        /\ past.before[s] # Never => past.last[s] # Never /\ past.before[s] + Every[s] <= past.last[s]
        /\ slot[s].running /\ slot[s].timedOut =>
              \/ now - slot[s].started >= Limit[s]
              \/ past.before[s] # Never /\ slot[s].started - past.before[s] <= Limit[s]

\* A pending timer is not overdue, and is that of the slot's last run or of one
\* no later than the run before.
TimersSound ==
    \A s \in Tasks : \A t \in timers[s] :
        /\ now <= t /\ past.last[s] # Never
        /\ t = past.last[s] + Limit[s] \/ (past.before[s] # Never /\ t <= past.before[s] + Limit[s])

\* A process that is down has neither tasks nor timers.
DownIsQuiet ==
    loop.pc = "down" => \A s \in Tasks :
        timers[s] = {} /\ ~slot[s].running /\ past.last[s] = Never /\ past.before[s] = Never

\* No date of a project row, or of the dashboard's cache, is later than the
\* last save.
SavesDateRows ==
    /\ past.saved <= now
    /\ loop.pc \in {"docker", "save"} => loop.sample.at \in 0 .. now /\ past.saved <= loop.sample.at
    /\ \A r \in runs : "project" \in r.kids => r.at <= past.saved
    /\ dash.at <= past.saved

\* No date of resource statistics is later than the start of the last refresh
\* that got statistics, and a task that is still at work started after it.
RefreshesDateStats ==
    /\ past.measured <= now
    /\ cache.resourceAt <= past.measured /\ resources.at <= past.measured
    /\ cache.entry.at <= past.measured /\ loop.sample.entry.at <= past.measured
    /\ slot["resource"].phase = "work" => past.measured <= slot["resource"].started
    /\ slot["resource"].phase \in {"date", "save"} => slot["resource"].started <= past.measured

IInv ==
    /\ TypeOK /\ SlotsSound /\ TimersSound /\ DownIsQuiet /\ SavesDateRows
    /\ RefreshesDateStats /\ ResourcesAreBacked

-----------------------------------------------------------------------------
(* Operators.                                                                *)

\* A bounded, non-empty set of naturals has a greatest element, so the newest
\* of some dates (get_latest_project_samples) is one of them.
LEMMA NewestIsMember ==
    ASSUME NEW S, S \subseteq Nat, S # {}, NEW n \in Nat, \A t \in S : t <= n
    PROVE  Newest(S) \in S
  <1> DEFINE D == {n - t : t \in S}
         R == {p \in Nat \X Nat : p[1] < p[2]}
  <1>1. D \subseteq Nat
    <2>1. \A t \in S : n - t \in Nat
      OBVIOUS
    <2> QED
      BY <2>1
  <1>2. D # {}
    OBVIOUS
  <1>3. IsWellFoundedOn(R, Nat)
    BY NatLessThanWellFounded DEF OpToRel
  <1>4. PICK d \in D : \A e \in D : <<e, d>> \notin R
    <2> HIDE DEF D, R
    <2> QED
      BY <1>1, <1>2, <1>3, WFMin
  <1>5. \A e \in D : d <= e
    <2> SUFFICES ASSUME NEW e \in D PROVE d <= e
      OBVIOUS
    <2>1. d \in Nat /\ e \in Nat
      BY <1>1
    <2>2. <<e, d>> \notin R
      BY <1>4
    <2>3. ~(e < d)
      BY <2>1, <2>2
    <2> QED
      BY <2>1, <2>3
  <1>6. PICK t \in S : d = n - t
    OBVIOUS
  <1>7. \A u \in S : u <= t
    <2> SUFFICES ASSUME NEW u \in S PROVE u <= t
      OBVIOUS
    <2>1. n - u \in D
      OBVIOUS
    <2>2. n - t <= n - u
      BY <1>5, <1>6, <2>1
    <2>3. u \in Nat /\ t \in Nat /\ n \in Nat
      OBVIOUS
    <2> HIDE DEF D, R
    <2> QED
      BY <2>2, <2>3
  <1> QED
    BY <1>6, <1>7 DEF Newest

\* The tasks and tables by name.
LEMMA TaskNames == {"resource", "project", "retention"} = Tasks
  BY DEF Tasks

\* What a cache is seeded from is an inventory, dated like a row or as before.
LEMMA HydratedInventory ==
    ASSUME TypeOK, SavesDateRows, NEW old \in Inventories, NEW oldAt \in Instants,
           oldAt <= past.saved
    PROVE  /\ hydrate_projects(old, oldAt).inventory \in Inventories
           /\ hydrate_projects(old, oldAt).at \in Instants
           /\ hydrate_projects(old, oldAt).at <= past.saved
  <1>1. CASE ProjectRows = {}
    BY <1>1 DEF hydrate_projects
  <1>2. CASE ProjectRows # {}
    <2> DEFINE S == {r.at : r \in ProjectRows}
               P == UNION {r.projects : r \in ProjectRows}
    <2>1. \A r \in ProjectRows : r.at \in Nat /\ r.at <= past.saved /\ r.projects \subseteq Projects
      BY DEF TypeOK, SavesDateRows, ProjectRows, Runs
    <2>2. S \subseteq Nat /\ S # {} /\ \A t \in S : t <= past.saved
      BY <1>2, <2>1
    <2>3. past.saved \in Nat
      <3>1. past.saved \in Nat \/ past.saved = -1
        BY DEF TypeOK, Histories, Instants, Never
      <3>2. PICK t \in Nat : t <= past.saved
        <4> HIDE DEF S
        <4> QED
          BY <2>2
      <3> QED
        BY <3>1, <3>2
    <2>4. Newest(S) \in S
      BY <2>2, <2>3, NewestIsMember
    <2>5. P \subseteq Projects
      BY <2>1
    <2> HIDE DEF S, P
    <2>6. hydrate_projects(old, oldAt)
             = [inventory |-> [available |-> TRUE, projects |-> P], at |-> Newest(S)]
      BY <1>2 DEF hydrate_projects, S, P
    <2>7. Newest(S) \in Nat /\ Newest(S) <= past.saved
      BY <2>2, <2>4
    <2>8. [available |-> TRUE, projects |-> P] \in Inventories
      BY <2>5 DEF Inventories
    <2> QED
      BY <2>6, <2>7, <2>8 DEF Instants
  <1> QED
    BY <1>1, <1>2

\* The places a slot can be left in are slots.
LEMMA SlotTypes ==
    /\ IdleSlot \in Slots
    /\ IdleSlot.running = FALSE /\ IdleSlot.phase = "idle" /\ IdleSlot.found = {}
  BY DEF IdleSlot, Slots, Instants, Phases, Never

\* Every step of the coordinator turns a loop into a loop.
LEMMA NoSampleType ==
    /\ NoSample \in Samples /\ NoSample.stats = "none" /\ NoSample.entry.at = Never
    /\ NoEntry \in Entries /\ EmptyCache \in Caches /\ NoStarts \in [Tasks -> Instants]
  BY DEF NoSample, Samples, Instants, NoEntry, Stats, Entries, EmptyCache, Caches, NoProjects,
         Inventories, NoStarts

\* The end of a turn.
LEMMA TurnedType ==
    ASSUME TypeOK
    PROVE  /\ Turned \in Loops
           /\ Turned.pc = "slow" /\ Turned.next = loop.next /\ Turned.sample = NoSample
  <1>1. loop.fast + 1 \in Nat /\ loop.at + 1 \in Nat
    BY DEF TypeOK, Loops
  <1> QED
    BY <1>1, NoSampleType DEF TypeOK, Loops, Turned

\* A slot whose task ends, and one whose task moves on.
LEMMA SlotSteps ==
    ASSUME TypeOK, NEW s \in Tasks
    PROVE  /\ Ended(s) \in [Tasks -> Slots]
           /\ Ended(s)["project"].found \subseteq Projects
           /\ Ended(s)["resource"].found \subseteq Stats
           /\ \A phase \in Phases :
                 /\ [slot EXCEPT ![s].phase = phase] \in [Tasks -> Slots]
                 /\ \A r \in Tasks : [slot EXCEPT ![s].phase = phase][r].found = slot[r].found
  <1>1. \A r \in Tasks : slot[r] \in Slots
    BY DEF TypeOK
  <1>2. ASSUME NEW phase \in Phases
        PROVE  /\ [slot EXCEPT ![s].phase = phase] \in [Tasks -> Slots]
               /\ \A r \in Tasks : [slot EXCEPT ![s].phase = phase][r].found = slot[r].found
    BY <1>1 DEF TypeOK, Slots
  <1>3. Ended(s) \in [Tasks -> Slots]
    BY SlotTypes DEF TypeOK, Ended
  <1>4. \A r \in Tasks : Ended(s)[r].found = slot[r].found \/ Ended(s)[r].found = {}
    BY SlotTypes DEF TypeOK, Ended
  <1> QED
    BY <1>2, <1>3, <1>4 DEF TypeOK, Tasks

-----------------------------------------------------------------------------
(* Type correctness.                                                         *)

\* The coordinator's steps keep the types.
LEMMA LoopTypes ==
    ASSUME TypeOK, SavesDateRows,
           Start \/ ListContainers \/ FastSnapshot \/ SaveSample \/ SaveFails \/ Exit
    PROVE  TypeOK'
  <1>1. CASE Start
    <2> DEFINE h == hydrate_projects(NoProjects, Never)
    <2>1. NoProjects \in Inventories /\ Never \in Instants /\ Never <= past.saved
      BY DEF NoProjects, Inventories, Instants, Never, TypeOK, Histories
    <2>2. h.inventory \in Inventories
      BY <2>1, HydratedInventory
    <2>a. hydrate_resources(EmptyCache) \in Caches
      BY NoSampleType DEF hydrate_resources, TypeOK, Caches, Entries
    <2>3. cache' \in Caches
      <3>1. PICK read \in {"nothing", "resources", "all"} : cache' = Hydrated(read)
        BY <1>1 DEF Start
      <3>2. [hydrate_resources(EmptyCache) EXCEPT !.projects = h.inventory] \in Caches
        BY <2>2, <2>a DEF Caches
      <3> QED
        BY <2>a, <3>1, <3>2, NoSampleType DEF Hydrated
    <2>4. loop' \in Loops
      BY <1>1 DEF Start, TypeOK, Loops
    <2> QED
      BY <1>1, <2>3, <2>4 DEF Start, store, TypeOK
  <1>2. CASE FastSnapshot
    <2>1. cache.projects.projects \subseteq Projects
      BY DEF TypeOK, Caches, Inventories
    <2> DEFINE at == loop.sample.at
               stats == fast_resources(loop.sample.entry, loop.sample.at)
    <2>2. loop' = [loop EXCEPT !.pc = "save", !.sample = to_sample(at, cache.projects.projects, stats)]
      BY <1>2 DEF FastSnapshot, TypeOK, Loops
    <2>3. stats \in {"none", "never_sampled", "unavailable", "fresh", "stale"} /\ at \in Instants
      BY DEF fast_resources, from_sample, TypeOK, Loops, Samples
    <2> HIDE DEF at, stats
    <2>4. to_sample(at, cache.projects.projects, stats) \in Samples
      BY <2>1, <2>3, NoSampleType DEF to_sample, Samples, Entries
    <2>5. loop' \in Loops
      BY <2>2, <2>4 DEF TypeOK, Loops
    <2> QED
      BY <1>2, <2>5 DEF FastSnapshot, store, TypeOK
  <1>6. CASE ListContainers
    <2>1. PICK listed \in BOOLEAN :
             loop' = [loop EXCEPT !.pc = "docker",
                        !.sample = [NoSample EXCEPT !.at = now,
                           !.entry = IF listed /\ host.container # "absent" THEN cache.entry ELSE Unlisted]]
      BY <1>6 DEF ListContainers
    <2> DEFINE e == IF listed /\ host.container # "absent" THEN cache.entry ELSE Unlisted
    <2>2. e \in [stats : Stats \cup {"unlisted"}, at : Instants] /\ now \in Instants
      BY DEF TypeOK, Caches, Entries, Unlisted, Instants
    <2> HIDE DEF e
    <2>3. [NoSample EXCEPT !.at = now, !.entry = e] \in Samples
      BY <2>2, NoSampleType DEF Samples
    <2>4. loop' = [loop EXCEPT !.pc = "docker", !.sample = [NoSample EXCEPT !.at = now, !.entry = e]]
      BY <2>1 DEF e
    <2>5. loop' \in Loops
      BY <2>3, <2>4 DEF TypeOK, Loops
    <2> QED
      BY <1>6, <2>5 DEF ListContainers, store, TypeOK
  <1>3. CASE SaveSample
    <2>1. loop.sample \in Samples /\ loop.sample.at \in Nat
      BY <1>3 DEF SaveSample, TypeOK, Loops, SavesDateRows
    <2> DEFINE kids == IF loop.sample.projects = {} THEN {"host"} ELSE Tables
               row == [at |-> loop.sample.at, cited |-> FALSE, kids |-> kids,
                       projects |-> loop.sample.projects]
    <2>a. kids \in SUBSET Tables /\ loop.sample.projects \in SUBSET Projects
      BY <2>1 DEF Tables, Samples
    <2> HIDE DEF kids
    <2>b. row \in Runs
      BY <2>1, <2>a DEF Runs
    <2>2. runs' \subseteq Runs
      BY <1>3, <2>b DEF SaveSample, TypeOK, kids
    <2>3. past' \in Histories
      BY <1>3, <2>1 DEF SaveSample, TypeOK, Histories, Instants
    <2> QED
      BY <1>3, <2>2, <2>3, TurnedType DEF SaveSample, TypeOK
  <1>4. CASE SaveFails
    BY <1>4, TurnedType DEF SaveFails, TypeOK, store
  <1>5. CASE Exit
    <2>a. loop.stops + 1 \in Nat /\ [s \in Tasks |-> 0] \in [Tasks -> Nat]
      BY DEF TypeOK, Loops
    <2>1. loop' \in Loops
      BY <1>5, <2>a, NoSampleType DEF Exit, TypeOK, Loops
    <2>2. cache' \in Caches /\ past' \in Histories
      BY <1>5, NoSampleType DEF Exit, TypeOK, Histories
    <2>3. /\ slot' \in [Tasks -> Slots] /\ timers' \in [Tasks -> SUBSET Nat]
          /\ slot'["project"].found = {} /\ slot'["resource"].found = {}
      BY <1>5, SlotTypes DEF Exit, Tasks
    <2> QED
      BY <1>5, <2>1, <2>2, <2>3 DEF Exit, store, TypeOK
  <1> QED
    BY <1>1, <1>2, <1>3, <1>4, <1>5, <1>6

\* Starting the tasks that are due, and the timers that fire.
LEMMA SlotTypesKept ==
    ASSUME TypeOK, StartTasks \/ \E s \in Tasks : MarkTimeout(s)
    PROVE  TypeOK'
  <1>1. \A s \in Tasks : slot[s] \in Slots
    BY DEF TypeOK
  <1>2. CASE StartTasks
    <2> DEFINE due == {s \in loop.tasks : now >= loop.next[s]}
    <2>1. \A s \in Tasks : now + Limit[s] \in Nat /\ now + Every[s] \in Nat
      BY TelemetryAssumption DEF TypeOK
    <2>2. \A s \in Tasks :
             Started(s) \in Slots /\ (Started(s).found = slot[s].found \/ Started(s).found = {})
      <3>1. now \in Instants /\ "work" \in Phases
        BY DEF TypeOK, Instants, Phases
      <3>2. ASSUME NEW x \in Slots
            PROVE  /\ [x EXCEPT !.running = TRUE, !.started = now, !.phase = "work"] \in Slots
                   /\ [x EXCEPT !.running = TRUE, !.started = now, !.phase = "work"].found = x.found
        BY <3>1 DEF Slots
      <3> QED
        BY <1>1, <3>2, SlotTypes DEF Started
    <2>3. slot' \in [Tasks -> Slots]
      BY <1>1, <1>2, <2>2 DEF StartTasks
    <2>4. \A s \in Tasks : slot'[s].found = slot[s].found \/ slot'[s].found = {}
      BY <1>2, <2>2 DEF StartTasks
    <2>5. timers' \in [Tasks -> SUBSET Nat]
      BY <1>2, <2>1 DEF StartTasks, TypeOK
    <2>6. loop' \in Loops
      BY <1>2, <2>1 DEF StartTasks, TypeOK, Loops, NextStart
    <2>7. past' \in Histories
      BY <1>2 DEF StartTasks, TypeOK, Histories, Instants
    <2> QED
      BY <1>2, <2>3, <2>4, <2>5, <2>6, <2>7 DEF StartTasks, TypeOK, store, Tasks
  <1>3. ASSUME NEW s \in Tasks, MarkTimeout(s)
        PROVE  TypeOK'
    <2>1. slot' \in [Tasks -> Slots] /\ \A r \in Tasks : slot'[r].found = slot[r].found
      <3>1. CASE ~slot[s].running
        BY <1>1, <1>3, <3>1 DEF MarkTimeout, TypeOK
      <3>2. CASE slot[s].running
        <4> DEFINE x == [slot[s] EXCEPT !.timedOut = TRUE, !.cancel = TRUE]
        <4>1. x \in Slots /\ x.found = slot[s].found
          BY <1>1 DEF Slots
        <4>2. slot' = [slot EXCEPT ![s] = x]
          BY <1>1, <1>3, <3>2 DEF MarkTimeout, TypeOK, Slots
        <4> HIDE DEF x
        <4> QED
          BY <1>1, <4>1, <4>2 DEF TypeOK
      <3> QED
        BY <3>1, <3>2
    <2>2. timers' \in [Tasks -> SUBSET Nat]
      BY <1>3 DEF MarkTimeout, TypeOK
    <2> QED
      BY <1>3, <2>1, <2>2 DEF MarkTimeout, TypeOK, store, Tasks
  <1> QED
    BY <1>2, <1>3

\* The slow tasks keep the types.
LEMMA TaskTypes ==
    ASSUME TypeOK,
           \/ DiscoveryFails \/ Discover \/ PublishInventory
           \/ RefreshEntry \/ RefreshDates \/ RefreshFails \/ SaveResources
    PROVE  TypeOK'
  <1>1. \A s \in Tasks : slot[s] \in Slots /\ slot[s].started \in Instants
    BY DEF TypeOK, Slots
  <1>2. {"project", "resource"} \subseteq Tasks /\ {"publish", "date", "save"} \subseteq Phases
    BY DEF Tasks, Phases
  <1>3. CASE DiscoveryFails
    <2>1. cache' \in Caches
      BY <1>3 DEF DiscoveryFails, TypeOK, Caches, Undiscovered, Inventories
    <2> QED
      BY <1>2, <1>3, <2>1, SlotSteps DEF DiscoveryFails, TypeOK, store
  <1>4. CASE Discover
    <2> DEFINE x == [slot["project"] EXCEPT !.phase = "publish", !.found = host.projects]
    <2>1. x \in Slots /\ x.found \subseteq Projects
      BY <1>1, <1>2 DEF TypeOK, Slots
    <2>2. slot' = [slot EXCEPT !["project"] = x]
      BY <1>1, <1>2, <1>4 DEF Discover, TypeOK, Slots
    <2> HIDE DEF x
    <2>3. slot' \in [Tasks -> Slots] /\ slot'["project"] = x /\ slot'["resource"] = slot["resource"]
      BY <1>2, <2>1, <2>2 DEF TypeOK
    <2> QED
      BY <1>4, <2>1, <2>3 DEF Discover, TypeOK, store
  <1>5. CASE PublishInventory
    <2>1. cache' \in Caches
      BY <1>5 DEF PublishInventory, TypeOK, Caches, Inventories
    <2>2. past' \in Histories
      BY <1>1, <1>2, <1>5 DEF PublishInventory, TypeOK, Histories
    <2> QED
      BY <1>2, <1>5, <2>1, <2>2, SlotSteps DEF PublishInventory, TypeOK, store
  <1>6. CASE RefreshEntry
    <2>1. past' \in Histories
      BY <1>1, <1>2, <1>6 DEF RefreshEntry, TypeOK, Histories
    <2>2. CASE slot' = [slot EXCEPT !["resource"].phase = "date"] /\ UNCHANGED cache
      <3>1. /\ slot' \in [Tasks -> Slots]
            /\ slot'["project"].found \subseteq Projects /\ slot'["resource"].found \subseteq Stats
        BY <1>2, <2>2, SlotSteps DEF TypeOK
      <3>2. UNCHANGED <<now, host, loop, timers, runs, resources, dash, cache>>
        BY <1>6, <2>2 DEF RefreshEntry, store
      <3> QED
        BY <2>1, <3>1, <3>2 DEF TypeOK
    <2>3. ASSUME NEW returned \in BOOLEAN,
                 slot' = [slot EXCEPT !["resource"].phase = "date",
                                      !["resource"].found = {EntryOf(returned).stats}],
                 cache' = [cache EXCEPT !.entry = EntryOf(returned)]
          PROVE  TypeOK'
      <3> DEFINE found == {EntryOf(returned).stats}
                 x == [slot["resource"] EXCEPT !.phase = "date", !.found = found]
      <3>1. EntryOf(returned) \in Entries
        BY <1>1, <1>2 DEF EntryOf, Entries, Stats, Instants
      <3>2. found \subseteq Stats /\ cache' \in Caches
        BY <2>3, <3>1 DEF Entries, TypeOK, Caches
      <3>3. slot' = [slot EXCEPT !["resource"] = x]
        BY <1>1, <1>2, <2>3 DEF TypeOK, Slots
      <3> HIDE DEF found
      <3>4. x \in Slots /\ x.found \subseteq Stats
        BY <1>1, <1>2, <3>2 DEF TypeOK, Slots
      <3> HIDE DEF x
      <3>5. slot' \in [Tasks -> Slots] /\ slot'["resource"] = x /\ slot'["project"] = slot["project"]
        BY <1>2, <3>3, <3>4 DEF TypeOK
      <3> QED
        BY <1>6, <2>1, <3>2, <3>4, <3>5 DEF RefreshEntry, TypeOK, store
    <2> QED
      BY <1>6, <2>2, <2>3 DEF RefreshEntry
  <1>9. CASE RefreshDates
    <2>1. cache' \in Caches
      BY <1>1, <1>2, <1>9 DEF RefreshDates, TypeOK, Caches
    <2> QED
      BY <1>2, <1>9, <2>1, SlotSteps DEF RefreshDates, TypeOK, store
  <1>7. CASE RefreshFails
    BY <1>2, <1>7, SlotSteps DEF RefreshFails, TypeOK, store
  <1>8. CASE SaveResources
    <2>1. resources' \in Entries
      <3>1. CASE resources' = resources
        BY <3>1 DEF TypeOK
      <3>2. CASE /\ slot["resource"].found # {}
                 /\ resources' = [at |-> slot["resource"].started,
                                   stats |-> CHOOSE x \in slot["resource"].found : TRUE]
        BY <1>1, <1>2, <3>2 DEF TypeOK, Entries
      <3> QED
        BY <1>8, <3>1, <3>2 DEF SaveResources
    <2> QED
      BY <1>2, <1>8, <2>1, SlotSteps DEF SaveResources, TypeOK, store
  <1> QED
    BY <1>3, <1>4, <1>5, <1>6, <1>7, <1>8, <1>9

\* Retention keeps the types.
LEMMA RetentionTypes ==
    ASSUME TypeOK,
           \/ BeginPass \/ (\E t \in Tables : DeleteChildren(t)) \/ DeleteResources
           \/ DeleteResourceRuns \/ DeleteRuns \/ Locked \/ PassEnds
    PROVE  TypeOK'
  <1>1. "retention" \in Tasks /\ slot["retention"] \in Slots
    BY DEF Tasks, TypeOK
  <1>2. \A phase \in Phases : After(phase) \in Phases
    BY DEF After, Phases
  <1>3. Tables \cup {"resources", "parents", "runs", "done"} \subseteq Phases
    BY DEF Tables, Phases
  <1>4. CASE BeginPass
    <2> DEFINE x == [slot["retention"] EXCEPT !.phase = "host", !.cutoff = now - Keep]
    <2>1. now - Keep \in Int /\ "host" \in Phases
      BY TelemetryAssumption DEF TypeOK, Phases
    <2>2. x \in Slots
      BY <1>1, <2>1 DEF Slots
    <2>3. slot' = [slot EXCEPT !["retention"] = x]
      BY <1>1, <1>4 DEF BeginPass, TypeOK, Slots
    <2> HIDE DEF x
    <2>4. /\ slot' \in [Tasks -> Slots]
          /\ slot'["project"] = slot["project"] /\ slot'["resource"] = slot["resource"]
      BY <2>2, <2>3 DEF TypeOK, Tasks
    <2> QED
      BY <1>4, <2>4 DEF BeginPass, TypeOK, store
  <1>5. ASSUME NEW t \in Tables, DeleteChildren(t)
        PROVE  TypeOK'
    <2>1. CASE slot' = [slot EXCEPT !["retention"].phase = After(t)] /\ UNCHANGED runs
      BY <1>1, <1>2, <1>3, <1>5, <2>1, SlotSteps DEF DeleteChildren, TypeOK, Tasks
    <2>2. ASSUME NEW B \in SUBSET runs, UNCHANGED slot,
                 runs' = (runs \ B) \cup {OrphanedChild(r, t) : r \in B}
          PROVE  TypeOK'
      <3>1. \A r \in Runs : OrphanedChild(r, t) \in Runs
        BY DEF OrphanedChild, Runs
      <3> QED
        BY <1>5, <2>2, <3>1 DEF DeleteChildren, TypeOK
    <2> QED
      BY <1>5, <2>1, <2>2 DEF DeleteChildren, Batches
  <1>6. CASE DeleteResources
    <2>1. resources' \in Entries
      BY <1>6, NoSampleType DEF DeleteResources, TypeOK
    <2> QED
      BY <1>1, <1>3, <1>6, <2>1, SlotSteps DEF DeleteResources, TypeOK, Tasks
  <1>7. CASE DeleteRuns
    <2>1. CASE slot' = [slot EXCEPT !["retention"].phase = "done"] /\ UNCHANGED runs
      BY <1>1, <1>3, <1>7, <2>1, SlotSteps DEF DeleteRuns, TypeOK, Tasks
    <2>2. CASE UNCHANGED slot /\ runs' \subseteq runs
      BY <1>7, <2>2 DEF DeleteRuns, TypeOK
    <2> QED
      BY <1>7, <2>1, <2>2 DEF DeleteRuns
  <1>8. CASE Locked
    <2> DEFINE phase == IF pass.phase = "parents" THEN "done" ELSE After(pass.phase)
    <2>1. phase \in Phases
      BY <1>1, <1>2, <1>3 DEF pass, Slots
    <2>2. slot' = [slot EXCEPT !["retention"].phase = phase]
      BY <1>1, <1>8 DEF Locked, pass, TypeOK, Slots
    <2> HIDE DEF phase
    <2> QED
      BY <1>1, <1>8, <2>1, <2>2, SlotSteps DEF Locked, TypeOK, store, Tasks
  <1>9. CASE PassEnds
    BY <1>1, <1>9, SlotSteps DEF PassEnds, TypeOK, store
  <1>10. CASE DeleteResourceRuns
    BY <1>1, <1>3, <1>10, SlotSteps DEF DeleteResourceRuns, TypeOK, store, Tasks
  <1> QED
    BY <1>4, <1>5, <1>6, <1>7, <1>8, <1>9, <1>10

\* What the dashboard shows after an overview comes from its cache, from an
\* empty one, or from the store.
LEMMA OverviewEffect ==
    ASSUME TypeOK, SavesDateRows, Overview
    PROVE  /\ dash' \in [inventory : Inventories, at : Instants, refreshed : Instants]
           /\ dash'.at <= past.saved
  <1>1. PICK readable \in BOOLEAN, restarted \in BOOLEAN :
           LET inventory == IF restarted THEN NoProjects ELSE dash.inventory
               at == IF restarted THEN Never ELSE dash.at
               due == restarted \/ dash.refreshed = Never \/ now - dash.refreshed >= Every["project"]
               h == IF due /\ readable THEN hydrate_projects(inventory, at)
                    ELSE [inventory |-> inventory, at |-> at]
           IN  dash' = [inventory |-> h.inventory, at |-> h.at,
                        refreshed |-> IF due THEN now ELSE dash.refreshed]
    BY DEF Overview
  <1> DEFINE inventory == IF restarted THEN NoProjects ELSE dash.inventory
             at == IF restarted THEN Never ELSE dash.at
             due == restarted \/ dash.refreshed = Never \/ now - dash.refreshed >= Every["project"]
             h == IF due /\ readable THEN hydrate_projects(inventory, at)
                  ELSE [inventory |-> inventory, at |-> at]
  <1>2. inventory \in Inventories /\ at \in Instants /\ at <= past.saved
    BY DEF TypeOK, NoProjects, Inventories, Instants, Never, SavesDateRows, Histories
  <1>3. dash' = [inventory |-> h.inventory, at |-> h.at,
                 refreshed |-> IF due THEN now ELSE dash.refreshed]
    BY <1>1
  <1>4. (IF due THEN now ELSE dash.refreshed) \in Instants
    BY DEF TypeOK, Instants
  <1> HIDE DEF inventory, at, due
  <1>5. h.inventory \in Inventories /\ h.at \in Instants /\ h.at <= past.saved
    BY <1>2, HydratedInventory
  <1> HIDE DEF h
  <1> QED
    BY <1>3, <1>4, <1>5

\* The dashboard and the world keep the types.
LEMMA WorldTypes ==
    ASSUME TypeOK, SavesDateRows, Overview \/ HostChanges \/ EventCites \/ Tick
    PROVE  TypeOK'
  <1>1. CASE Overview
    BY <1>1, OverviewEffect DEF Overview, TypeOK, store
  <1>2. CASE HostChanges
    <2>1. host.changes + 1 \in Nat
      BY DEF TypeOK
    <2>2. host' \in [projects : SUBSET Projects, container : {"absent", "stopped", "running"},
                     changes : Nat]
      BY <1>2, <2>1 DEF HostChanges, TypeOK
    <2> QED
      BY <1>2, <2>2 DEF HostChanges, TypeOK, store
  <1>3. CASE EventCites
    <2>1. \A r \in Runs : [r EXCEPT !.cited = TRUE] \in Runs
      BY DEF Runs
    <2> QED
      BY <1>3, <2>1 DEF EventCites, TypeOK
  <1>4. CASE Tick
    BY <1>4 DEF Tick, TypeOK, store
  <1> QED
    BY <1>1, <1>2, <1>3, <1>4

-----------------------------------------------------------------------------
(* Slots and timers.                                                         *)

\* The steps that neither start a task nor end the process leave every slot
\* with its task, moved on or ended, and the timers alone.
Progress ==
    /\ UNCHANGED <<now, timers>>
    /\ loop'.next = loop.next /\ (loop'.pc = "down" <=> loop.pc = "down")
    /\ past'.last = past.last /\ past'.before = past.before
    /\ \A s \in Tasks :
          \/ slot'[s] = slot[s] \/ slot'[s] = IdleSlot
          \/ /\ slot[s].phase # "idle" /\ slot'[s].phase # "idle"
             /\ slot'[s].running = slot[s].running /\ slot'[s].started = slot[s].started
             /\ slot'[s].timedOut = slot[s].timedOut

\* A task that moves to another phase.
LEMMA PhaseProgress ==
    ASSUME TypeOK, NEW s \in Tasks, NEW phase \in Phases \ {"idle"}, slot[s].phase # "idle",
           slot' = [slot EXCEPT ![s].phase = phase], UNCHANGED <<now, timers, loop>>,
           past'.last = past.last, past'.before = past.before
    PROVE  Progress
  BY DEF TypeOK, Slots, Progress

\* A task that ends.
LEMMA EndProgress ==
    ASSUME TypeOK, NEW s \in Tasks, slot' = Ended(s), UNCHANGED <<now, timers, loop>>,
           past'.last = past.last, past'.before = past.before
    PROVE  Progress
  BY DEF TypeOK, Ended, Progress

\* The fast part of a turn, the slow tasks, the dashboard and the host.
LEMMA ProgressSteps ==
    ASSUME TypeOK,
           \/ ListContainers \/ FastSnapshot \/ SaveSample \/ SaveFails
           \/ DiscoveryFails \/ Discover \/ PublishInventory
           \/ RefreshEntry \/ RefreshDates \/ RefreshFails \/ SaveResources
           \/ BeginPass \/ (\E t \in Tables : DeleteChildren(t)) \/ DeleteResources
           \/ DeleteResourceRuns \/ DeleteRuns \/ Locked \/ PassEnds \/ Overview \/ HostChanges \/ EventCites
    PROVE  Progress
  <1>1. \A s \in Tasks : slot[s] \in Slots
    BY DEF TypeOK
  <1>2. {"project", "resource", "retention"} \subseteq Tasks
    BY DEF Tasks
  <1>3. Tables \cup {"publish", "date", "save", "resources", "parents", "runs", "done"}
           \subseteq Phases \ {"idle"}
    BY DEF Tables, Phases
  <1>4. \A phase : After(phase) \in Phases \ {"idle"}
    BY DEF After, Phases
  <1>5. CASE SaveSample \/ SaveFails
    <2>1. past'.last = past.last /\ past'.before = past.before
      BY <1>5 DEF SaveSample, SaveFails, TypeOK, Histories
    <2> QED
      BY <1>5, <2>1, TurnedType DEF SaveSample, SaveFails, Progress
  <1>6. CASE ListContainers \/ FastSnapshot
    BY <1>6 DEF ListContainers, FastSnapshot, Progress, TypeOK, Loops
  <1>7. CASE DiscoveryFails \/ PublishInventory \/ RefreshFails \/ SaveResources \/ PassEnds
    <2>1. past'.last = past.last /\ past'.before = past.before
      BY <1>7 DEF DiscoveryFails, PublishInventory, RefreshFails, SaveResources, PassEnds, TypeOK, Histories
    <2> QED
      BY <1>2, <1>7, <2>1, EndProgress
         DEF DiscoveryFails, PublishInventory, RefreshFails, SaveResources, PassEnds
  <1>8. CASE Discover
    BY <1>1, <1>2, <1>8 DEF Discover, Progress, TypeOK, Slots
  <1>9. CASE RefreshEntry
    <2>1. /\ slot["resource"].phase = "work" /\ UNCHANGED <<now, timers, loop>>
          /\ past'.last = past.last /\ past'.before = past.before
      BY <1>9 DEF RefreshEntry, TypeOK, Histories
    <2>2. CASE slot' = [slot EXCEPT !["resource"].phase = "date"]
      BY <1>2, <1>3, <2>1, <2>2, PhaseProgress
    <2>3. ASSUME NEW found, slot' = [slot EXCEPT !["resource"].phase = "date", !["resource"].found = found]
          PROVE  Progress
      BY <1>1, <1>2, <2>1, <2>3 DEF Progress, TypeOK, Slots
    <2> QED
      BY <1>9, <2>2, <2>3 DEF RefreshEntry
  <1>16. CASE RefreshDates
    BY <1>2, <1>3, <1>16, PhaseProgress DEF RefreshDates
  <1>17. CASE DeleteResourceRuns
    BY <1>2, <1>3, <1>17, PhaseProgress DEF DeleteResourceRuns, pass
  <1>10. CASE BeginPass
    BY <1>1, <1>2, <1>10 DEF BeginPass, pass, Progress, TypeOK, Slots
  <1>11. ASSUME NEW t \in Tables, DeleteChildren(t)
         PROVE  Progress
    <2>1. CASE slot' = [slot EXCEPT !["retention"].phase = After(t)]
      BY <1>2, <1>3, <1>4, <1>11, <2>1, PhaseProgress DEF DeleteChildren, pass
    <2>2. CASE UNCHANGED slot
      BY <1>11, <2>2 DEF DeleteChildren, Progress
    <2> QED
      BY <1>11, <2>1, <2>2 DEF DeleteChildren
  <1>12. CASE DeleteResources
    BY <1>2, <1>3, <1>12, PhaseProgress DEF DeleteResources, pass
  <1>13. CASE DeleteRuns
    <2>1. CASE slot' = [slot EXCEPT !["retention"].phase = "done"]
      BY <1>2, <1>3, <1>13, <2>1, PhaseProgress DEF DeleteRuns, pass
    <2>2. CASE UNCHANGED slot
      BY <1>13, <2>2 DEF DeleteRuns, Progress
    <2> QED
      BY <1>13, <2>1, <2>2 DEF DeleteRuns
  <1>14. CASE Locked
    <2> DEFINE phase == IF pass.phase = "parents" THEN "done" ELSE After(pass.phase)
    <2>1. phase \in Phases \ {"idle"}
      BY <1>3, <1>4
    <2>2. slot' = [slot EXCEPT !["retention"].phase = phase]
      BY <1>1, <1>2, <1>14 DEF Locked, pass, TypeOK, Slots
    <2> HIDE DEF phase
    <2>3. slot["retention"].phase # "idle"
      BY <1>3, <1>14 DEF Locked, pass
    <2> QED
      BY <1>2, <1>14, <2>1, <2>2, <2>3, PhaseProgress DEF Locked
  <1>15. CASE Overview \/ HostChanges \/ EventCites
    BY <1>15 DEF Overview, HostChanges, EventCites, Progress
  <1> QED
    BY <1>5, <1>6, <1>7, <1>8, <1>9, <1>10, <1>11, <1>12, <1>13, <1>14, <1>15, <1>16, <1>17

\* Such a step keeps the slots and the timers sound.
LEMMA ProgressKeeps ==
    ASSUME TypeOK, SlotsSound, TimersSound, DownIsQuiet, Progress
    PROVE  SlotsSound' /\ TimersSound' /\ DownIsQuiet'
  <1>1. SlotsSound'
    BY SlotTypes DEF SlotsSound, Progress
  <1>2. TimersSound'
    BY SlotTypes DEF TimersSound, Progress
  <1>3. DownIsQuiet'
    BY SlotTypes DEF DownIsQuiet, Progress
  <1> QED
    BY <1>1, <1>2, <1>3

\* The other steps.  What a slot's timers are due at is known from its last two
\* starts, because the next one comes an interval after the last.
LEMMA SlotsStep ==
    ASSUME IInv, Start \/ StartTasks \/ Exit \/ Tick \/ \E s \in Tasks : MarkTimeout(s)
    PROVE  SlotsSound' /\ TimersSound' /\ DownIsQuiet'
  <1> USE DEF IInv
  <1>1. Every \in [Tasks -> Nat] /\ Limit \in [Tasks -> Nat]
    BY TelemetryAssumption
  <1>2. now \in Nat /\ loop.next \in [Tasks -> Nat] /\ past \in Histories
    BY DEF TypeOK, Loops
  <1>3. /\ \A s \in Tasks : timers[s] \subseteq Nat /\ slot[s] \in Slots
        /\ \A s \in Tasks : past.last[s] \in Int /\ past.before[s] \in Int
    BY DEF TypeOK, Histories, Instants, Never
  <1>4. CASE Start
    <2>1. loop'.pc = "slow" /\ UNCHANGED <<now, slot, timers, past>>
      BY <1>4 DEF Start, TypeOK, Loops
    <2> QED
      BY <1>4, <2>1 DEF Start, SlotsSound, TimersSound, DownIsQuiet
  <1>5. CASE StartTasks
    <2> DEFINE due == {s \in loop.tasks : now >= loop.next[s]}
    <2>1. due \subseteq Tasks
      BY DEF TypeOK, Loops
    <2>2. /\ UNCHANGED now /\ loop'.pc # "down"
          /\ \A s \in Tasks \ due : slot'[s] = slot[s] /\ timers'[s] = timers[s]
                                    /\ loop'.next[s] = loop.next[s]
          /\ \A s \in due : slot'[s] = Started(s) /\ loop'.next[s] = now + Every[s]
                          /\ timers'[s] = IF slot[s].running THEN timers[s] ELSE timers[s] \cup {now + Limit[s]}
      BY <1>5, <2>1 DEF StartTasks, TypeOK, Loops, NextStart
    <2>3. /\ \A s \in Tasks : s \notin due \/ slot[s].running =>
                past'.last[s] = past.last[s] /\ past'.before[s] = past.before[s]
          /\ \A s \in due : ~slot[s].running => past'.last[s] = now /\ past'.before[s] = past.last[s]
      BY <1>2, <1>5, <2>1 DEF StartTasks, Histories
    <2>4. \A s \in Tasks : ~slot[s].running =>
             /\ Started(s).running = TRUE /\ Started(s).started = now
             /\ Started(s).timedOut = FALSE
             /\ Started(s).phase = "work"
      BY DEF Started, IdleSlot
    <2>5. \A s \in Tasks : slot[s].running => Started(s) = slot[s]
      BY DEF Started
    <2>6. \A s \in due : now >= loop.next[s]
      OBVIOUS
    <2> HIDE DEF due
    <2>7. ASSUME NEW s \in Tasks
          PROVE  /\ slot'[s].running <=> slot'[s].phase # "idle"
                 /\ slot'[s].running => slot'[s].started \in 0 .. now /\ slot'[s].started = past'.last[s]
                 /\ past'.last[s] # Never => past'.last[s] \in 0 .. now /\ past'.last[s] + Every[s] <= loop'.next[s]
                 /\ past'.before[s] # Never => past'.last[s] # Never /\ past'.before[s] + Every[s] <= past'.last[s]
                 /\ slot'[s].running /\ slot'[s].timedOut =>
                       \/ now - slot'[s].started >= Limit[s]
                       \/ past'.before[s] # Never /\ slot'[s].started - past'.before[s] <= Limit[s]
                 /\ \A t \in timers'[s] :
                       /\ now <= t /\ past'.last[s] # Never
                       /\ t = past'.last[s] + Limit[s] \/ (past'.before[s] # Never /\ t <= past'.before[s] + Limit[s])
      <3>1. CASE s \notin due
        <4>1. /\ slot'[s] = slot[s] /\ timers'[s] = timers[s] /\ loop'.next[s] = loop.next[s]
              /\ past'.last[s] = past.last[s] /\ past'.before[s] = past.before[s]
          BY <2>2, <2>3, <3>1
        <4> QED
          BY <4>1 DEF SlotsSound, TimersSound
      <3>2. CASE s \in due /\ slot[s].running
        <4>1. /\ slot'[s] = slot[s] /\ timers'[s] = timers[s] /\ loop'.next[s] = now + Every[s]
              /\ past'.last[s] = past.last[s] /\ past'.before[s] = past.before[s]
          BY <2>2, <2>3, <2>5, <3>2
        <4>2. past.last[s] # Never => past.last[s] + Every[s] <= now + Every[s]
          <5>1. past.last[s] # Never => past.last[s] \in 0 .. now
            BY DEF SlotsSound
          <5>2. Every[s] \in Nat
            BY <1>1
          <5> QED
            BY <1>2, <5>1, <5>2
        <4> QED
          BY <4>1, <4>2 DEF SlotsSound, TimersSound
      <3>3. CASE s \in due /\ ~slot[s].running
        <4>1. /\ slot'[s].running = TRUE /\ slot'[s].phase = "work" /\ slot'[s].started = now
              /\ slot'[s].timedOut = FALSE
          BY <2>2, <2>4, <3>3
        <4>2. /\ timers'[s] = timers[s] \cup {now + Limit[s]} /\ loop'.next[s] = now + Every[s]
              /\ past'.last[s] = now /\ past'.before[s] = past.last[s] /\ loop.next[s] <= now
          BY <1>2, <2>2, <2>3, <2>6, <3>3
        <4>3. /\ Limit[s] \in Nat /\ Every[s] \in Nat /\ now \in Nat /\ loop.next[s] \in Nat
              /\ past.last[s] \in Int /\ past.before[s] \in Int /\ now # Never
          BY <1>1, <1>2, <1>3 DEF Never
        <4>4. past.last[s] # Never => past.last[s] + Every[s] <= now
          <5>1. past.last[s] # Never => past.last[s] + Every[s] <= loop.next[s]
            BY DEF SlotsSound
          <5> QED
            BY <4>2, <4>3, <5>1
        <4>5. ASSUME NEW t \in timers'[s]
              PROVE  now <= t /\ (t = now + Limit[s] \/ (past.last[s] # Never /\ t <= past.last[s] + Limit[s]))
          <5>1. CASE t \in timers[s]
            <6>1. /\ now <= t /\ past.last[s] # Never
                  /\ t = past.last[s] + Limit[s] \/ (past.before[s] # Never /\ t <= past.before[s] + Limit[s])
              BY <5>1 DEF TimersSound
            <6>2. past.before[s] # Never => past.before[s] + Every[s] <= past.last[s]
              BY DEF SlotsSound
            <6>3. t \in Nat
              BY <1>3, <5>1
            <6> QED
              BY <4>3, <6>1, <6>2, <6>3
          <5>2. CASE t = now + Limit[s]
            BY <4>3, <5>2
          <5> QED
            BY <4>2, <4>5, <5>1, <5>2
        <4>6. now \in 0 .. now
          BY <4>3
        <4> QED
          BY <4>1, <4>2, <4>3, <4>4, <4>5, <4>6
      <3> QED
        BY <3>1, <3>2, <3>3
    <2>8. SlotsSound'
      BY <2>2, <2>7 DEF SlotsSound
    <2>9. TimersSound'
      BY <2>2, <2>7 DEF TimersSound
    <2> QED
      BY <2>2, <2>8, <2>9 DEF DownIsQuiet
  <1>6. CASE Exit
    <2>1. \A s \in Tasks : past'.last[s] = Never /\ past'.before[s] = Never
      BY <1>2, <1>6 DEF Exit, Histories, NoStarts
    <2>2. \A s \in Tasks : timers'[s] = {} /\ ~slot'[s].running /\ slot'[s].phase = "idle"
      BY <1>6, SlotTypes DEF Exit
    <2> QED
      BY <2>1, <2>2 DEF SlotsSound, TimersSound, DownIsQuiet
  <1>7. CASE Tick
    <2>1. UNCHANGED <<loop, slot, timers, past>> /\ now' = now + 1
      BY <1>7 DEF Tick
    <2>2. SlotsSound'
      <3>1. slot' = slot /\ past' = past /\ loop' = loop /\ now' = now + 1
        BY <2>1
      <3> SUFFICES ASSUME NEW s \in Tasks
                   PROVE  /\ (slot[s].running <=> slot[s].phase # "idle")
                          /\ slot[s].running => slot[s].started \in 0 .. now' /\ slot[s].started = past.last[s]
                          /\ past.last[s] # Never => past.last[s] \in 0 .. now' /\ past.last[s] + Every[s] <= loop.next[s]
                          /\ past.before[s] # Never => past.last[s] # Never /\ past.before[s] + Every[s] <= past.last[s]
                          /\ slot[s].running /\ slot[s].timedOut =>
                                \/ now' - slot[s].started >= Limit[s]
                                \/ past.before[s] # Never /\ slot[s].started - past.before[s] <= Limit[s]
        BY <3>1, Zenon DEF SlotsSound, Never
      <3>2. Limit[s] \in Nat /\ \A x \in 0 .. now : x \in 0 .. now' /\ (now - x >= Limit[s] => now' - x >= Limit[s])
        BY <1>1, <1>2, <3>1
      <3> QED
        BY <3>2 DEF SlotsSound
    <2>3. TimersSound'
      BY <1>1, <1>2, <1>3, <1>7, <2>1 DEF TimersSound, Tick
    <2> QED
      BY <2>1, <2>2, <2>3 DEF DownIsQuiet
  <1>8. ASSUME NEW s \in Tasks, MarkTimeout(s)
        PROVE  SlotsSound' /\ TimersSound' /\ DownIsQuiet'
    <2>1. PICK t \in timers[s] : t <= now /\ timers' = [timers EXCEPT ![s] = @ \ {t}]
      BY <1>8 DEF MarkTimeout
    <2>2. UNCHANGED <<now, loop, past>>
      BY <1>8 DEF MarkTimeout
    <2>3. \A r \in Tasks : timers'[r] \subseteq timers[r]
      BY <2>1 DEF TypeOK
    <2>4. /\ \A r \in Tasks : /\ slot'[r].running = slot[r].running
                             /\ slot'[r].started = slot[r].started
                             /\ slot'[r].phase = slot[r].phase
          /\ \A r \in Tasks \ {s} : slot'[r] = slot[r]
      BY <1>3, <1>8 DEF MarkTimeout, TypeOK, Slots
    <2>5. slot[s].running =>
            \/ now - slot[s].started >= Limit[s]
            \/ past.before[s] # Never /\ slot[s].started - past.before[s] <= Limit[s]
      <3>1. slot[s].running => slot[s].started \in 0 .. now /\ slot[s].started = past.last[s]
        BY DEF SlotsSound
      <3>2. /\ now <= t /\ past.last[s] # Never
            /\ t = past.last[s] + Limit[s] \/ (past.before[s] # Never /\ t <= past.before[s] + Limit[s])
        BY <2>1 DEF TimersSound
      <3>3. t \in Nat /\ Limit[s] \in Nat /\ past.last[s] \in Int /\ past.before[s] \in Int
        BY <1>1, <1>3, <2>1
      <3> QED
        BY <1>2, <2>1, <3>1, <3>2, <3>3
    <2>6. SlotsSound'
      BY <2>2, <2>4, <2>5 DEF SlotsSound
    <2>7. TimersSound'
      BY <2>2, <2>3 DEF TimersSound
    <2> QED
      BY <2>2, <2>3, <2>4, <2>6, <2>7 DEF DownIsQuiet
  <1> QED
    BY <1>4, <1>5, <1>6, <1>7, <1>8

-----------------------------------------------------------------------------
(* Dates of rows and caches.                                                 *)

\* Steps that write no row, save nothing and show nothing.
LEMMA SavesFrame ==
    ASSUME TypeOK, SavesDateRows, UNCHANGED <<runs, dash>>, past'.saved = past.saved,
           now' = now \/ now' = now + 1,
           loop'.pc \in {"docker", "save"} => loop.pc \in {"docker", "save"} /\ loop'.sample.at = loop.sample.at
    PROVE  SavesDateRows'
  <1>1. now \in Nat /\ past.saved \in Int
    BY DEF TypeOK, Histories, Instants, Never
  <1>2. past.saved <= now'
    BY <1>1 DEF SavesDateRows
  <1>3. loop'.pc \in {"docker", "save"} => loop'.sample.at \in 0 .. now' /\ past.saved <= loop'.sample.at
    BY <1>1 DEF SavesDateRows
  <1> QED
    BY <1>2, <1>3 DEF SavesDateRows

\* The dates of the project rows and of the dashboard's cache.
LEMMA SavesStep ==
    ASSUME IInv, Next
    PROVE  SavesDateRows'
  <1> USE DEF IInv
  <1>1. now \in Nat /\ past.saved \in Int /\ past \in Histories
    BY DEF TypeOK, Histories, Instants, Never
  <1>2. CASE Start \/ StartTasks
    <2>1. loop'.pc \notin {"docker", "save"} /\ past'.saved = past.saved
      BY <1>1, <1>2 DEF Start, StartTasks, TypeOK, Loops, Histories
    <2> QED
      BY <1>2, <2>1, SavesFrame DEF Start, StartTasks, store
  <1>3. CASE SaveFails \/ Exit
    <2>1. loop'.pc \notin {"docker", "save"} /\ past'.saved = past.saved
      BY <1>1, <1>3, TurnedType DEF SaveFails, Exit, TypeOK, Loops, Histories
    <2> QED
      BY <1>3, <2>1, SavesFrame DEF SaveFails, Exit, store
  <1>4. CASE ListContainers
    <2>1. PICK listed \in BOOLEAN :
             loop' = [loop EXCEPT !.pc = "docker",
                        !.sample = [NoSample EXCEPT !.at = now,
                           !.entry = IF listed /\ host.container # "absent" THEN cache.entry ELSE Unlisted]]
      BY <1>4 DEF ListContainers
    <2> DEFINE e == IF listed /\ host.container # "absent" THEN cache.entry ELSE Unlisted
               x == [NoSample EXCEPT !.at = now, !.entry = e]
    <2>2. x.at = now
      <3> HIDE DEF e
      <3> QED
        BY NoSampleType DEF Samples
    <2>3. loop' = [loop EXCEPT !.pc = "docker", !.sample = x]
      BY <2>1
    <2> HIDE DEF x
    <2>4. loop'.sample.at = now
      BY <2>2, <2>3 DEF TypeOK, Loops
    <2> QED
      BY <1>1, <1>4, <2>4 DEF ListContainers, store, SavesDateRows
  <1>16. CASE FastSnapshot
    <2>1. loop'.sample.at = loop.sample.at /\ loop.pc = "docker"
      BY <1>16 DEF FastSnapshot, to_sample, TypeOK, Loops
    <2> QED
      BY <1>16, <2>1, SavesFrame DEF FastSnapshot, store
  <1>5. CASE SaveSample
    <2>1. loop'.pc = "slow" /\ UNCHANGED <<now, dash>>
      BY <1>5, TurnedType DEF SaveSample
    <2>2. loop.sample.at \in 0 .. now /\ past.saved <= loop.sample.at
      BY <1>5 DEF SaveSample, SavesDateRows
    <2>3. CASE loop.sample.projects = {}
      <3>1. past' = past /\ \A r \in runs' : r \in runs \/ r.kids = {"host"}
        BY <1>5, <2>3 DEF SaveSample
      <3> QED
        BY <2>1, <3>1 DEF SavesDateRows
    <2>4. CASE loop.sample.projects # {}
      <3>1. past'.saved = loop.sample.at /\ \A r \in runs' : r \in runs \/ r.at = loop.sample.at
        BY <1>1, <1>5, <2>4 DEF SaveSample, Histories
      <3>2. \A r \in runs : r.at \in Nat
        BY DEF TypeOK, Runs
      <3>3. dash.at \in Int
        BY DEF TypeOK, Instants, Never
      <3>4. \A r \in runs' : "project" \in r.kids => r.at <= past'.saved
        BY <1>1, <2>2, <3>1, <3>2 DEF SavesDateRows
      <3> QED
        BY <1>1, <2>1, <2>2, <3>1, <3>3, <3>4 DEF SavesDateRows
    <2> QED
      BY <2>3, <2>4
  <1>6. ASSUME NEW s \in Tasks, MarkTimeout(s)
        PROVE  SavesDateRows'
    BY <1>6, SavesFrame DEF MarkTimeout, store
  <1>7. CASE DiscoveryFails \/ Discover \/ RefreshDates \/ RefreshFails \/ SaveResources
    BY <1>7, SavesFrame DEF DiscoveryFails, Discover, RefreshDates, RefreshFails, SaveResources, store
  <1>8. CASE PublishInventory \/ RefreshEntry
    <2>1. past'.saved = past.saved
      BY <1>1, <1>8 DEF PublishInventory, RefreshEntry, Histories
    <2> QED
      BY <1>8, <2>1, SavesFrame DEF PublishInventory, RefreshEntry, store
  <1>9. CASE BeginPass \/ DeleteResources \/ DeleteResourceRuns \/ Locked \/ PassEnds
    BY <1>9, SavesFrame DEF BeginPass, DeleteResources, DeleteResourceRuns, Locked, PassEnds, store
  <1>10. ASSUME NEW t \in Tables, DeleteChildren(t)
         PROVE  SavesDateRows'
    <2>1. UNCHANGED <<now, loop, dash, past>>
      BY <1>10 DEF DeleteChildren
    <2>2. ASSUME NEW r \in runs
          PROVE  OrphanedChild(r, t).at = r.at /\ OrphanedChild(r, t).kids \subseteq r.kids
      BY DEF OrphanedChild, TypeOK, Runs
    <2>3. \A q \in runs' : \E r \in runs : q.at = r.at /\ q.kids \subseteq r.kids
      BY <1>10, <2>2 DEF DeleteChildren, Batches
    <2> QED
      BY <2>1, <2>3 DEF SavesDateRows
  <1>11. CASE DeleteRuns
    BY <1>11 DEF DeleteRuns, Batches, SavesDateRows
  <1>12. CASE Overview
    BY <1>12, OverviewEffect DEF Overview, store, SavesDateRows
  <1>13. CASE HostChanges
    BY <1>13, SavesFrame DEF HostChanges, store
  <1>14. CASE EventCites
    <2>1. UNCHANGED <<now, loop, dash, past>>
      BY <1>14 DEF EventCites
    <2>2. ASSUME NEW r \in runs
          PROVE  [r EXCEPT !.cited = TRUE].at = r.at /\ [r EXCEPT !.cited = TRUE].kids = r.kids
      BY DEF TypeOK, Runs
    <2>3. \A q \in runs' : \E r \in runs : q.at = r.at /\ q.kids = r.kids
      BY <1>14, <2>2 DEF EventCites
    <2> QED
      BY <2>1, <2>3 DEF SavesDateRows
  <1>15. CASE Tick
    BY <1>15, SavesFrame DEF Tick, store
  <1> QED
    BY <1>2, <1>3, <1>4, <1>5, <1>6, <1>7, <1>8, <1>9, <1>10, <1>11, <1>12, <1>13, <1>14, <1>15,
       <1>16 DEF Next

\* A step that measures nothing, and what is left of the statistics.
LEMMA StatsFrame ==
    ASSUME IInv, past'.measured = past.measured, now' = now \/ now' = now + 1,
           cache'.resourceAt \in {cache.resourceAt, Never, resources.at},
           cache'.entry.at \in {cache.entry.at, Never, resources.at},
           loop'.sample.entry.at \in {loop.sample.entry.at, Never, cache.entry.at},
           resources'.at \in {resources.at, Never},
           \/ slot'["resource"].phase \notin {"work", "date", "save"}
           \/ slot'["resource"].phase = "work" /\ slot'["resource"].started = now
           \/ /\ slot'["resource"].phase = slot["resource"].phase
              /\ slot'["resource"].started = slot["resource"].started,
           loop'.sample.stats = "fresh" => loop'.sample = loop.sample
    PROVE  RefreshesDateStats' /\ ResourcesAreBacked'
  <1>1. /\ now \in Nat /\ past.measured \in Instants /\ cache.resourceAt \in Instants
        /\ resources.at \in Instants /\ cache.entry.at \in Instants /\ loop.sample.entry.at \in Instants
    BY DEF IInv, TypeOK, Histories, Caches, Entries, Loops, Samples
  <1>2. past.measured <= now'
    BY <1>1 DEF IInv, RefreshesDateStats, Instants, Never
  <1>3. /\ cache'.resourceAt <= past.measured /\ resources'.at <= past.measured
        /\ cache'.entry.at <= past.measured /\ loop'.sample.entry.at <= past.measured
    BY <1>1 DEF IInv, RefreshesDateStats, Instants, Never
  <1>4. /\ slot'["resource"].phase = "work" => past.measured <= slot'["resource"].started
        /\ slot'["resource"].phase \in {"date", "save"} => slot'["resource"].started <= past.measured
    BY <1>1 DEF IInv, RefreshesDateStats
  <1>5. ResourcesAreBacked'
    BY DEF IInv, ResourcesAreBacked
  <1> QED
    BY <1>2, <1>3, <1>4, <1>5 DEF RefreshesDateStats

\* The dates of the resource statistics.
LEMMA StatsStep ==
    ASSUME IInv, Next
    PROVE  RefreshesDateStats' /\ ResourcesAreBacked'
  <1> DEFINE Goal == RefreshesDateStats' /\ ResourcesAreBacked'
  <1>1. /\ now \in Nat /\ past \in Histories /\ past.measured \in Instants
        /\ cache.resourceAt \in Instants /\ resources.at \in Instants /\ cache \in Caches
        /\ cache.entry.at \in Instants /\ loop.sample.entry.at \in Instants
    BY DEF IInv, TypeOK, Histories, Caches, Entries, Loops, Samples
  <1>2. \A s \in Tasks : slot[s] \in Slots
    BY DEF IInv, TypeOK
  <1>3. "resource" \in Tasks
    BY DEF Tasks
  <1>4. loop \in Loops /\ loop.sample \in Samples
    BY DEF IInv, TypeOK, Loops
  <1>5. CASE Start
    <2>1. loop'.sample = loop.sample
      BY <1>4, <1>5 DEF Start, Loops
    <2>2. PICK read \in {"nothing", "resources", "all"} : cache' = Hydrated(read)
      BY <1>5 DEF Start
    <2>3. /\ EmptyCache.resourceAt = Never /\ EmptyCache.entry.at = Never
          /\ hydrate_resources(EmptyCache).resourceAt = resources.at
          /\ hydrate_resources(EmptyCache).entry.at = resources.at
          /\ hydrate_resources(EmptyCache) \in Caches
      <3>1. EmptyCache.resourceAt = Never /\ EmptyCache.entry.at = Never
        BY DEF EmptyCache, NoEntry
      <3>2. EmptyCache \in Caches /\ resources \in Entries
        BY NoSampleType DEF IInv, TypeOK
      <3>3. resources.at \in Instants
        BY <3>2 DEF Entries
      <3> QED
        BY <3>1, <3>2, <3>3 DEF hydrate_resources, Caches
    <2>4. cache'.resourceAt \in {Never, resources.at} /\ cache'.entry.at \in {Never, resources.at}
      BY <2>2, <2>3 DEF Hydrated, Caches
    <2> QED
      BY <1>5, <2>1, <2>4, StatsFrame DEF Start, store
  <1>6. CASE StartTasks
    <2>1. loop'.sample = loop.sample
      BY <1>4, <1>6 DEF StartTasks, Loops
    <2>2. slot'["resource"] \in {slot["resource"], Started("resource")}
      BY <1>3, <1>6 DEF StartTasks
    <2>3. \/ Started("resource") = slot["resource"]
          \/ Started("resource").phase = "work" /\ Started("resource").started = now
      BY DEF Started, IdleSlot
    <2>4. past'.measured = past.measured
      BY <1>1, <1>6 DEF StartTasks, Histories
    <2> QED
      BY <1>6, <2>1, <2>2, <2>3, <2>4, StatsFrame DEF StartTasks, store
  <1>7. CASE FastSnapshot
    <2> DEFINE e == loop.sample.entry
               stats == fast_resources(e, loop.sample.at)
    <2>1. /\ loop'.sample.at = loop.sample.at /\ loop'.sample.stats = stats
          /\ loop'.sample.entry.at = Never
      BY <1>4, <1>7 DEF FastSnapshot, Loops, to_sample, NoEntry
    <2>2. /\ e.at \in Instants /\ e.at <= past.measured /\ cache.resourceAt <= past.measured
          /\ past.measured \in Instants /\ loop.sample.at \in Int
      BY <1>1, <1>4 DEF IInv, RefreshesDateStats, Samples, Instants, Never
    <2>3. ASSUME stats = "fresh"
          PROVE  \E d \in {cache.resourceAt, e.at} : d # Never /\ loop.sample.at - d <= StaleAfter
      BY <2>3 DEF fast_resources, from_sample
    <2>4. StaleAfter \in Nat
      BY TelemetryAssumption
    <2>5. UNCHANGED <<now, slot, cache, resources, past>>
      BY <1>7 DEF FastSnapshot, store
    <2> HIDE DEF e, stats
    <2>6. ResourcesAreBacked'
      BY <1>1, <2>1, <2>2, <2>3, <2>4, <2>5 DEF ResourcesAreBacked, Instants, Never
    <2>7. Never <= past.measured
      BY <1>1 DEF Instants, Never
    <2> QED
      BY <2>1, <2>5, <2>6, <2>7 DEF IInv, RefreshesDateStats
  <1>19. CASE ListContainers
    <2>2. PICK listed \in BOOLEAN :
             loop' = [loop EXCEPT !.pc = "docker",
                        !.sample = [NoSample EXCEPT !.at = now,
                           !.entry = IF listed /\ host.container # "absent" THEN cache.entry ELSE Unlisted]]
      BY <1>19 DEF ListContainers
    <2> DEFINE e == IF listed /\ host.container # "absent" THEN cache.entry ELSE Unlisted
               x == [NoSample EXCEPT !.at = now, !.entry = e]
    <2>3. e.at \in {cache.entry.at, Never}
      BY DEF Unlisted
    <2>4. x.entry = e /\ x.stats = "none"
      <3> HIDE DEF e
      <3> QED
        BY NoSampleType DEF Samples
    <2>5. loop' = [loop EXCEPT !.pc = "docker", !.sample = x]
      BY <2>2
    <2> HIDE DEF e, x
    <2>1. loop'.sample.stats = "none" /\ loop'.sample.entry.at \in {cache.entry.at, Never}
      BY <1>4, <2>3, <2>4, <2>5 DEF Loops
    <2> QED
      BY <1>19, <2>1, StatsFrame DEF ListContainers, store
  <1>8. CASE SaveSample \/ SaveFails
    <2>1. loop'.sample.stats = "none" /\ loop'.sample.entry.at = Never
      BY <1>8, TurnedType, NoSampleType DEF SaveSample, SaveFails, IInv
    <2>2. past'.measured = past.measured
      BY <1>1, <1>8 DEF SaveSample, SaveFails, Histories
    <2> QED
      BY <1>8, <2>1, <2>2, StatsFrame DEF SaveSample, SaveFails, store
  <1>9. CASE Exit
    <2>1. /\ loop'.sample.stats = "none" /\ loop'.sample.entry.at = Never
          /\ cache'.resourceAt = Never /\ cache'.entry.at = Never /\ past'.measured = past.measured
      BY <1>1, <1>4, <1>9, NoSampleType DEF Exit, Loops, EmptyCache, NoEntry, Histories
    <2>2. slot'["resource"].phase = "idle"
      BY <1>3, <1>9, SlotTypes DEF Exit
    <2> QED
      BY <1>9, <2>1, <2>2, StatsFrame DEF Exit, store
  <1>10. ASSUME NEW s \in Tasks, MarkTimeout(s)
         PROVE  Goal
    <2>1. /\ slot'["resource"].phase = slot["resource"].phase
          /\ slot'["resource"].started = slot["resource"].started
      BY <1>2, <1>3, <1>10 DEF MarkTimeout, IInv, TypeOK, Slots
    <2> QED
      BY <1>10, <2>1, StatsFrame DEF MarkTimeout, store
  <1>11. CASE DiscoveryFails \/ Discover \/ PublishInventory
    <2>1. slot'["resource"] = slot["resource"]
      BY <1>3, <1>11 DEF DiscoveryFails, Discover, PublishInventory, Ended, IInv, TypeOK
    <2>2. /\ cache'.resourceAt = cache.resourceAt /\ cache'.entry = cache.entry
          /\ past'.measured = past.measured
      BY <1>1, <1>11 DEF DiscoveryFails, Discover, PublishInventory, Caches, Histories
    <2> QED
      BY <1>11, <2>1, <2>2, StatsFrame DEF DiscoveryFails, Discover, PublishInventory, store
  <1>12. CASE RefreshEntry
    <2> DEFINE started == slot["resource"].started
    <2>1. /\ slot["resource"].phase = "work" /\ UNCHANGED <<now, loop, resources>>
          /\ past'.measured = started
      BY <1>1, <1>12 DEF RefreshEntry, Histories, store
    <2>2. cache'.resourceAt = cache.resourceAt /\ cache'.entry.at \in {cache.entry.at, started, Never}
      <3>1. CASE UNCHANGED cache
        BY <3>1
      <3>2. ASSUME NEW returned \in BOOLEAN, cache' = [cache EXCEPT !.entry = EntryOf(returned)]
            PROVE  cache'.resourceAt = cache.resourceAt /\ cache'.entry.at \in {started, Never}
        BY <1>1, <3>2 DEF Caches, EntryOf
      <3> QED
        BY <1>12, <3>1, <3>2 DEF RefreshEntry
    <2>3. slot'["resource"].phase = "date" /\ slot'["resource"].started = started
      BY <1>2, <1>3, <1>12 DEF RefreshEntry, IInv, TypeOK, Slots
    <2>4. started \in 0 .. now /\ past.measured <= started
      BY <1>3, <2>1 DEF IInv, SlotsSound, RefreshesDateStats
    <2> HIDE DEF started
    <2>5. RefreshesDateStats'
      BY <1>1, <2>1, <2>2, <2>3, <2>4 DEF IInv, RefreshesDateStats, Instants, Never
    <2>6. ASSUME loop.sample.stats = "fresh"
          PROVE  started # Never /\ loop.sample.at - started <= StaleAfter
      <3>1. past.measured # Never /\ loop.sample.at - past.measured <= StaleAfter
        BY <2>6 DEF IInv, ResourcesAreBacked
      <3>2. loop.sample.at \in Int /\ StaleAfter \in Int
        BY <1>4, TelemetryAssumption DEF Samples, Instants, Never
      <3> QED
        BY <1>1, <2>4, <3>1, <3>2 DEF Instants, Never
    <2> QED
      BY <2>1, <2>5, <2>6 DEF ResourcesAreBacked
  <1>20. CASE RefreshDates
    <2>1. /\ slot["resource"].phase = "date" /\ UNCHANGED <<now, loop, resources, past>>
          /\ cache'.resourceAt = slot["resource"].started /\ cache'.entry = cache.entry
      BY <1>1, <1>20 DEF RefreshDates, Caches, store
    <2>2. slot'["resource"].phase = "save" /\ slot'["resource"].started = slot["resource"].started
      BY <1>2, <1>3, <1>20 DEF RefreshDates, IInv, TypeOK, Slots
    <2> QED
      BY <2>1, <2>2 DEF IInv, RefreshesDateStats, ResourcesAreBacked
  <1>13. CASE RefreshFails
    <2>1. slot'["resource"].phase = "idle"
      BY <1>3, <1>13, SlotTypes DEF RefreshFails, Ended, IInv, TypeOK
    <2> QED
      BY <1>13, <2>1, StatsFrame DEF RefreshFails, store
  <1>14. CASE SaveResources
    <2>1. slot'["resource"].phase = "idle" /\ UNCHANGED <<now, loop, cache, past>>
      BY <1>3, <1>14, SlotTypes DEF SaveResources, Ended, IInv, TypeOK
    <2>2. resources'.at \in {resources.at, slot["resource"].started}
      BY <1>14 DEF SaveResources
    <2>3. slot["resource"].started <= past.measured
      BY <1>14 DEF SaveResources, IInv, RefreshesDateStats
    <2> QED
      BY <2>1, <2>2, <2>3 DEF IInv, RefreshesDateStats, ResourcesAreBacked
  <1>15. CASE BeginPass \/ DeleteResources \/ DeleteResourceRuns \/ Locked \/ PassEnds
    <2>1. slot'["resource"] = slot["resource"]
      BY <1>3, <1>15 DEF BeginPass, DeleteResources, DeleteResourceRuns, Locked, PassEnds, Ended, IInv, TypeOK
    <2>2. resources'.at \in {resources.at, Never}
      BY <1>15 DEF BeginPass, DeleteResources, DeleteResourceRuns, Locked, PassEnds, store, NoEntry
    <2> QED
      BY <1>15, <2>1, <2>2, StatsFrame
         DEF BeginPass, DeleteResources, DeleteResourceRuns, Locked, PassEnds, store
  <1>16. ASSUME NEW t \in Tables, DeleteChildren(t)
         PROVE  Goal
    <2>1. slot'["resource"] = slot["resource"]
      BY <1>3, <1>16 DEF DeleteChildren, IInv, TypeOK
    <2> QED
      BY <1>16, <2>1, StatsFrame DEF DeleteChildren
  <1>17. CASE DeleteRuns
    <2>1. slot'["resource"] = slot["resource"]
      BY <1>3, <1>17 DEF DeleteRuns, IInv, TypeOK
    <2> QED
      BY <1>17, <2>1, StatsFrame DEF DeleteRuns
  <1>18. CASE Overview \/ HostChanges \/ EventCites \/ Tick
    BY <1>18, StatsFrame DEF Overview, HostChanges, EventCites, Tick, store
  <1> QED
    BY <1>5, <1>6, <1>7, <1>8, <1>9, <1>10, <1>11, <1>12, <1>13, <1>14, <1>15, <1>16, <1>17, <1>18,
       <1>19, <1>20 DEF Next

-----------------------------------------------------------------------------
(* The theorems.                                                             *)

\* The initial states satisfy the invariant.
LEMMA InitIInv == Init => IInv
  <1> SUFFICES ASSUME Init PROVE IInv
    OBVIOUS
  <1>1. /\ Never \in Instants /\ 0 \in Instants /\ NoProjects \in Inventories
        /\ Together \subseteq SUBSET Tasks
    BY TelemetryAssumption DEF Instants, NoProjects, Inventories
  <1>2. /\ loop \in Loops /\ loop.pc = "down" /\ loop.sample = NoSample
        /\ loop.next = [s \in Tasks |-> 0]
    BY <1>1, NoSampleType DEF Init, Loops
  <1>3. runs \subseteq Runs /\ \A r \in runs : r.at = 0
    <2> DEFINE row == [at |-> 0, cited |-> FALSE, kids |-> Tables, projects |-> Projects]
    <2>1. Tables \in SUBSET Tables /\ Projects \in SUBSET Projects
      OBVIOUS
    <2>2. row \in Runs /\ row.at = 0
      BY <2>1 DEF Runs
    <2>3. runs = {} \/ runs = {row}
      BY DEF Init
    <2> HIDE DEF row
    <2> QED
      BY <2>2, <2>3
  <1>4. /\ past \in Histories /\ past.saved = (IF runs = {} THEN Never ELSE 0)
        /\ past.measured = Never /\ past.last = NoStarts /\ past.before = NoStarts
    BY <1>1, NoSampleType DEF Init, Histories
  <1>5. TypeOK
    <2>1. host \in [projects : SUBSET Projects, container : {"absent", "stopped", "running"},
                    changes : Nat]
      BY DEF Init
    <2>2. /\ slot \in [Tasks -> Slots] /\ timers \in [Tasks -> SUBSET Nat]
          /\ slot["project"].found = {} /\ slot["resource"].found = {}
      BY SlotTypes DEF Init, Tasks
    <2>3. /\ cache \in Caches /\ resources \in Entries
          /\ dash \in [inventory : Inventories, at : Instants, refreshed : Instants]
      BY <1>1, NoSampleType DEF Init
    <2> QED
      BY <1>2, <1>3, <1>4, <2>1, <2>2, <2>3 DEF Init, TypeOK
  <1>6. SlotsSound /\ TimersSound /\ DownIsQuiet
    BY <1>4, SlotTypes DEF Init, SlotsSound, TimersSound, DownIsQuiet, NoStarts
  <1>7. SavesDateRows
    BY <1>2, <1>3, <1>4 DEF Init, SavesDateRows, Never
  <1>8. RefreshesDateStats /\ ResourcesAreBacked
    BY <1>2, <1>4, SlotTypes, NoSampleType, TaskNames
       DEF Init, RefreshesDateStats, ResourcesAreBacked, Never, NoEntry, EmptyCache
  <1> QED
    BY <1>5, <1>6, <1>7, <1>8 DEF IInv

\* Every step keeps the types.
LEMMA TypeStep == IInv /\ Next => TypeOK'
  BY LoopTypes, SlotTypesKept, TaskTypes, RetentionTypes, WorldTypes DEF IInv, Next

\* Every step keeps the slots and timers sound.
LEMMA TimersStep == IInv /\ Next => SlotsSound' /\ TimersSound' /\ DownIsQuiet'
  BY ProgressSteps, ProgressKeeps, SlotsStep DEF IInv, Next

\* No property depends on anything but the variables.
LEMMA StutterStep == IInv /\ UNCHANGED vars => IInv'
  BY DEF vars, IInv, TypeOK, SlotsSound, TimersSound, DownIsQuiet, SavesDateRows,
         RefreshesDateStats, ResourcesAreBacked

\* The invariant of the sampler, its store and the dashboard: types, slots and
\* their timers, and the dates of what is saved and shown.
THEOREM TelemetryInvariance == Spec => []IInv
  <1>1. IInv /\ [Next]_vars => IInv'
    BY TypeStep, TimersStep, SavesStep, StatsStep, StutterStep DEF IInv
  <1> QED
    BY <1>1, InitIInv, PTL DEF Spec

\* When telemetry stops, the dashboard's answer degrades: projects it calls
\* fresh were saved within StaleAfter (DashboardTelemetry.overview).
THEOREM StoppedTelemetryIsSeen == Spec => []StopsAreSeen
  <1>1. IInv => StopsAreSeen
    <2> SUFFICES ASSUME IInv, Answer = "fresh"
                 PROVE  past.saved # Never /\ now - past.saved <= StaleAfter
      BY DEF StopsAreSeen
    <2>1. dash.at # Never /\ now - dash.at <= StaleAfter
      BY DEF Answer, from_sample
    <2>2. dash.at \in Instants /\ past.saved \in Instants /\ now \in Nat /\ dash.at <= past.saved
      BY DEF IInv, TypeOK, Histories, SavesDateRows
    <2>3. StaleAfter \in Nat
      BY TelemetryAssumption
    <2> QED
      BY <2>1, <2>2, <2>3 DEF Instants, Never
  <1> QED
    BY <1>1, TelemetryInvariance, PTL

\* Statistics written as fresh are backed by a refresh that got statistics
\* within StaleAfter, whatever stopped midway or was read in between
\* (refresh_resources, fast_snapshot).
THEOREM FreshResourcesAreBacked == Spec => []ResourcesAreBacked
  <1>1. IInv => ResourcesAreBacked
    BY DEF IInv
  <1> QED
    BY <1>1, TelemetryInvariance, PTL

\* For every interval and timeout, a timer that is never cancelled hits another
\* run than its own only when the two started within a timeout of each other,
\* and runs start an interval apart (_SingleFlightSlot._mark_timeout, run).
THEOREM TimeoutsAreEarned == Spec => []TimeoutIsEarned
  <1>1. IInv => TimeoutIsEarned
    <2> SUFFICES ASSUME IInv, NEW s \in Tasks, slot[s].running, past.before[s] # Never
                 PROVE  slot[s].started - past.before[s] >= Every[s]
      BY DEF IInv, SlotsSound, TimeoutIsEarned
    <2>1. slot[s].started = past.last[s] /\ past.before[s] + Every[s] <= past.last[s]
      BY DEF IInv, SlotsSound
    <2>2. past.last[s] \in Int /\ past.before[s] \in Int /\ Every[s] \in Int
      BY TelemetryAssumption DEF IInv, TypeOK, Histories, Instants, Never
    <2> QED
      BY <2>1, <2>2
  <1> QED
    BY <1>1, TelemetryInvariance, PTL
=============================================================================
