---------------------------- MODULE EventPipeline ----------------------------
(***************************************************************************)
(* From telemetry runs to incidents.  The sampler commits runs, retention  *)
(* deletes old ones in separate transactions, the event service (and the   *)
(* one-shot "events process" command beside it) reads a run and its        *)
(* predecessor, derives events, commits them with the run's processing     *)
(* marker, and only then applies them one by one to the incidents, each in  *)
(* a transaction that opens at its first write, after the reads it rests   *)
(* on.  The service can crash between any two of these steps.              *)
(*                                                                         *)
(* One monitored resource is enough: incidents of different resources      *)
(* share nothing but the run that feeds them.  Which kind of resource it   *)
(* is is chosen at the start.                                              *)
(***************************************************************************)
EXTENDS Integers, FiniteSets, SequencesExt

CONSTANTS Kinds,            \* "container", "project", "tunnel", "health"
          ContainerValues, ProjectValues,  \* what a sample may record of them
          MaxRuns,          \* runs the sampler commits, for each kind of resource
          MaxFaults,        \* crashes and repository errors, for each kind
          MaxCli,           \* one-shot commands, for each kind
          ServiceLimit, CommandLimit  \* how many runs each asks for at once

VARIABLES
  kind,          \* the kind of the resource
  runs,          \* sample_runs: id -> the run's value for the resource
  rows,          \* the runs whose sample rows have not been deleted
  lastId,        \* the AUTOINCREMENT counter of sample_runs
  cutoff,        \* 0, or the newest run the retention pass in progress deletes
  obs,           \* health_observations: run -> report
  marked,        \* event_processing_runs
  events,        \* the events table, by event_key: the run and what it saw
  incident,      \* the incident row of the resource's correlation key
  timeline,      \* incident_transitions
  procs,         \* the event service and the command line
  afterId,       \* EventRunner.run's after_id
  interrupted,   \* history: runs whose events were committed and not all applied
  budget         \* faults and commands left

vars == <<kind, runs, rows, lastId, cutoff, obs, marked, events, incident,
          timeline, procs, afterId, interrupted, budget>>

Procs == {"service", "cli"}
RunIds == 1 .. Max({MaxRuns[k] : k \in Kinds})
Info == 1
Warning == 2
High == 3
Critical == 4
Absent == [at |-> "absent"]

(* ------------------------- what a run records -------------------------- *)

Containers == [state : {"running", "restarting", "exited"},
               health : {"healthy", "unhealthy"}, restarts : 0 .. 1]
Projects == [dirty : BOOLEAN, behind : 0 .. 1]
Tunnels == [tunnel : {"healthy", "down", "unknown"}]
ASSUME ValuesAssumption ==
  /\ ContainerValues \subseteq Containers /\ ProjectValues \subseteq Projects
  /\ Kinds \subseteq {"container", "project", "tunnel", "health"}
  /\ MaxRuns \in [Kinds -> Nat] /\ MaxCli \in [Kinds -> Nat] /\ MaxFaults \in [Kinds -> Nat]
  /\ ServiceLimit \in Nat \ {0} /\ CommandLimit \in Nat \ {0}

\* A health report: its state, the highest severity of its findings (Info when
\* there are none) and which set of findings it is.
Reports == {[state |-> "healthy", top |-> Info, findings |-> 0],
            [state |-> "degraded", top |-> Info, findings |-> 1],
            [state |-> "degraded", top |-> Warning, findings |-> 2],
            [state |-> "critical", top |-> Critical, findings |-> 3]}

\* The health of a project is looked up when the run is processed: the run
\* itself only says that the project is there.
Values == CASE kind = "container" -> ContainerValues
            [] kind = "project" -> ProjectValues
            [] kind = "tunnel" -> Tunnels
            [] kind = "health" -> [project : {"present"}]

(* ------------------------------ derivation ----------------------------- *)

Event(type, severity, value) == [type |-> type, severity |-> severity, value |-> value]
When(c, e) == IF c THEN <<e>> ELSE << >>

\* Two different recoveries share the container's states as their values, so
\* that restarting and unhealthy to running and healthy is one event twice.
_containers(p, c) ==
     When(p.state # "restarting" /\ c.state = "restarting", Event("restarting", High, "restarting"))
  \o When(p.state \notin {"running", "restarting"} /\ c.state = "running", Event("started", Info, "running"))
  \o When(p.state \in {"running", "restarting"} /\ c.state = "exited", Event("stopped", High, "exited"))
  \o When(p.state = "restarting" /\ c.state = "running", Event("recovered", Info, c.state))
  \o When(c.restarts > p.restarts, Event("restarted", Warning, "count"))
  \o When(p.health # c.health,
          Event("health_changed", IF c.health = "healthy" THEN Info ELSE Warning, c.health))
  \o When(p.health = "unhealthy" /\ c.health = "healthy", Event("recovered", Info, c.state))

_project_unhealthy(v) == v.dirty \/ v.behind > 0

_projects(p, c) ==
  When(p # c, Event("git_changed", IF _project_unhealthy(c) THEN Warning ELSE Info,
                    IF _project_unhealthy(c) THEN "unhealthy" ELSE "clean"))

_tunnel(p, c) ==
  When("unknown" \notin {p.tunnel, c.tunnel} /\ p # c,
       Event("tunnel_changed", IF c.tunnel = "down" THEN High ELSE Info, c.tunnel))

_health_severity(state) == CASE state = "critical" -> Critical [] state = "healthy" -> Info [] OTHER -> Warning

transition_events(p, c) ==
     When(p.state # c.state, Event("health_state", _health_severity(c.state), c.state))
  \o When(p.findings # c.findings, Event("health_findings", c.top, "findings"))

\* The previous run is the newest older one still stored, processed or not.
get_previous_run(r) ==
  LET older == {q \in DOMAIN runs : q < r} IN IF older = {} THEN 0 ELSE Max(older)
get_previous_health_observation(r) ==
  LET older == {q \in DOMAIN obs : q < r} IN IF older = {} THEN 0 ELSE Max(older)

\* What the repository answers for a run: nothing once its rows are deleted.
Point(r) == IF r \in rows THEN runs[r] ELSE Absent

derive(r, report) ==
  LET q == get_previous_run(r)
      o == get_previous_health_observation(r)
  IN IF kind = "health"
     THEN IF report = Absent \/ o = 0 THEN << >> ELSE transition_events(obs[o], report)
     ELSE IF q = 0 \/ Absent \in {Point(q), Point(r)} THEN << >>
     ELSE CASE kind = "container" -> _containers(Point(q), Point(r))
            [] kind = "project" -> _projects(Point(q), Point(r))
            [] kind = "tunnel" -> _tunnel(Point(q), Point(r))

(* ------------------------------ incidents ------------------------------ *)

_opens_incident(e) ==
  \/ e.type \in {"restarting", "restarted", "stopped"}
  \/ e.type = "health_changed" /\ e.value # "healthy"
  \/ e.type = "git_changed" /\ e.value = "unhealthy"
  \/ e.type = "tunnel_changed" /\ e.value = "down"
  \/ e.type = "health_state" /\ e.value \in {"degraded", "critical"}
  \/ e.type = "health_findings" /\ e.severity >= Warning

_resolves_incident(e) ==
  \/ e.type = "recovered"
  \/ e.type \in {"health_changed", "tunnel_changed", "health_state"} /\ e.value = "healthy"
  \/ e.type = "git_changed" /\ e.value = "clean"

NoIncident == [status |-> "none", severity |-> 0]
_max_severity(a, b) == IF b > a THEN b ELSE a

\* Mutant of Branch: an open incident ignores openings that do not escalate it.
QuietBranch(e) ==
  CASE _resolves_incident(e) /\ incident.status = "open" -> "recovered"
    [] ~_resolves_incident(e) /\ _opens_incident(e) /\ incident.status # "open" -> "search"
    [] ~_resolves_incident(e) /\ _opens_incident(e) /\ e.severity > incident.severity -> "escalated"
    [] OTHER -> "none"

\* apply_event looks for a live incident: what it then does with an event.
Branch(e) ==
  CASE _resolves_incident(e) /\ incident.status = "open" -> "recovered"
    [] ~_resolves_incident(e) /\ _opens_incident(e) ->
         IF incident.status # "open" THEN "search"
         ELSE IF _max_severity(incident.severity, e.severity) # incident.severity THEN "escalated" ELSE "updated"
    [] OTHER -> "none"

\* The row it writes: a recovery leaves the severity it finds, an opening takes
\* the higher of its own and the one that was read.
Written(what, seen, e) ==
  IF what = "recovered" THEN [incident EXCEPT !.status = "resolved"]
  ELSE [status |-> "open", severity |-> _max_severity(seen.severity, e.severity)]

(* ------------------------------- sampler ------------------------------- *)

\* save_sample, one transaction.  A source that is unavailable leaves no row.
save_sample ==
  /\ lastId < MaxRuns[kind]
  /\ \E v \in Values \cup {Absent} :
       /\ runs' = [q \in DOMAIN runs \cup {lastId + 1} |-> IF q \in DOMAIN runs THEN runs[q] ELSE v]
       /\ rows' = rows \cup {lastId + 1}
  /\ lastId' = lastId + 1
  /\ UNCHANGED <<kind, cutoff, obs, marked, events, incident, timeline, procs, afterId, interrupted, budget>>

\* delete_older_than: the sample rows of the old runs first ...
DeleteRows ==
  /\ cutoff = 0
  /\ \E c \in DOMAIN runs :
       /\ cutoff' = c
       /\ rows' = {r \in rows : r > c}
       /\ rows' # rows
  /\ UNCHANGED <<kind, runs, lastId, obs, marked, events, incident, timeline, procs, afterId, interrupted, budget>>

\* ... then, in another transaction, the runs that no event names; their markers
\* and observations go with them.
DeleteRuns ==
  /\ cutoff # 0
  /\ LET kept == {r \in DOMAIN runs : r > cutoff \/ \E e \in events : e.run = r}
     IN /\ runs' = [r \in kept |-> runs[r]]
        /\ obs' = [r \in DOMAIN obs \cap kept |-> obs[r]]
        /\ marked' = marked \cap kept
  /\ cutoff' = 0
  /\ UNCHANGED <<kind, rows, lastId, events, incident, timeline, procs, afterId, interrupted, budget>>

(* --------------------------- event processor --------------------------- *)

\* A processor's batch is the runs it has left, oldest first.  From "apply" on
\* its events are the stored ones; what and seen are the branch apply_event is
\* in and the incident row it has read.
Idle == [at |-> "idle", batch |-> {}, evs |-> << >>, report |-> Absent, what |-> "none", seen |-> NoIncident]
Current(p) == Min(procs[p].batch)
Key(p) == [run |-> Current(p), event |-> Head(procs[p].evs)]

\* The oldest runs after a given one, and the poll of the service.
get_runs(after, limit) ==
  {r \in DOMAIN runs : r > after /\ Cardinality({q \in DOMAIN runs : after < q /\ q < r}) < limit}

Poll ==
  /\ procs["service"].at = "idle"
  /\ get_runs(afterId, ServiceLimit) # {}
  /\ procs' = [procs EXCEPT !["service"] =
                 [Idle EXCEPT !.at = "next", !.batch = get_runs(afterId, ServiceLimit)]]
  /\ UNCHANGED <<kind, runs, rows, lastId, cutoff, obs, marked, events, incident, timeline, afterId, interrupted, budget>>

\* The command processes one run, or the oldest ones.
Command ==
  /\ budget.cli > 0
  /\ procs["cli"].at = "idle"
  /\ \E batch \in {{r} : r \in DOMAIN runs} \cup {get_runs(0, CommandLimit)} :
       /\ batch # {}
       /\ procs' = [procs EXCEPT !["cli"] = [Idle EXCEPT !.at = "next", !.batch = batch]]
  /\ budget' = [budget EXCEPT !.cli = @ - 1]
  /\ UNCHANGED <<kind, runs, rows, lastId, cutoff, obs, marked, events, incident, timeline, afterId, interrupted>>

\* Mutant of Returned: the service goes on to the next run after an error.
GoOnReturned(p, ok) ==
  LET rest == procs[p].batch \ {Current(p)}
  IN /\ procs' = [procs EXCEPT ![p] = IF rest = {} THEN Idle ELSE [Idle EXCEPT !.at = "next", !.batch = rest]]
     /\ afterId' = IF p = "service" /\ ok THEN Current(p) ELSE afterId

\* Mutant of Returned: after_id moves past a run that failed.
SkipReturned(p, ok) ==
  LET rest == procs[p].batch \ {Current(p)}
      stop == rest = {} \/ (p = "service" /\ ~ok)
  IN /\ procs' = [procs EXCEPT ![p] = IF stop THEN Idle ELSE [Idle EXCEPT !.at = "next", !.batch = rest]]
     /\ afterId' = IF p = "service" THEN Current(p) ELSE afterId

\* The caller's loop after process_run: the service stops at an error and polls
\* again from the last run it is done with, the command goes on.
Returned(p, ok) ==
  LET rest == procs[p].batch \ {Current(p)}
      stop == rest = {} \/ (p = "service" /\ ~ok)
  IN /\ procs' = [procs EXCEPT ![p] = IF stop THEN Idle ELSE [Idle EXCEPT !.at = "next", !.batch = rest]]
     /\ afterId' = IF p = "service" /\ ok THEN Current(p) ELSE afterId

\* process_run up to the commit: an already processed run is skipped, a deleted
\* one is an error.  The frame's reads are separate, but retention deletes the
\* older rows first, so each outcome is that of one atomic read.
Read(p) ==
  LET r == Current(p) IN
  /\ procs[p].at = "next"
  /\ \/ /\ r \in marked
        /\ Returned(p, TRUE)
     \/ /\ r \notin DOMAIN runs
        /\ Returned(p, FALSE)
     \/ /\ r \in DOMAIN runs \ marked
        /\ \E report \in IF kind = "health" /\ Point(r) # Absent THEN Reports \cup {Absent} ELSE {Absent} :
             procs' = [procs EXCEPT ![p].at = "commit", ![p].report = report, ![p].evs = derive(r, report)]
        /\ UNCHANGED afterId
  /\ UNCHANGED <<kind, runs, rows, lastId, cutoff, obs, marked, events, incident, timeline, interrupted, budget>>

\* INSERT OR IGNORE: an event_key that is there already is not stored again.
Stored(r, evs) == events \cup {[run |-> r, event |-> evs[i]] : i \in DOMAIN evs}

\* Mutant of save_processed_run: the marker is not consulted.
BlindSave(p) ==
  LET r == Current(p)
      evs == procs[p].evs
  IN
  /\ procs[p].at = "commit"
  /\ r \in DOMAIN runs
  /\ marked' = marked \cup {r}
  /\ events' = Stored(r, evs)
  /\ procs' = [procs EXCEPT ![p].at = "apply"]
  /\ UNCHANGED <<kind, runs, rows, lastId, cutoff, obs, incident, timeline, interrupted, budget, afterId>>

\* save_processed_run, one transaction: the marker, the observation and the
\* events.  The marker's key decides between two processors; its reference
\* to the run fails when retention was faster.  The processor then reads every
\* event it derived back by its key, twice the same row where two share a key.
save_processed_run(p) ==
  LET r == Current(p)
      evs == procs[p].evs
  IN
  /\ procs[p].at = "commit"
  /\ \/ /\ r \in marked
        /\ Returned(p, TRUE)
        /\ UNCHANGED <<obs, marked, events>>
     \/ /\ r \notin DOMAIN runs
        /\ Returned(p, FALSE)
        /\ UNCHANGED <<obs, marked, events>>
     \/ /\ r \in DOMAIN runs \ marked
        /\ marked' = marked \cup {r}
        /\ obs' = IF procs[p].report = Absent THEN obs
                  ELSE [q \in DOMAIN obs \cup {r} |-> IF q = r THEN procs[p].report ELSE obs[q]]
        /\ events' = Stored(r, evs)
        /\ procs' = [procs EXCEPT ![p].at = "apply"]
        /\ UNCHANGED afterId
  /\ UNCHANGED <<kind, runs, rows, lastId, cutoff, incident, timeline, interrupted, budget>>

\* IncidentEngine.apply takes the events one by one.  Apply is apply_event's
\* first query, in autocommit, Search its second, for a resolved incident.
NextEvent(q) == [q EXCEPT !.at = "apply", !.evs = Tail(q.evs), !.what = "none", !.seen = NoIncident]

Apply(p) ==
  /\ procs[p].at = "apply"
  /\ IF procs[p].evs = << >>
     THEN Returned(p, TRUE)
     ELSE LET branch == Branch(Head(procs[p].evs))
          IN /\ procs' = [procs EXCEPT ![p] =
                            CASE branch = "none" -> NextEvent(procs[p])
                              [] branch = "search" -> [procs[p] EXCEPT !.at = "search"]
                              [] OTHER -> [procs[p] EXCEPT !.at = "write", !.what = branch, !.seen = incident]]
             /\ UNCHANGED afterId
  /\ UNCHANGED <<kind, runs, rows, lastId, cutoff, obs, marked, events, incident, timeline, interrupted, budget>>

Search(p) ==
  /\ procs[p].at = "search"
  /\ procs' = [procs EXCEPT ![p].at = "write", ![p].seen = incident,
                            ![p].what = IF incident = NoIncident THEN "opened" ELSE "reopened"]
  /\ UNCHANGED <<kind, runs, rows, lastId, cutoff, obs, marked, events, incident, timeline, afterId, interrupted, budget>>

\* Runs with events committed and not applied when their processor stops here.
Dropped(p) ==
  IF procs[p].at \in {"apply", "search", "write"} /\ procs[p].evs # << >> THEN {Current(p)} ELSE {}

\* The transaction: the incident by its id, whatever has become of it since it
\* was read, and the transition from what was read.  The insert of a first
\* incident meets the key's uniqueness when another processor was faster.
Write(p) ==
  LET q == procs[p]
      new == Written(q.what, q.seen, Head(q.evs))
  IN
  /\ q.at = "write"
  /\ IF q.what = "opened" /\ incident # NoIncident
     THEN /\ Returned(p, FALSE)
          /\ interrupted' = interrupted \cup Dropped(p)
          /\ UNCHANGED <<incident, timeline>>
     ELSE /\ incident' = new
          /\ timeline' = Append(timeline, [what |-> q.what, from |-> q.seen, to |-> new, event |-> Key(p)])
          /\ procs' = [procs EXCEPT ![p] = NextEvent(q)]
          /\ UNCHANGED <<afterId, interrupted>>
  /\ UNCHANGED <<kind, runs, rows, lastId, cutoff, obs, marked, events, budget>>

\* A repository raises (the database stays locked): process_run returns an error.
Fail(p) ==
  /\ budget.faults > 0
  /\ procs[p].at # "idle"
  /\ interrupted' = interrupted \cup Dropped(p)
  /\ Returned(p, FALSE)
  /\ budget' = [budget EXCEPT !.faults = @ - 1]
  /\ UNCHANGED <<kind, runs, rows, lastId, cutoff, obs, marked, events, incident, timeline>>

\* A process dies; the service starts over with after_id = None.
Crash(p) ==
  /\ budget.faults > 0
  /\ procs[p].at # "idle"
  /\ interrupted' = interrupted \cup Dropped(p)
  /\ procs' = [procs EXCEPT ![p] = Idle]
  /\ afterId' = IF p = "service" THEN 0 ELSE afterId
  /\ budget' = [budget EXCEPT !.faults = @ - 1]
  /\ UNCHANGED <<kind, runs, rows, lastId, cutoff, obs, marked, events, incident, timeline>>

Init ==
  /\ kind \in Kinds
  /\ runs = << >> /\ rows = {} /\ lastId = 0 /\ cutoff = 0
  /\ obs = << >> /\ marked = {} /\ events = {}
  /\ incident = NoIncident /\ timeline = << >>
  /\ procs = [p \in Procs |-> Idle] /\ afterId = 0
  /\ interrupted = {}
  /\ budget = [faults |-> MaxFaults[kind], cli |-> MaxCli[kind]]

Step(p) == Read(p) \/ save_processed_run(p) \/ Apply(p) \/ Search(p) \/ Write(p)

Next ==
  \/ save_sample \/ DeleteRows \/ DeleteRuns \/ Poll \/ Command
  \/ \E p \in Procs : Step(p) \/ Fail(p) \/ Crash(p)

\* The service polls in a loop and systemd restarts it; a retention pass ends.
Spec == Init /\ [][Next]_vars /\ WF_vars(Poll) /\ WF_vars(Step("service")) /\ WF_vars(DeleteRuns)

(* ------------------------------ properties ----------------------------- *)

NoCommandYet == budget.cli = MaxCli[kind]
Pending(e) == \E p \in Procs :
  e.run \in Dropped(p) /\ \E k \in DOMAIN procs[p].evs : e.event = procs[p].evs[k]
Applied(e) == \E t \in DOMAIN timeline : timeline[t].event = e

\* Crashes, retries, a restart from the first run, retention that deletes the
\* processing markers and a command racing the service never apply an event to
\* the incidents twice (EventProcessor.process_run, save_processed_run): only a
\* recovery whose row stands for two events may be recorded twice, and only
\* beside the command, because a health change resolves the incident between
\* them.  And two processors that both found no incident open it once.
AppliedOnce ==
  /\ \A s, t \in DOMAIN timeline :
       s # t /\ timeline[s].event = timeline[t].event =>
         timeline[s].event.event.type = "recovered" /\ ~NoCommandYet
  /\ \A t \in DOMAIN timeline : timeline[t].what = "opened" <=> t = 1

\* An event that opens an incident is reflected in its timeline, or is still
\* being applied, or belongs to a run whose processor stopped between the commit
\* and the incidents, by a crash, an error or the lost race to open it: nothing
\* else loses one (processor.py, IncidentEngine.apply).
OpeningsReachIncident ==
  \A e \in events :
    _opens_incident(e.event) /\ ~_resolves_incident(e.event)
      => Applied(e) \/ Pending(e) \/ e.run \in interrupted

\* Without the command line, incidents see the events in the order of the runs,
\* through crashes, errors and restarts (the service never goes past a run it
\* could not process, EventRunner.run), and the timeline has no gap: each
\* transition starts from the incident the one before it left.  Beside the
\* command a transition may start from an older state, never from one that the
\* incident did not have, and the last one is the incident.
InRunOrder ==
  /\ NoCommandYet =>
       /\ \A s, t \in DOMAIN timeline : s < t => timeline[s].event.run <= timeline[t].event.run
       /\ \A q, r \in DOMAIN runs : q < r /\ r \in marked => q \in marked
       /\ \A t \in DOMAIN timeline :
            timeline[t].from = IF t = 1 THEN NoIncident ELSE timeline[t - 1].to
  /\ \A t \in DOMAIN timeline :
       timeline[t].from = NoIncident \/ \E s \in 1 .. t - 1 : timeline[t].from = timeline[s].to
  /\ incident = IF timeline = << >> THEN NoIncident ELSE Last(timeline).to

\* Every run the sampler commits is processed or deleted, whatever fails on the
\* way (EventRunner.run's retry of the run that failed).
RunsAreProcessed ==
  \A r \in RunIds : (r \in DOMAIN runs) ~> (r \notin DOMAIN runs \/ r \in marked)

(* -------------- a claim that the code does not keep ------------------- *)

\* "explicit stable running/healthy evidence after an opening event" resolves a
\* container's incident: two processed runs in a row that saw it running and
\* healthy with the same restart count leave no live incident.
StableEvidenceResolves ==
  \A r \in marked :
    /\ kind = "container" /\ interrupted = {} /\ NoCommandYet
    /\ r - 1 \in marked /\ {r - 1, r} \subseteq rows
    /\ r = lastId /\ \A p \in Procs : procs[p].at = "idle"
    /\ runs[r] = runs[r - 1] /\ runs[r] # Absent
    /\ runs[r].state = "running" /\ runs[r].health = "healthy"
    => incident.status # "open"
=============================================================================
