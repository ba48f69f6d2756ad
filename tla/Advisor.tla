------------------------------ MODULE Advisor ------------------------------
(***************************************************************************)
(* The read-only advisor: GET /api/advisor reads the last five minutes of  *)
(* host telemetry in two read transactions (which sample is the newest,    *)
(* then the window that ends there), turns the rows into observations,     *)
(* normalises them into an evidence bundle and evaluates a fixed catalogue *)
(* of rules; POST /api/advisor/evaluate hands the same normaliser and      *)
(* rules the observations of an authenticated caller.  The sampler that    *)
(* fills the store runs beside it.                                         *)
(*                                                                         *)
(* A percentage is "low" or "high" according to its metric's threshold.    *)
(* Identifiers that the code derives by hashing are the tuples it hashes.  *)
(* Where the code's order is the order of such hashes, the choice is open. *)
(***************************************************************************)
EXTENDS Integers, FiniteSets, SequencesExt

CONSTANTS
    Metrics,            \* the host metrics: cpu, memory and disk percent
    Contents,           \* what the sampler may store in a host row
    Pauses,             \* seconds that may pass between two stored samples
    Window,             \* INITIAL_HISTORY_WINDOW_SECONDS (300)
    Cadence,            \* telemetry.interval_seconds
    MaxParents,         \* MAX_SNAPSHOT_PARENT_ROWS (128)
    MaxItems,           \* MAX_NORMALIZABLE_ITEMS (128)
    MaxUncertainties,   \* MAX_UNCERTAINTIES (32)
    Requests,           \* the requests that are posted
    MaxRows             \* bound: samples the store ever holds

ASSUME WindowAssumption == Window \in Nat \ {0} /\ Cadence \in Nat \ {0}

VARIABLES
    rows,       \* the host rows of the telemetry store, with their run
    now,        \* the wall clock, in whole seconds since the first sample
    call,       \* the live request in progress
    response    \* what the last request was answered

vars == <<rows, now, call, response>>

None == -1
MinPoints == 3
NoCall == [at |-> None]
NoResponse == [kind |-> "none"]
Refused(why) == [kind |-> "refused", why |-> why]

-----------------------------------------------------------------------------
(* The telemetry store and the exported window.                            *)

InWindow(end) == {r \in rows : end - Window <= r.at /\ r.at <= end}
Before(q, r) == q.at < r.at \/ (q.at = r.at /\ q.n < r.n)

\* The parent query keeps the oldest rows when there are more than it may read.
Oldest(S) == {r \in S : Cardinality({q \in S : Before(q, r)}) < MaxParents}
Runs(end) == Oldest(InWindow(end))

\* A row decodes when every column is of its type and within its bounds.
Decodable(r) == r.ok
Decoded(runs) == {r \in runs : Decodable(r)}

\* Gaps between neighbours, compared as 2 * gap > 3 * cadence.
Span(times) == IF times = {} THEN 0 ELSE Max(times) - Min(times)
Gap(times) == \E a, b \in times :
                 /\ a < b
                 /\ ~ \E c \in times : a < c /\ c < b
                 /\ 2 * (b - a) > 3 * Cadence
Repeated(S) == \E a, b \in S : a # b /\ a.at = b.at
Times(S) == {s.at : s \in S}

\* A metric of an available row may still be NULL: the sampler could not read it.
Has(m, s) == s.avail /\ s.val[m] # "none"
Measured(m, samples) == {s \in samples : Has(m, s)}

Status(m, samples) ==
    LET points == Measured(m, samples)
    IN  IF Repeated(points) THEN "invalid"
        ELSE IF \/ Cardinality(points) < MinPoints
                \/ Span(Times(points)) < Window
                \/ Gap(Times(points))
             THEN "insufficient" ELSE "sufficient"

\* As if one undecodable row in the window did not matter.
LaxComplete(m, runs) == Status(m, Decoded(runs)) = "sufficient"
Complete(m, runs) == Status(m, Decoded(runs)) = "sufficient" /\ Decoded(runs) = runs

-----------------------------------------------------------------------------
(* From exported rows to observations and history envelopes.               *)

Observation(m, s) ==
    LET state == IF Has(m, s) THEN "observed" ELSE "unavailable"
        value == IF Has(m, s) THEN s.val[m] ELSE "none"
    IN  [n |-> s.n, id |-> <<m, s.at, state, value>>, source |-> "history", rtype |-> "host", rid |-> "host",
         state |-> state, at |-> s.at, deadline |-> None, good |-> "yes", prov |-> "none",
         fields |-> IF Has(m, s) THEN [metric |-> m, value |-> value] ELSE [metric |-> m]]

Unobserved(m) ==
    [n |-> 0, id |-> <<m, None, "not_observed", "none">>, source |-> "history", rtype |-> "host", rid |-> "host",
     state |-> "not_observed", at |-> None, deadline |-> None, good |-> "yes", prov |-> "none",
     fields |-> [metric |-> m]]

Observations(samples) ==
    IF samples = {} THEN {Unobserved(m) : m \in Metrics}
    ELSE {Observation(m, s) : m \in Metrics, s \in samples}

Point(m, s) == [id |-> Observation(m, s).id, at |-> s.at, value |-> s.val[m], state |-> "observed"]
Envelope(m, runs) ==
    [rid |-> "host", metric |-> m, complete |-> Complete(m, runs),
     points |-> {Point(m, s) : s \in Measured(m, Decoded(runs))}]

Summary(m, runs) ==
    IF Decoded(runs) # runs THEN "invalid"
    ELSE IF Complete(m, runs) THEN "complete"
    ELSE IF Measured(m, runs) = {} THEN "unavailable" ELSE "incomplete"

\* As if only the rows that decode were expected.
DecodedOnly(runs) ==
    [observations |-> Observations(Decoded(runs)),
     envelopes |-> {Envelope(m, runs) : m \in Metrics},
     expected |-> [s \in {"history"} |-> Max({1, Cardinality(Decoded(runs))}) * Cardinality(Metrics)]]

\* adapt_telemetry_snapshot: the request one exported window becomes.
Adapted(runs) ==
    [observations |-> Observations(Decoded(runs)),
     envelopes |-> {Envelope(m, runs) : m \in Metrics},
     expected |-> [s \in {"history"} |-> Max({1, Cardinality(runs)}) * Cardinality(Metrics)]]

-----------------------------------------------------------------------------
(* The normaliser.                                                         *)

\* Identifiers, sources and types come from bounded alphabets; fields, links and
\* texts are bounded and safe.
Identified(o) == o.good # "identity"
Sound(o) == o.good = "yes"

\* An observation whose content or times fail the bounded contract.
Broken(o, t) ==
    \/ ~ Sound(o)
    \/ o.state = "observed" /\ o.at = None
    \/ o.state \in {"observed", "stale"} /\ o.at > t
    \/ o.deadline # None /\ o.at # None /\ o.deadline < o.at

Aged(o, t) == IF o.state = "observed" /\ o.deadline # None /\ t > o.deadline THEN "stale" ELSE o.state

Item(o, t) ==
    IF Broken(o, t)
    THEN [o EXCEPT !.state = "invalid", !.at = None, !.deadline = None, !.prov = "none", !.fields = << >>]
    ELSE [o EXCEPT !.state = Aged(o, t), !.fields = IF o.state = "invalid" THEN << >> ELSE o.fields]

Items(kept, t) == {Item(o, t) : o \in {x \in kept : Identified(x)}}

Uncertainty(kind, refs, why) == [kind |-> kind, refs |-> refs, why |-> why]

Doubts(o, t) ==
    IF ~ Identified(o) THEN {Uncertainty("invalid_evidence", {}, "observation")}
    ELSE IF Broken(o, t) THEN {Uncertainty("invalid_evidence", {o.id}, "observation")}
    ELSE IF Aged(o, t) = "stale" THEN {Uncertainty("stale_evidence", {o.id}, "observation")}
    ELSE IF o.state = "unavailable" THEN {Uncertainty("unavailable_source", {o.id}, "observation")}
    ELSE IF o.state = "not_observed" THEN {Uncertainty("missing_evidence", {o.id}, "observation")}
    ELSE {}

SameThing(i, j) == i.source = j.source /\ i.rtype = j.rtype /\ i.rid = j.rid
Group(i, items) == {j \in items : SameThing(i, j)}
Conflicts(items) ==
    {Uncertainty("conflicting_evidence", {j.id : j \in Group(i, items)}, "observation") :
        i \in {k \in items : \E j \in Group(k, items) : j.state # k.state}}

Count(items, source, states) == Cardinality({i \in items : i.source = source /\ i.state \in states})
Sources(items, expected) == {i.source : i \in items} \cup DOMAIN expected
States == {"observed", "unavailable", "not_observed", "stale", "invalid"}
Coverage(items, expected, source) ==
    LET actual == Count(items, source, States)
        wanted == IF source \in DOMAIN expected THEN Max({expected[source], actual}) ELSE actual
    IN  [expected |-> wanted, observed |-> Count(items, source, {"observed"}), stale |-> Count(items, source, {"stale"}),
         unavailable |-> Count(items, source, {"unavailable", "not_observed"}),
         invalid |-> Count(items, source, {"invalid"}), omitted |-> wanted - actual]
CoverageRefused(c) == c.observed + c.stale + c.unavailable + c.invalid + c.omitted > c.expected
Missing(items, expected) ==
    {Uncertainty("missing_evidence", {}, s) :
        s \in {x \in Sources(items, expected) : Coverage(items, expected, x).omitted > 0}}

Unproven(items) ==
    {Uncertainty("provenance_unverified", {i.id}, "provenance") : i \in {j \in items : j.prov \in {"unverified", "absent"}}}

Truncated(observations) ==
    IF Cardinality(observations) > MaxItems THEN {Uncertainty("scope_limited", {}, "observation")} ELSE {}

BundleStatus(items, uncertainties, expected) ==
    LET states == {i.state : i \in items}
    IN  IF items = {} THEN IF DOMAIN expected # {} \/ uncertainties # {} THEN "unavailable" ELSE "fresh"
        ELSE IF states = {"observed"} /\ uncertainties = {} THEN "fresh"
        ELSE IF states = {"stale"} THEN "stale"
        ELSE IF "observed" \in states THEN "partial"
        ELSE IF "invalid" \in states THEN "error" ELSE "unavailable"

normalize(request, kept, t) ==
    LET items == Items(kept, t)
        uncertainties == UNION {Doubts(o, t) : o \in kept} \cup Truncated(request.observations) \cup Conflicts(items)
                         \cup Missing(items, request.expected) \cup Unproven(items)
    IN  [items |-> items, uncertainties |-> uncertainties,
         status |-> BundleStatus(items, uncertainties, request.expected),
         coverage |-> {Coverage(items, request.expected, s) : s \in Sources(items, request.expected)}]

Ambiguous(items) == \E i, j \in items : i # j /\ i.id = j.id
BundleRefused(bundle) ==
    \/ \E c \in bundle.coverage : CoverageRefused(c)
    \/ Ambiguous(bundle.items)
    \/ Cardinality(bundle.uncertainties) > MaxUncertainties

-----------------------------------------------------------------------------
(* The rules.  A rule walks the bundle and returns at the first item that  *)
(* lacks a field it requires or that meets its condition; which item that  *)
(* is depends on identifiers only, so each of them is a possible outcome.  *)

Field(i, name) == IF name \in DOMAIN i.fields THEN i.fields[name] ELSE "none"
Lacks(i, names) == \E name \in names : name \notin DOMAIN i.fields

Refs(items) == {i.id : i \in items}
UncertaintyRefs(b, refs) == {u \in b.uncertainties : u.refs \cap refs # {}}
HasConflict(b, refs) == \E u \in b.uncertainties : u.kind = "conflicting_evidence" /\ u.refs \cap refs # {}

Nothing == [findings |-> {}, uncertainties |-> {}]
Says(u) == [findings |-> {}, uncertainties |-> {u}]
Finding(b, rule, items, confidence) ==
    [rule |-> rule, refs |-> Refs(items), confidence |-> confidence,
     uncertainties |-> UncertaintyRefs(b, Refs(items)), prov |-> {i.prov : i \in items} \ {"none"}]
Finds(b, rule, items, confidence) ==
    [findings |-> {Finding(b, rule, items, confidence)}, uncertainties |-> {}]
MissingField(i) == Says(Uncertainty("missing_evidence", {i.id}, "fields"))

\* The first item of S that stops a rule decides; Nothing when none does.
FirstOf(S, Outcome(_)) == IF S = {} THEN {Nothing} ELSE {Outcome(i) : i \in S}

Observed(b, types) == {i \in b.items : i.rtype \in types /\ i.state = "observed"}
ServiceItems(b, state) ==
    {i \in b.items : i.rtype = "service" /\ i.source \in {"service_health", "telemetry"} /\ i.state = state}
Peers(b, i) == {j \in b.items : j.rtype = "service" /\ j.rid = i.rid}

service_health_unavailable(b) ==
    FirstOf({i \in ServiceItems(b, "unavailable") :
                \/ Lacks(i, {"service_status"})
                \/ ~ HasConflict(b, Refs(Peers(b, i))) /\ Field(i, "service_status") = "unavailable"},
            LAMBDA i : IF Lacks(i, {"service_status"}) THEN MissingField(i)
                       ELSE Finds(b, "service.health.unavailable", {i}, "unknown"))

service_health_stale(b) ==
    FirstOf({i \in ServiceItems(b, "stale") : ~ HasConflict(b, Refs(Peers(b, i)))},
            LAMBDA i : IF i.deadline # None THEN Finds(b, "service.health.stale", {i}, "high")
                       ELSE IF UncertaintyRefs(b, {i.id}) = {}
                            THEN Says(Uncertainty("stale_evidence", {i.id}, "rule"))
                            ELSE Finds(b, "service.health.stale", {i}, "low"))

\* A point is only as good as the evidence item it names.
Bound(b, e, p) ==
    \E i \in b.items :
        /\ i.id = p.id
        /\ i.rid = e.rid
        /\ i.state = p.state
        /\ Field(i, "metric") = e.metric
        /\ Field(i, "value") = p.value
        /\ i.at = p.at

Unsound(b, e) == {p \in e.points : ~ Bound(b, e, p) \/ p.state # "observed"}

Sustained(b, e) ==
    LET refs == Refs(e.points)
        withheld(kind) == Says(Uncertainty(kind, refs, "sustained"))
    IN  IF \/ ~ e.complete
           \/ Span(Times(e.points)) < Window
           \/ Cardinality(e.points) < MinPoints THEN withheld("missing_evidence")
        ELSE IF Unsound(b, e) # {} THEN Says(Uncertainty("invalid_evidence", Refs(Unsound(b, e)), "sustained"))
        ELSE IF HasConflict(b, refs) THEN withheld("conflicting_evidence")
        ELSE IF Gap(Times(e.points)) THEN withheld("missing_evidence")
        ELSE IF \E p \in e.points : p.value = "low" THEN Nothing
        ELSE Finds(b, "resource.pressure.sustained", {i \in b.items : i.id \in refs}, "high")

\* One finding at most, whatever the number of metrics under pressure.
resource_pressure_sustained(b, envelopes) ==
    LET outputs == {Sustained(b, e) : e \in envelopes}
        findings == UNION {o.findings : o \in outputs}
        doubts == UNION {o.uncertainties : o \in outputs}
    IN  IF envelopes = {} THEN {Says(Uncertainty("missing_evidence", {}, "sustained"))}
        ELSE IF findings = {} THEN {[findings |-> {}, uncertainties |-> doubts]}
        ELSE {[findings |-> {f}, uncertainties |-> doubts] : f \in findings}

Spiked(i) == /\ Field(i, "comparison_status") = "changed"
             /\ i.fields.current_value >= 75
             /\ i.fields.current_value - i.fields.baseline_value >= 20
SpikeFields == {"comparison_status", "metric", "baseline_value", "current_value"}
resource_pressure_spike(b) ==
    FirstOf({i \in Observed(b, {"history", "resource"}) : Lacks(i, SpikeFields) \/ Spiked(i)},
            LAMBDA i : IF Lacks(i, SpikeFields) THEN MissingField(i)
                       ELSE Finds(b, "resource.pressure.spike", {i}, "high"))

CadenceGroup(b, i) ==
    {j \in Observed(b, {"history", "resource", "host"}) : j.source = i.source /\ j.rid = i.rid}
LateGap(group) ==
    {pair \in group \X group :
        /\ \A j \in group : ~ Lacks(j, {"cadence_seconds"})
        /\ Cardinality({j.fields["cadence_seconds"] : j \in group}) = 1
        /\ ~ Repeated(group)
        /\ pair[2].at - pair[1].at > 3 * pair[1].fields.cadence_seconds
        /\ ~ \E c \in group : pair[1].at < c.at /\ c.at < pair[2].at}
telemetry_cadence_gap(b) ==
    FirstOf({i \in Observed(b, {"history", "resource", "host"}) :
                i.source \in {"telemetry", "history"} /\ LateGap(CadenceGroup(b, i)) # {}},
            LAMBDA i : Finds(b, "telemetry.cadence.gap",
                             LET pair == CHOOSE q \in LateGap(CadenceGroup(b, i)) :
                                            \A r \in LateGap(CadenceGroup(b, i)) : q[2].at - q[1].at >= r[2].at - r[1].at
                             IN  {pair[1], pair[2]}, "high"))

Failing == {"unavailable", "invalid", "not_observed"}
\* As if explicitly invalid evidence had come with an uncertainty of its own.
HastyDegraded(b) ==
    FirstOf({i \in b.items : i.source = "telemetry"
                             /\ (i.state \in Failing \/ Field(i, "retention_status") \in {"unavailable", "invalid", "failed"})},
            LAMBDA i : Finds(b, "telemetry.source.degraded", {i}, IF i.state \in Failing THEN "unknown" ELSE "high"))
telemetry_source_degraded(b) ==
    FirstOf({i \in b.items : i.source = "telemetry"
                             /\ (i.state \in Failing \/ Field(i, "retention_status") \in {"unavailable", "invalid", "failed"})},
            LAMBDA i : IF i.state \in Failing /\ UncertaintyRefs(b, {i.id}) = {}
                       THEN Says(Uncertainty(IF i.state = "invalid" THEN "invalid_evidence" ELSE "unavailable_source",
                                             {i.id}, "rule"))
                       ELSE Finds(b, "telemetry.source.degraded", {i}, IF i.state \in Failing THEN "unknown" ELSE "high"))

\* The four rules that read explicit fields of deployments and projects.
Explicit(b, rule, types, names, Met(_)) ==
    FirstOf({i \in Observed(b, types) : Lacks(i, names) \/ Met(i)},
            LAMBDA i : IF Lacks(i, names) THEN MissingField(i) ELSE Finds(b, rule, {i}, "high"))

deployment_revision_changed(b) ==
    Explicit(b, "deployment.revision.changed", {"deployment", "project"},
             {"comparison_status", "baseline_revision", "current_revision"},
             LAMBDA i : Field(i, "comparison_status") = "changed"
                        /\ Field(i, "baseline_revision") # Field(i, "current_revision"))
deployment_posture_unverified(b) ==
    Explicit(b, "deployment.posture.unverified", {"deployment"}, {"revision", "runtime_confirmation_status"},
             LAMBDA i : Field(i, "runtime_confirmation_status") \in {"unavailable", "not_observed", "stale", "invalid"})
project_state_changed(b) ==
    Explicit(b, "project.state.changed", {"project"}, {"comparison_status", "identity_proven", "changed_field"},
             LAMBDA i : Field(i, "comparison_status") = "changed" /\ Field(i, "identity_proven") = "true")
project_health_degraded(b) ==
    Explicit(b, "project.health.degraded", {"project"}, {"health_status", "supporting_evidence_count"},
             LAMBDA i : Field(i, "health_status") = "degraded")

Catalog(b, envelopes) ==
    <<service_health_unavailable(b), service_health_stale(b), resource_pressure_sustained(b, envelopes),
      resource_pressure_spike(b), telemetry_cadence_gap(b), telemetry_source_degraded(b),
      deployment_revision_changed(b), deployment_posture_unverified(b), project_state_changed(b),
      project_health_degraded(b)>>

-----------------------------------------------------------------------------
(* The contract of the answer.  The answer remembers the rows of the       *)
(* window it was made from (none for a posted request), for the properties.*)

\* A finding below high confidence names an uncertainty.
FindingRefused(f) == f.confidence # "high" /\ f.uncertainties = {}

\* A finding and its recommendation cite provenance the bundle holds.
ResponseRefused(b, findings, uncertainties) ==
    \/ Cardinality(uncertainties) > MaxUncertainties
    \/ \E f \in findings : "absent" \in f.prov
    \/ \E f \in findings : ~ f.uncertainties \subseteq b.uncertainties

Recommendation(f) ==
    [rule |-> f.rule, refs |-> f.refs, uncertainties |-> f.uncertainties, confidence |-> f.confidence,
     status |-> IF f.confidence = "unknown" THEN "insufficient_evidence" ELSE "new"]

\* A recommendation is new or explained, and traceable through a finding of its rule.
RecommendationRefused(r, findings) ==
    \/ r.status = "new" /\ r.refs = {}
    \/ r.confidence # "high" /\ r.uncertainties = {}
    \/ ~ \E f \in findings : f.rule = r.rule /\ r.refs \subseteq f.refs

Answer(b, output, t, window) ==
    LET findings == output.findings
        uncertainties == b.uncertainties \cup output.uncertainties
    IN  IF \E f \in findings : FindingRefused(f) \/ RecommendationRefused(Recommendation(f), findings) THEN Refused("finding")
        ELSE IF ResponseRefused(b, findings, uncertainties) THEN Refused("response")
        ELSE [kind |-> "answer", status |-> b.status, at |-> t, items |-> b.items, findings |-> findings,
              recommendations |-> {Recommendation(f) : f \in findings}, uncertainties |-> uncertainties,
              coverage |-> b.coverage, summary |-> [m \in Metrics |-> Summary(m, Oldest(window))], window |-> window]

Join(a, o) == [findings |-> a.findings \cup o.findings, uncertainties |-> a.uncertainties \cup o.uncertainties]

\* Every way the ten rules of the catalogue may come out together.
evaluate(b, envelopes) ==
    FoldLeft(LAMBDA acc, outs : {Join(a, o) : a \in acc, o \in outs}, {Nothing}, Catalog(b, envelopes))

\* compose_advisor: the observations beyond the limit are dropped, then the rules run.
compose_advisor(request, t, window) ==
    UNION {LET b == normalize(request, kept, t)
           IN  IF BundleRefused(b) THEN {Refused("bundle")}
               ELSE {Answer(b, o, t, window) : o \in evaluate(b, request.envelopes)} :
           kept \in kSubset(Min({MaxItems, Cardinality(request.observations)}), request.observations)}

-----------------------------------------------------------------------------
(* The sampler, and the two steps of a live request.                       *)

Init == rows = {} /\ now = 0 /\ call = NoCall /\ response = NoResponse

\* save_sample: one run and its host row, stamped in whole seconds.  It may come
\* between the two transactions of a request; after the answer it no longer matters.
save_sample(content, pause) ==
    /\ Cardinality(rows) < MaxRows /\ response = NoResponse
    /\ now' = IF rows = {} THEN now ELSE now + pause
    /\ rows' = rows \cup {[n |-> Cardinality(rows) + 1, at |-> now', ok |-> content.ok,
                           avail |-> content.avail, val |-> content.val]}
    /\ UNCHANGED <<call, response>>

\* The newest sample at or before the clock, in a transaction of its own.
resolve_boundary ==
    /\ call = NoCall /\ response = NoResponse
    /\ IF rows = {}
       THEN response' = Refused("no sample") /\ UNCHANGED call
       ELSE call' = [at |-> Max(Times(rows))] /\ UNCHANGED response
    /\ UNCHANGED <<rows, now>>

\* The window that ends at the boundary, read in a second transaction and evaluated.
Exported(runs, end) ==
    IF \E m \in Metrics : Repeated(Measured(m, Decoded(runs))) THEN {Refused("envelope")}
    ELSE compose_advisor(Adapted(runs), end, InWindow(end))
export ==
    /\ call # NoCall
    /\ response' \in Exported(Runs(call.at), call.at)
    /\ call' = NoCall
    /\ UNCHANGED <<rows, now>>

\* Either transaction may exceed its five seconds or fail in the database.
exceed_budget ==
    /\ response = NoResponse
    /\ response' = Refused("budget") /\ call' = NoCall
    /\ UNCHANGED <<rows, now>>

Authenticates(request) == request.caller = "accepted"
Decodes(request) == request.form = "valid" /\ ~ \E e \in request.envelopes : Repeated(e.points)

\* A posted request reads no row: it is explored before the first sample only.
post(request) ==
    /\ rows = {} /\ call = NoCall /\ response = NoResponse
    /\ response' \in IF ~ Authenticates(request) THEN {Refused("authentication")}
                     ELSE IF ~ Decodes(request) THEN {Refused("validation")}
                     ELSE compose_advisor(request, request.at, {})
    /\ UNCHANGED <<rows, now, call>>

Return == response # NoResponse /\ response' = NoResponse /\ UNCHANGED <<rows, now, call>>

Next ==
    \/ \E c \in Contents, p \in Pauses : save_sample(c, p)
    \/ resolve_boundary
    \/ export
    \/ exceed_budget
    \/ \E r \in Requests : post(r)
    \/ Return

Spec == Init /\ [][Next]_vars

-----------------------------------------------------------------------------
(* Properties.                                                             *)

Pressure == {f \in response.findings : f.rule = "resource.pressure.sustained"}

\* Sustained pressure is only reported (_resource_pressure_sustained and all
\* that feeds it) when the evidence items it cites are observed, all of one
\* metric and at or above its threshold, at least three, over the whole window
\* and without a gap; on the live path, when moreover every row the parent query
\* kept decodes, none of them is low, and the rows it silently cut all lie in
\* the window's last second.  A sample whose metrics were not all measured makes
\* the evidence conflicting and withholds the finding; only when the normaliser
\* itself dropped observations may it have gone unseen, and the answer says so.
SustainedIsReal ==
    response.kind = "answer" =>
        \A f \in Pressure :
            LET cited == {i \in response.items : i.id \in f.refs}
                read == Oldest(response.window)
            IN  \E m \in Metrics :
                    /\ \A i \in cited : i.state = "observed" /\ Field(i, "metric") = m /\ Field(i, "value") = "high"
                    /\ Cardinality(cited) >= MinPoints
                    /\ Span(Times(cited)) >= Window
                    /\ ~ Gap(Times(cited))
                    /\ \A r \in read : r.ok /\ (Has(m, r) => r.val[m] = "high")
                    /\ \A r \in response.window \ read : r.at = response.at
                    /\ \/ \A r \in read, k \in Metrics : Has(k, r)
                       \/ Uncertainty("scope_limited", {}, "observation") \in response.uncertainties

\* No rule builds a finding that the finding's own contract refuses, which
\* would fail the whole request: whatever the mix of degraded evidence, a
\* finding below high confidence has an uncertainty of the bundle to name.
RulesMeetTheContract == response.kind = "refused" => response.why # "finding"

\* A live answer that calls itself fresh hides nothing of what the export read:
\* every row the parent query kept decoded, was measured for every metric and
\* became an observation, and the bundle had no uncertainty to drop (a rule may
\* still add its own).  Rows beyond the parent limit are silently left out.
FreshIsComplete ==
    response.kind = "answer" /\ response.status = "fresh" /\ response.window # {} =>
        LET read == Oldest(response.window)
        IN  /\ \A r \in read, m \in Metrics : r.ok /\ Has(m, r)
            /\ Cardinality(response.items) = Cardinality(read) * Cardinality(Metrics)
            /\ \A u \in response.uncertainties : u.why = "sustained"

-----------------------------------------------------------------------------
(* A claim of the documentation that the code does not keep.               *)

\* Degraded histories fail closed with explicit uncertainty: a live request is
\* refused only for want of a sample or of time, never for what the rows say.
DegradedIsExplicit == response.kind = "refused" => response.why \in {"no sample", "budget"}
====
