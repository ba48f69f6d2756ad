----------------------------- MODULE MCAdvisor -----------------------------
(* Two metrics, samples nominally two seconds apart in a window of six, and *)
(* posted requests of up to two observations from a small pool.             *)
EXTENDS Advisor

Row(ok, avail, c, d) == [ok |-> ok, avail |-> avail, val |-> [m \in {"cpu", "disk"} |-> IF m = "cpu" THEN c ELSE d]]
MCContents == {Row(TRUE, TRUE, "high", "high"), Row(TRUE, TRUE, "none", "low"),
               Row(TRUE, FALSE, "none", "none"), Row(FALSE, TRUE, "high", "high")}

Obs(id, source, rtype, rid, state, at, deadline, good, prov, fields) ==
    [n |-> id, id |-> <<id>>, source |-> source, rtype |-> rtype, rid |-> rid, state |-> state, at |-> at,
     deadline |-> deadline, good |-> good, prov |-> prov, fields |-> fields]

Pool == {
    Obs(1, "service_health", "service", "mc3", "unavailable", 0, None, "yes", "none", [service_status |-> "unavailable"]),
    Obs(2, "service_health", "service", "mc3", "observed", 5, None, "yes", "none", [service_status |-> "healthy"]),
    Obs(3, "telemetry", "service", "mc3", "stale", None, None, "yes", "none", << >>),
    Obs(4, "telemetry", "service", "api", "observed", 0, 1, "yes", "unverified", [service_status |-> "healthy"]),
    Obs(5, "telemetry", "host", "host", "invalid", 1, None, "yes", "none", << >>),
    Obs(6, "telemetry", "host", "host", "observed", 9, None, "yes", "none", [cadence_seconds |-> 1]),
    Obs(7, "telemetry", "host", "host", "observed", 0, None, "yes", "none", [cadence_seconds |-> 1]),
    Obs(8, "telemetry", "host", "host", "observed", 5, None, "yes", "verified", [cadence_seconds |-> 1]),
    Obs(9, "history", "resource", "host", "observed", 5, None, "yes", "none",
        [comparison_status |-> "changed", metric |-> "cpu", baseline_value |-> 40, current_value |-> 80]),
    Obs(10, "project", "deployment", "web", "observed", 5, None, "yes", "verified",
        [revision |-> "r1", runtime_confirmation_status |-> "stale", comparison_status |-> "changed",
         baseline_revision |-> "r0", current_revision |-> "r1"]),
    Obs(11, "project", "project", "web", "observed", 5, None, "yes", "none",
        [comparison_status |-> "changed", identity_proven |-> "true", changed_field |-> "dirty",
         health_status |-> "degraded", supporting_evidence_count |-> "2"]),
    Obs(12, "project", "project", "web", "observed", 5, None, "identity", "none", << >>),
    Obs(13, "telemetry", "host", "host", "not_observed", None, None, "content", "none", [retention_status |-> "failed"]),
    Obs(14, "telemetry", "host", "host", "observed", 4, None, "yes", "none", [retention_status |-> "failed"])}

Series(v) == {Obs(20 + k, "history", "host", "host", "observed", 2 * k, None, "yes", "none",
                  [metric |-> "cpu", value |-> IF k = 1 THEN v ELSE "high"]) : k \in 0..3}
Claimed == [rid |-> "host", metric |-> "cpu", complete |-> TRUE,
            points |-> {[id |-> <<20 + k>>, at |-> 2 * k, value |-> "high", state |-> "observed"] : k \in 0..3}]

Posted(observations, envelopes) ==
    [observations |-> observations, envelopes |-> envelopes, expected |-> [s \in {"telemetry"} |-> 1], at |-> 6,
     caller |-> "accepted", form |-> "valid"]
MCRequests == {Posted(S, {}) : S \in UNION {kSubset(k, Pool) : k \in 0..2}}
              \cup {Posted(Series(v) \cup S, {Claimed}) : v \in {"low", "high"}, S \in kSubset(1, Pool) \cup {{}}}
              \cup {[Posted({}, {}) EXCEPT !.caller = "rejected"], [Posted({}, {}) EXCEPT !.form = "malformed"]}
====
