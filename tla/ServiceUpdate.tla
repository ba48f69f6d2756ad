---------------------------- MODULE ServiceUpdate ----------------------------
(***************************************************************************)
(* The update of single Compose services: the declared configuration is    *)
(* merged from the compose files, an observation lists the containers and  *)
(* asks the registries for candidate digests under a two-level budget and  *)
(* a shared LRU cache, the planner turns it into a plan for one service,   *)
(* the control plane approves that plan, the final gate re-observes and    *)
(* compares, and the executor's adapter pulls and recreates the approved   *)
(* scope and inspects the result.                                          *)
(*                                                                         *)
(* The owner's observations (for the plan, the approval and the gate)      *)
(* share the cache.  Registries move tags, containers fail and the control *)
(* plane restarts at any time.  The project resolver, the registries,      *)
(* docker and the inspector are ports.                                     *)
(***************************************************************************)
EXTENDS Integers, FiniteSets, SequencesExt

CONSTANTS Services, Images, Digests,
          ComposeFiles,      \* the parsed compose files, in merge order
          Containers,        \* the container tables the model starts from
          Tags,              \* and what the tags resolve to at the start
          ActiveProfiles,    \* COMPOSE_PROFILES, from the environment or .env
          Order,             \* the rank of an image key or a service name
          Known, LocalBuilds,\* what the resolved project says it defines
          None,              \* no value
          Answers,           \* what a registry may answer
          MaxLookups, MaxNetOps, Capacity,
          PositiveTtl, NegativeTtl, Deadline,
          MaxClock,
          MaxEvents          \* pushes, disturbances and restarts

VARIABLES
  clock, remote,     \* time; the digest each tag resolves to
  local,             \* the digest of each tag in the local image store
  cont,              \* the containers
  cache, lru,        \* CandidateCache: entries, and their order of use
  obs,               \* the observation in progress
  flow,              \* the owner's update, from plan to outcome
  exec,              \* the adapter's execution
  served,            \* history: when a registry last served a digest for a key
  events             \* how many outside events have happened

vars == <<clock, remote, local, cont, cache, lru, obs, flow, exec, served, events>>

ASSUME UpdateAssumption ==
  /\ Order \in [Services \cup Images -> Nat]
  /\ Tags \subseteq [Images -> Digests]
  /\ PositiveTtl \in Nat /\ NegativeTtl \in Nat
  /\ Answers \subseteq {"digest", "challenge", "AUTHENTICATION_REQUIRED", "ARCHITECTURE_UNAVAILABLE",
                       "MANIFEST_UNAVAILABLE", "REGISTRY_TIMEOUT", "REGISTRY_UNAVAILABLE", "SSRF_BLOCKED"}

\* Work lists are sorted by name.
First(names) == CHOOSE s \in names : \A t \in names : Order[s] <= Order[t]

(* --------------------- declared configuration -------------------------- *)

\* A field of a service in a file: absent, a plain value, or the value of a
\* !reset or !override tag (None when empty); "bad" is an unsupported type.
NoService == [image |-> None, build |-> FALSE, profiles |-> {}, deps |-> {},
              error |-> FALSE, seen |-> FALSE]

MergeScalar(old, f) == IF f.op = "absent" THEN old ELSE f.val
MergeList(old, f) ==
  CASE f.op = "plain" -> old \cup f.val
    [] f.op = "replace" -> f.val
    [] OTHER -> old

\* A tagged service starts from nothing; an error is final.
MergeService(old, spec) ==
  IF spec.op = "absent" THEN old
  ELSE IF old.error THEN [old EXCEPT !.seen = TRUE]
  ELSE IF spec.op = "bad" THEN [old EXCEPT !.error = TRUE, !.seen = TRUE]
  ELSE LET base == IF spec.op = "replace" THEN NoService ELSE old
       IN [image |-> MergeScalar(base.image, spec.image),
           build |-> MergeScalar(base.build, spec.build),
           profiles |-> MergeList(base.profiles, spec.profiles),
           deps |-> MergeList(base.deps, spec.deps),
           error |-> "bad" \in {spec.image.op, spec.build.op, spec.profiles.op, spec.deps.op},
           seen |-> TRUE]

\* An image that is not a valid reference is an error of the service.
parse_image_reference(image) == IF image = None \/ image.invalid THEN None ELSE image

parse_declared_compose_services ==
  [s \in Services |->
     LET merged[i \in 0 .. Len(ComposeFiles)] ==
           IF i = 0 THEN NoService ELSE MergeService(merged[i - 1], ComposeFiles[i][s])
         m == merged[Len(ComposeFiles)]
     IN [m EXCEPT !.error = @ \/ (m.image # None /\ parse_image_reference(m.image) = None)]]

Declared == parse_declared_compose_services
ImageOf(d) == IF d.error THEN None ELSE parse_image_reference(d.image)
ImageRef(s) == ImageOf(Declared[s])

(* ------------------------------- cache --------------------------------- *)

is_fresh(entry, now) == now - entry.at <= entry.ttl
Budgetary == {"BUDGET_EXHAUSTED", "NETWORK_BUDGET_EXHAUSTED"}

\* Mutant: expiry is not looked at.
GetStale(c, key, now) == IF c[key] = None THEN None ELSE c[key].res

get(c, key, now) ==
  IF c[key] # None /\ is_fresh(c[key], now) THEN c[key].res ELSE None

Touch(order, key) == Append(SelectSeq(order, LAMBDA k : k # key), key)

put(c, order, key, res, negative) ==
  IF res.reason \in Budgetary THEN [c |-> c, order |-> order]
  ELSE LET entry == [res |-> res, at |-> clock,
                     ttl |-> IF negative THEN NegativeTtl ELSE PositiveTtl]
           full == c[key] = None /\ Len(order) >= Capacity
           kept == IF full THEN [c EXCEPT ![Head(order)] = None] ELSE c
       IN [c |-> [kept EXCEPT ![key] = entry],
           order |-> Touch(IF full THEN Tail(order) ELSE order, key)]

(* ---------------------------- observation ------------------------------ *)

Running(table) == {s \in Services : table[s].digest # None}
Inactive(d) == d.profiles # {} /\ d.profiles \cap ActiveProfiles = {}

\* What the running image tells of itself: a repository digest, when it has one.
RepoDigests(table, s) == IF table[s].repo THEN {table[s].digest} ELSE {}

Verdict(status, reason, digest) ==
  [status |-> status, reason |-> reason, digest |-> digest, key |-> None]

PinnedVerdict(digests, pin) ==
  IF digests = {} THEN Verdict("UNKNOWN", "DIGEST_UNAVAILABLE", pin)
  ELSE IF pin \in digests THEN Verdict("CURRENT", "PINNED_BY_DIGEST", pin)
  ELSE Verdict("DRIFT", "CONFIGURATION_DRIFT", pin)

\* The services decided without a registry, and None for the others: d is what
\* is declared of service s, ref its image reference.
FirstPass(table, s, d, ref) ==
  IF s \notin Running(table)
  THEN Verdict("NOT_APPLICABLE",
               IF Inactive(d) THEN "DISABLED_BY_PROFILE" ELSE "NO_RUNNING_CONTAINER", None)
  ELSE IF ~d.seen THEN Verdict("UNKNOWN", "MALFORMED_IMAGE_REFERENCE", None)
  ELSE IF d.build THEN Verdict("NOT_APPLICABLE", "LOCAL_BUILD", None)
  ELSE IF d.error \/ ref = None THEN Verdict("UNKNOWN", "MALFORMED_IMAGE_REFERENCE", None)
  ELSE IF ref.pin # None THEN PinnedVerdict(RepoDigests(table, s), ref.pin)
  ELSE IF table[s].img # ref.key
       THEN [Verdict("DRIFT", "CONFIGURATION_DRIFT", None) EXCEPT !.key = ref.key]
  ELSE None

Decided(table) == [s \in Services |-> FirstPass(table, s, Declared[s], ImageRef(s))]

\* A service that is neither declared nor running is not listed, and is never
\* left to the registry.
Listed(table) == {s \in Services : Declared[s].seen \/ s \in Running(table)}
Sharing(first, key) == {s \in Services : first[s] = None /\ ImageRef(s).key = key}
LookupKeys(first) == {k \in Images : Sharing(first, k) # {}}

\* Fresh in the cache, then running with a repository digest, then the rest.
Tier(table, first, key) ==
  IF get(cache, key, clock) # None THEN 0
  ELSE IF \E s \in Sharing(first, key) : RepoDigests(table, s) # {} THEN 1 ELSE 2

\* The tiers are those at the start of the observation.
Before(j, k, tier) == tier[j] < tier[k] \/ (tier[j] = tier[k] /\ Order[j] < Order[k])
Tiers(table, first) == [k \in Images |-> Tier(table, first, k)]

NoResults == [k \in Images |-> None]
IdleObs == [pc |-> "idle", purpose |-> "none", table |-> None, first |-> None, todo |-> {},
            tier |-> None, results |-> NoResults, since |-> 0, lookups |-> 0, net |-> 0]

Start(purpose) ==
  \E first \in {Decided(cont)} :
    obs' = [IdleObs EXCEPT !.pc = "next", !.purpose = purpose, !.table = cont, !.first = first,
                           !.todo = LookupKeys(first), !.tier = Tiers(cont, first), !.since = clock]

(* ------------------------ scheduler and budget ------------------------- *)

Expired == clock >= obs.since + Deadline

check_logical_lookup ==
  IF Expired THEN "REGISTRY_TIMEOUT"
  ELSE IF obs.lookups >= MaxLookups THEN "BUDGET_EXHAUSTED"
  ELSE IF obs.net >= MaxNetOps THEN "NETWORK_BUDGET_EXHAUSTED"
  ELSE "allowed"

check_network_op ==
  IF Expired THEN "REGISTRY_TIMEOUT"
  ELSE IF obs.net >= MaxNetOps THEN "NETWORK_BUDGET_EXHAUSTED"
  ELSE "allowed"

Result(reason, digest) == [reason |-> reason, digest |-> digest]
Key == CHOOSE k \in obs.todo : \A j \in obs.todo : ~Before(j, k, obs.tier)

\* The scheduler stores the client's result again; only two reasons count as
\* negative for it.
Resolve(res, next) ==
  LET key == Key
      client == put(cache, lru, key, res, res.digest = None)
      both == put(client.c, client.order, key, res,
                  res.reason \in {"REGISTRY_UNAVAILABLE", "REGISTRY_TIMEOUT"})
  IN /\ obs' = [next EXCEPT !.pc = "next", !.todo = @ \ {key}, !.results[key] = res]
     /\ cache' = both.c /\ lru' = both.order

\* A fresh entry costs nothing; a refused lookup yields the refusal.
Lookup ==
  /\ obs.pc = "next" /\ obs.todo # {}
  /\ LET key == Key
         hit == get(cache, key, clock)
         used == IF cache[key] = None THEN lru ELSE Touch(lru, key)
         check == check_logical_lookup
     IN \/ /\ hit # None
           /\ obs' = [obs EXCEPT !.todo = @ \ {key}, !.results[key] = hit]
        \/ /\ hit = None /\ check # "allowed"
           /\ obs' = [obs EXCEPT !.todo = @ \ {key}, !.results[key] = Result(check, None)]
        \/ /\ hit = None /\ check = "allowed"
           /\ obs' = [obs EXCEPT !.lookups = @ + 1, !.pc = "manifest"]
     /\ lru' = used
  /\ UNCHANGED <<clock, remote, local, cont, cache, flow, exec, served, events>>

(* -------------------------- registry client ---------------------------- *)

Recorded == [obs EXCEPT !.net = @ + 1]

\* A request that fails, or whose response is too large, does not count.
Unrecorded == obs

\* The request ends the lookup with a result.  One that raises is not recorded;
\* a status, a body or a realm that is not accepted is judged after the record.
Answered(answer) ==
  CASE answer = "digest" ->
         /\ Resolve(Result("UP_TO_DATE", remote[Key]), Recorded)
         /\ served' = [served EXCEPT ![Key][remote[Key]] = clock]
    [] answer \in {"AUTHENTICATION_REQUIRED", "ARCHITECTURE_UNAVAILABLE"} ->
         Resolve(Result(answer, None), Recorded) /\ UNCHANGED served
    [] answer \in {"MANIFEST_UNAVAILABLE", "REGISTRY_UNAVAILABLE", "SSRF_BLOCKED"} ->
         /\ \E next \in {Recorded, Unrecorded} : Resolve(Result(answer, None), next)
         /\ UNCHANGED served
    [] answer = "REGISTRY_TIMEOUT" ->
         Resolve(Result(answer, None), Unrecorded) /\ UNCHANGED served

\* The token endpoint never answers with a manifest.
Possible == IF obs.pc = "token" THEN Answers \ {"digest", "ARCHITECTURE_UNAVAILABLE"} ELSE Answers

\* Before the first request the client refuses a host that is not safe, and any
\* lookup once its own count of queries is used up: nothing resets that count
\* while the process lives, so here it may be at any value.
Refusals ==
  IF obs.pc = "manifest" THEN {"BUDGET_EXHAUSTED"} \cup (Answers \cap {"SSRF_BLOCKED"}) ELSE {}

Request ==
  LET check == check_network_op
  IN \/ \E reason \in Refusals : Resolve(Result(reason, None), obs) /\ UNCHANGED served
     \/ /\ check # "allowed"
        /\ Resolve(Result(check, None), obs) /\ UNCHANGED served
     \/ /\ check = "allowed"
        /\ \E answer \in Possible \ {"challenge"} : Answered(answer)
     \/ /\ check = "allowed" /\ "challenge" \in Possible /\ obs.pc # "retry"
        /\ obs' = [Recorded EXCEPT !.pc = IF @ = "manifest" THEN "token" ELSE "retry"]
        /\ UNCHANGED <<cache, lru, served>>

\* manifest -> token -> retry: a 401 with a realm costs two more requests.
query_candidate_digest ==
  /\ obs.pc \in {"manifest", "token", "retry"}
  /\ Request
  /\ UNCHANGED <<clock, remote, local, cont, flow, exec, events>>

(* ------------------------------ planner -------------------------------- *)

\* Step 4 of the scheduler: a result, seen from one service.
Projected(view, s) ==
  LET key == ImageRef(s).key
      res == view.results[key]
      rd == RepoDigests(view.table, s)
  IN IF view.first[s] # None THEN view.first[s]
     ELSE [Verdict("UNKNOWN", res.reason, None) EXCEPT !.key = key,
             !.digest = res.digest,
             !.status = IF res.digest = None \/ rd = {} THEN "UNKNOWN"
                        ELSE IF res.digest \in rd THEN "CURRENT" ELSE "UPDATE_AVAILABLE"]

Deps(s) == Declared[s].deps

\* The search finds a cycle exactly when a walk along the dependencies of
\* listed services can go on for ever.
_detect_cycle(view, s) ==
  \E walk \in SUBSET Listed(view.table) :
    s \in walk /\ \A x \in walk : Deps(x) \cap walk # {}

DepBlocked(view, d) ==
  \/ d \notin Listed(view.table)
  \/ view.table[d].state # "running"
  \/ Projected(view, d).status \in {"UNKNOWN", "DRIFT"}
  \/ view.table[d].health = "unhealthy"

Eligible(view, s, v) ==
  /\ s \in Listed(view.table)
  /\ v.status = "UPDATE_AVAILABLE" /\ v.digest # None
  /\ view.table[s].digest # v.digest
  /\ s \in Running(view.table)
  /\ ~_detect_cycle(view, s)
  /\ \A d \in Deps(s) : ~DepBlocked(view, d)

Atomicity(view, s, v) ==
  IF ~Eligible(view, s, v) THEN "blocked"
  ELSE IF \E d \in Deps(s) : Projected(view, d).status = "UPDATE_AVAILABLE" THEN "tight"
  ELSE "leaf"

PlanOf(view, s, v, mode) ==
  [service |-> s, eligible |-> mode # "blocked", current |-> view.table[s].digest,
   target |-> v.digest, key |-> v.key, deps |-> Deps(s), atomicity |-> mode,
   probed |-> view.table[s].health # "none",
   scope |-> IF mode = "leaf" THEN {s} ELSE {s} \cup Deps(s)]

plan_service(view, s) ==
  LET v == Projected(view, s) IN PlanOf(view, s, v, Atomicity(view, s, v))

\* The evidence adds the state of each dependency to the plan.
from_service_plan(view, s) ==
  [plan |-> plan_service(view, s),
   deps |-> [d \in Deps(s) |-> [status |-> Projected(view, d).status,
                                health |-> view.table[d].health, state |-> view.table[d].state]],
   provenance |-> s \in Running(view.table)]

(* --------------------------- approval and gate ------------------------- *)

NoFlow == [stage |-> "idle", service |-> None, presented |-> None, evidence |-> None,
           fresh |-> None, outcome |-> "none"]
NoExec == [pc |-> "off", todo |-> {}, up |-> {}, verified |-> {}]

Complete == obs.pc = "next" /\ obs.todo = {}

\* The owner asks for a plan, approves it, executes it: one observation each.
Observe ==
  /\ obs.pc = "idle"
  /\ \/ /\ flow.stage = "idle"
        /\ \E s \in Services : flow' = [flow EXCEPT !.stage = "planning", !.service = s]
        /\ Start("plan")
     \/ flow.stage = "planned" /\ Start("approve") /\ UNCHANGED flow
     \/ /\ flow.stage = "approved" /\ flow.evidence # None
        /\ Start("gate") /\ UNCHANGED flow
  /\ UNCHANGED <<clock, remote, local, cont, cache, lru, exec, served, events>>

\* After a restart the evidence is gone and execution is refused.
ExecuteWithoutEvidence ==
  /\ flow.stage = "approved" /\ flow.evidence = None /\ obs.pc = "idle"
  /\ flow' = [flow EXCEPT !.stage = "refused"]
  /\ UNCHANGED <<clock, remote, local, cont, cache, lru, obs, exec, served, events>>

\* Mutant: the gate compares the target and the scope only.
VerifyLoose(authorized, fresh) ==
  /\ authorized.plan.target = fresh.plan.target
  /\ authorized.plan.scope = fresh.plan.scope

verify_service_evidence(authorized, fresh) ==
  /\ fresh.provenance
  /\ authorized.plan = fresh.plan
  /\ authorized.deps = fresh.deps

\* plan_service_update, approve_update and the gate, on what they observed.
Advance(purpose, evidence) ==
  \/ /\ purpose = "plan"
     /\ flow' = [flow EXCEPT !.stage = IF evidence.plan.eligible THEN "planned" ELSE "refused",
                             !.presented = evidence.plan]
  \/ /\ purpose = "approve"
     /\ flow' = IF evidence.plan.eligible /\ evidence.plan = flow.presented
                THEN [flow EXCEPT !.stage = "approved", !.evidence = evidence]
                ELSE [flow EXCEPT !.stage = "refused"]
  \/ /\ purpose = "gate"
     /\ flow' = IF verify_service_evidence(flow.evidence, evidence)
                THEN [flow EXCEPT !.stage = "executing", !.fresh = evidence]
                ELSE [flow EXCEPT !.stage = "refused"]

FinishObservation ==
  /\ Complete
  /\ obs' = IdleObs
  /\ Advance(obs.purpose, from_service_plan(obs, flow.service))
  /\ exec' = IF flow'.stage = "executing" /\ flow.stage # "executing"
             THEN [NoExec EXCEPT !.pc = "check", !.todo = flow.evidence.plan.scope]
             ELSE exec
  /\ UNCHANGED <<clock, remote, local, cont, cache, lru, served, events>>

(* ------------------------- execution adapter --------------------------- *)

ExecScope == flow.evidence.plan.scope
TightScope == \E a, b \in ExecScope : a # b

Outcomes(code) ==
  CASE code = "VERIFIED_SUCCESS" -> "succeeded"
    [] code \in {"RECONCILIATION_REQUIRED", "INTERRUPTED"} -> "unknown_outcome"
    [] OTHER -> "failed"

Report(code, e) ==
  /\ flow' = [flow EXCEPT !.stage = "done", !.outcome = Outcomes(code)]
  /\ exec' = [e EXCEPT !.pc = "over"]

\* The inspector observes the service, observes nothing, or raises.
Inspections(s) ==
  {[kind |-> k, state |-> cont[s].state, health |-> cont[s].health] :
     k \in {"observed", "nothing", "raises"}}

Accepts(seen) == seen.kind = "observed" /\ seen.state = "running" /\ seen.health # "unhealthy"

\* Resolution, file and definition checks, then the pre-mutation inspection.
PreMutation ==
  /\ exec.pc = "check"
  /\ LET s == First(exec.todo)
     IN \/ /\ ExecScope \subseteq Known \ LocalBuilds
           /\ \E seen \in Inspections(s) :
                IF seen.kind = "nothing" \/ Accepts(seen)
                THEN /\ exec' = IF exec.todo # {s} THEN [exec EXCEPT !.todo = @ \ {s}]
                                ELSE [exec EXCEPT !.pc = "pull", !.todo = ExecScope]
                     /\ UNCHANGED flow
                ELSE Report(IF seen.kind = "raises" THEN "SUPERVISOR_FAILURE"
                            ELSE "DEPENDENCY_HEALTH_FAILURE", exec)
        \/ Report("EXECUTION_ERROR", exec)
  /\ UNCHANGED <<clock, remote, local, cont, cache, lru, obs, served, events>>

\* docker compose pull resolves the tag again.
Pull ==
  /\ exec.pc = "pull"
  /\ LET s == First(exec.todo)
         key == cont[s].img
     IN \/ /\ local' = [local EXCEPT ![key] = remote[key]]
           /\ exec' = [exec EXCEPT !.pc = "up"] /\ UNCHANGED flow
        \/ /\ Report(IF exec.up # {} THEN "RECONCILIATION_REQUIRED" ELSE "SUPERVISOR_FAILURE", exec)
           /\ UNCHANGED local
        \/ Report("INTERRUPTED", exec) /\ UNCHANGED local
  /\ UNCHANGED <<clock, remote, cont, cache, lru, obs, served, events>>

\* Mutant: a failed up is a plain failure whatever the scope.
UpFailurePlain == "SUPERVISOR_FAILURE"

UpFailure == IF TightScope THEN "RECONCILIATION_REQUIRED" ELSE "SUPERVISOR_FAILURE"

Recreated(s, state) ==
  [cont[s] EXCEPT !.digest = local[cont[s].img], !.repo = TRUE, !.state = state,
                  !.health = IF @ = "unhealthy" THEN "healthy" ELSE @]

AfterUp(e, s) ==
  IF e.todo # {s} THEN [e EXCEPT !.pc = "pull", !.todo = @ \ {s}]
  ELSE [e EXCEPT !.pc = "verify", !.todo = ExecScope]

Up ==
  /\ exec.pc = "up"
  /\ LET s == First(exec.todo)
         touched == [exec EXCEPT !.up = @ \cup {s}]
     IN \/ /\ cont' = [cont EXCEPT ![s] = Recreated(s, "running")]
           /\ exec' = AfterUp(touched, s)
           /\ UNCHANGED flow
        \/ /\ \E c \in {cont[s], Recreated(s, "exited")} : cont' = [cont EXCEPT ![s] = c]
           /\ Report(UpFailure, touched)
        \/ Report("INTERRUPTED", touched) /\ UNCHANGED cont
  /\ UNCHANGED <<clock, remote, local, cache, lru, obs, served, events>>

Passes(seen) == Accepts(seen)

_verify_post_mutation ==
  /\ exec.pc = "verify"
  /\ \E seen \in Inspections(First(exec.todo)) :
       LET s == First(exec.todo)
           passed == [exec EXCEPT !.verified = @ \cup (IF Accepts(seen) THEN {s} ELSE {})]
       IN IF ~Passes(seen)
          THEN Report(IF TightScope /\ exec.verified # {} THEN "RECONCILIATION_REQUIRED"
                      ELSE "SUPERVISOR_FAILURE", exec)
          ELSE IF exec.todo # {s}
          THEN exec' = [passed EXCEPT !.todo = @ \ {s}] /\ UNCHANGED flow
          ELSE Report("VERIFIED_SUCCESS", passed)
  /\ UNCHANGED <<clock, remote, local, cont, cache, lru, obs, served, events>>

(* ----------------------------- environment ----------------------------- *)

Tick ==
  /\ clock < MaxClock /\ clock' = clock + 1
  /\ UNCHANGED <<remote, local, cont, cache, lru, obs, flow, exec, served, events>>

\* A tag is pushed: the old digest was the registry's answer until now.
Publish(key, d) ==
  /\ events < MaxEvents /\ d # remote[key] /\ events' = events + 1
  /\ remote' = [remote EXCEPT ![key] = d]
  /\ served' = [served EXCEPT ![key][remote[key]] = clock]
  /\ UNCHANGED <<clock, local, cont, cache, lru, obs, flow, exec>>

\* A container fails, or someone recreates it by hand.
Disturb(s) ==
  /\ events < MaxEvents /\ cont[s].digest # None /\ events' = events + 1
  /\ \E c \in {[cont[s] EXCEPT !.state = "exited"], [cont[s] EXCEPT !.health = "unhealthy"],
               [cont[s] EXCEPT !.digest = remote[cont[s].img]]} :
       c # cont[s] /\ cont' = [cont EXCEPT ![s] = c]
  /\ UNCHANGED <<clock, remote, local, cache, lru, obs, flow, exec, served>>

\* The control plane loses the cache, the observations and the evidence; an
\* execution under way belongs to the executor process.
Restart ==
  /\ events < MaxEvents /\ events' = events + 1
  /\ flow.stage # "executing"
  /\ cache' = [k \in Images |-> None] /\ lru' = <<>>
  /\ obs' = IdleObs
  /\ flow' = [flow EXCEPT !.evidence = IF flow.stage = "approved" THEN None ELSE @,
                          !.stage = IF @ = "planning" THEN "idle" ELSE @]
  /\ UNCHANGED <<clock, remote, local, cont, exec, served>>

Init ==
  /\ clock = 0 /\ events = 0
  /\ cont \in Containers
  /\ remote \in Tags
  /\ local = [k \in Images |-> None]
  /\ cache = [k \in Images |-> None] /\ lru = <<>>
  /\ obs = IdleObs
  /\ flow = NoFlow /\ exec = NoExec
  /\ served = [k \in Images |-> [d \in Digests |-> -1]]

Next ==
  \/ Tick \/ Restart \/ Observe \/ ExecuteWithoutEvidence
  \/ PreMutation \/ Pull \/ Up \/ _verify_post_mutation
  \/ Lookup \/ query_candidate_digest \/ FinishObservation
  \/ \E k \in Images, d \in Digests : Publish(k, d)
  \/ \E s \in Services : Disturb(s)

Spec == Init /\ [][Next]_vars

(* ------------------------------ properties ----------------------------- *)

\* Cache (cache.py, scheduler.py): the candidate an observation takes for an
\* image was what the registry served no longer ago than the positive TTL,
\* whichever observation filled the cache and however often the tag moved.
CandidateFresh ==
  [][\A k \in Images :
       LET r == obs'.results[k]
       IN r # None /\ r # obs.results[k] /\ r.digest # None =>
            clock - served'[k][r.digest] <= PositiveTtl]_vars

\* Gate (gate.py, service_evidence.py): an execution starts only when, at the
\* gate's own listing, the target still ran the digest the approval saw, its
\* dependencies were running and not unhealthy, and the scope was the same.
StartsAsApproved ==
  [][exec.pc = "off" /\ exec'.pc = "check" =>
       LET view == obs
           approved == flow.evidence.plan
       IN /\ view.table[approved.service].digest = flow.presented.current
          /\ \A d \in approved.deps :
               view.table[d].state = "running" /\ view.table[d].health # "unhealthy"
          /\ exec'.todo \subseteq {approved.service} \cup approved.deps]_vars

\* Adapter (execution_adapter.py): the report is what happened.  A success means
\* that every service of the approved scope was recreated and then inspected as
\* running and healthy; a definitive failure never hides a half-updated group,
\* none or all of the scope was recreated.
ReportIsTruthful ==
  /\ flow.outcome = "succeeded" =>
       exec.up = ExecScope /\ exec.verified = ExecScope
  /\ flow.outcome = "failed" => exec.up \in {{}, ExecScope}

(* -------------- a claim that the code does not keep ------------------- *)

\* Claim of the executor tests: a runtime that differs from the approved
\* digest is caught, so a success runs the approved digest.
ApprovedDigestRuns ==
  [][flow.stage = "executing" /\ flow'.outcome = "succeeded" =>
       cont[flow.service].digest = flow.evidence.plan.target]_vars
=============================================================================
