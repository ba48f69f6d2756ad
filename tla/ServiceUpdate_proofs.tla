----------------------- MODULE ServiceUpdate_proofs -----------------------
(* Proofs for ServiceUpdate: for any services, images, compose files, limits *)
(* and lifetimes, a candidate is never older than the positive lifetime, an  *)
(* execution starts from the state that was approved, and its report is what *)
(* happened.                                                                 *)
EXTENDS ServiceUpdate, NaturalsInduction, WellFoundedInduction, TLAPS

-----------------------------------------------------------------------------
(* The inductive invariant.                                                  *)

ObsFields == {"pc", "purpose", "table", "first", "todo", "tier", "results", "since",
              "lookups", "net"}
FlowFields == {"stage", "service", "presented", "evidence", "fresh", "outcome"}
ExecFields == {"pc", "todo", "up", "verified"}

Asking == {"manifest", "token", "retry"}
Busy == {"check", "pull", "up", "verify"}

IsObs(o) ==
  /\ o = [x \in ObsFields |-> o[x]]
  /\ o.results = [k \in Images |-> o.results[k]]

TypeOK ==
  /\ clock \in Nat
  /\ remote \in [Images -> Digests]
  /\ served \in [Images -> [Digests -> Int]]
  /\ cache = [k \in Images |-> cache[k]]
  /\ IsObs(obs)
  /\ flow = [x \in FlowFields |-> flow[x]]
  /\ exec = [x \in ExecFields |-> exec[x]]

\* A digest in the cache has the positive lifetime, and the registry served it
\* when the entry was made or later.
CacheSound ==
  \A k \in Images :
    cache[k] # None /\ cache[k].res.digest # None =>
      /\ cache[k].res.digest \in Digests
      /\ cache[k].ttl = PositiveTtl
      /\ cache[k].at \in 0 .. clock
      /\ cache[k].at <= served[k][cache[k].res.digest]

\* An observation works through the images it has left.
ObsSound ==
  /\ obs.todo \subseteq Images
  /\ obs.pc \in Asking => obs.todo # {}
  /\ obs.pc # "idle" => obs.tier \in [Images -> Nat]

\* What an observation is for fits the stage of the update, and what is approved
\* is the plan that was presented.
Authorised ==
  /\ flow.evidence.plan = flow.presented /\ flow.presented.eligible
  /\ ExecScope # {} /\ ExecScope \subseteq Services

FlowSound ==
  /\ obs.pc # "idle" =>
       \/ obs.purpose = "plan" /\ flow.stage = "planning"
       \/ obs.purpose = "approve" /\ flow.stage = "planned"
       \/ obs.purpose = "gate" /\ flow.stage = "approved" /\ flow.evidence # None
  /\ flow.stage = "approved" /\ flow.evidence # None => Authorised

\* The progress of an execution through its scope.
ExecSound ==
  /\ exec.pc \in Busy \cup {"off", "over"}
  /\ exec.pc \in Busy <=> flow.stage = "executing"
  /\ exec.pc = "over" <=> flow.stage = "done"
  /\ exec.pc \in Busy =>
       /\ Authorised /\ flow.outcome = "none"
       /\ exec.todo # {} /\ exec.todo \subseteq ExecScope
  /\ exec.pc = "off" => flow.outcome = "none"
  /\ exec.pc = "check" => exec.up = {} /\ exec.verified = {}
  /\ exec.pc \in {"pull", "up"} => exec.up = ExecScope \ exec.todo /\ exec.verified = {}
  /\ exec.pc = "verify" => exec.up = ExecScope /\ exec.verified = ExecScope \ exec.todo

IInv == TypeOK /\ CacheSound /\ ObsSound /\ FlowSound /\ ExecSound /\ ReportIsTruthful

-----------------------------------------------------------------------------
(* What the work lists yield.                                                *)

\* A set of numbers has a least one.
LEMMA LeastNumber ==
    ASSUME NEW S, S \subseteq Nat, S # {}
    PROVE  \E x \in S : \A y \in S : x <= y
  <1> DEFINE R == {p \in Nat \X Nat : p[1] < p[2]}
  <1>1. IsWellFoundedOn(R, Nat)
    BY NatLessThanWellFounded DEF OpToRel
  <1>2. PICK x \in S : \A y \in S : <<y, x>> \notin R
    <2> HIDE DEF R
    <2> QED
      BY <1>1, WFMin
  <1>3. \A y \in S : ~(y < x)
    BY <1>2
  <1>4. \A y \in S : x <= y
    BY <1>3
  <1> QED
    BY <1>4

\* The first of some names is one of them.
LEMMA FirstIsMember ==
    ASSUME NEW names, names \subseteq Services, names # {}
    PROVE  First(names) \in names
  <1> DEFINE ranks == {Order[s] : s \in names}
  <1>1. \A s \in names : Order[s] \in Nat
    BY UpdateAssumption
  <1>2. ranks \subseteq Nat /\ ranks # {}
    BY <1>1
  <1>3. PICK x \in ranks : \A y \in ranks : x <= y
    <2> HIDE DEF ranks
    <2> QED
      BY <1>2, LeastNumber
  <1>4. PICK s \in names : x = Order[s]
    BY <1>3
  <1>5. \A t \in names : Order[s] <= Order[t]
    BY <1>3, <1>4
  <1> QED
    BY <1>4, <1>5 DEF First

\* The image an observation is at is one of those it has left.
LEMMA KeyIsMember ==
    ASSUME ObsSound, obs.pc # "idle", obs.todo # {}
    PROVE  Key \in obs.todo /\ Key \in Images
  <1> DEFINE tiers == {obs.tier[k] : k \in obs.todo}
  <1>1. \A k \in obs.todo : k \in Images /\ obs.tier[k] \in Nat /\ Order[k] \in Nat
    BY UpdateAssumption DEF ObsSound
  <1>2. tiers \subseteq Nat /\ tiers # {}
    BY <1>1
  <1>3. PICK x \in tiers : \A y \in tiers : x <= y
    <2> HIDE DEF tiers
    <2> QED
      BY <1>2, LeastNumber
  <1> DEFINE best == {k \in obs.todo : obs.tier[k] = x}
             ranks == {Order[k] : k \in best}
  <1>4. best # {} /\ best \subseteq obs.todo
    BY <1>3
  <1>5. ranks \subseteq Nat /\ ranks # {}
    BY <1>1, <1>4
  <1>6. PICK z \in ranks : \A y \in ranks : z <= y
    <2> HIDE DEF ranks
    <2> QED
      BY <1>5, LeastNumber
  <1>7. PICK k \in best : z = Order[k]
    BY <1>6
  <1>8. ASSUME NEW j \in obs.todo
        PROVE  ~Before(j, k, obs.tier)
    <2>1. obs.tier[k] = x /\ k \in obs.todo /\ x <= obs.tier[j] /\ x \in Nat /\ obs.tier[j] \in Nat
      BY <1>1, <1>2, <1>3, <1>7
    <2>2. obs.tier[j] = x => z <= Order[j]
      BY <1>6
    <2> QED
      BY <1>1, <1>7, <2>1, <2>2 DEF Before
  <1>9. k \in obs.todo
    BY <1>7
  <1> QED
    BY <1>1, <1>8, <1>9 DEF Key

-----------------------------------------------------------------------------
(* The cache.                                                                *)

Entry(res, ttl) == [res |-> res, at |-> clock, ttl |-> ttl]
Lifetime(negative) == IF negative THEN NegativeTtl ELSE PositiveTtl

\* put stores one entry and may evict another.
LEMMA PutFacts ==
    ASSUME NEW c, c = [k \in Images |-> c[k]], NEW order, NEW key \in Images, NEW res,
           NEW negative \in BOOLEAN, NEW p, p = put(c, order, key, res, negative).c
    PROVE  /\ p = [k \in Images |-> p[k]]
           /\ \A k \in Images : \/ p[k] = c[k] \/ p[k] = None
                                \/ k = key /\ p[k] = Entry(res, Lifetime(negative))
  <1>1. CASE res.reason \in Budgetary
    BY <1>1 DEF put
  <1>2. CASE res.reason \notin Budgetary
    <2> DEFINE full == c[key] = None /\ Len(order) >= Capacity
               kept == IF full THEN [c EXCEPT ![Head(order)] = None] ELSE c
    <2>1. p = [kept EXCEPT ![key] = Entry(res, Lifetime(negative))]
      BY <1>2 DEF put, Entry, Lifetime
    <2>2. kept = [k \in Images |-> kept[k]] /\ \A k \in Images : kept[k] = c[k] \/ kept[k] = None
      OBVIOUS
    <2> HIDE DEF kept
    <2> QED
      BY <2>1, <2>2
  <1> QED
    BY <1>1, <1>2

\* The end of a lookup, for the cache: whoever stores it, a digest lives as long
\* as the positive lifetime says.
LEMMA ResolveCache ==
    ASSUME TypeOK, Key \in Images, NEW reason, NEW digest, NEW next, IsObs(next),
           Resolve(Result(reason, digest), next), digest # None => reason = "UP_TO_DATE"
    PROVE  /\ cache' = [k \in Images |-> cache'[k]]
           /\ \A k \in Images :
                \/ cache'[k] = cache[k] \/ cache'[k] = None
                \/ /\ k = Key /\ cache'[k].res.digest = digest /\ cache'[k].at = clock
                   /\ digest # None => cache'[k].ttl = PositiveTtl
  <1> DEFINE res == Result(reason, digest)
             client == put(cache, lru, Key, res, res.digest = None)
             late == res.reason \in {"REGISTRY_UNAVAILABLE", "REGISTRY_TIMEOUT"}
             both == put(client.c, client.order, Key, res, late)
             mid == client.c
  <1>1. cache' = both.c
    BY DEF Resolve
  <1>2. res.digest = digest /\ res.reason = reason
    BY DEF Result
  <1>3. cache = [k \in Images |-> cache[k]]
    BY DEF TypeOK
  <1> DEFINE none == res.digest = None
  <1>4. none \in BOOLEAN /\ late \in BOOLEAN /\ (digest # None => ~none /\ ~late)
    BY <1>2
  <1>5. mid = put(cache, lru, Key, res, none).c
    OBVIOUS
  <1>6. cache' = put(mid, client.order, Key, res, late).c
    BY <1>1
  <1> DEFINE order == client.order
  <1> HIDE DEF client, both, none, late, mid, res, order
  <1>7. /\ mid = [k \in Images |-> mid[k]]
        /\ \A k \in Images : \/ mid[k] = cache[k] \/ mid[k] = None
                             \/ k = Key /\ mid[k] = Entry(res, Lifetime(none))
    BY <1>3, <1>4, <1>5, PutFacts
  <1>8. /\ cache' = [k \in Images |-> cache'[k]]
        /\ \A k \in Images : \/ cache'[k] = mid[k] \/ cache'[k] = None
                             \/ k = Key /\ cache'[k] = Entry(res, Lifetime(late))
    BY <1>4, <1>6, <1>7, PutFacts
  <1>9. ASSUME NEW ttl
        PROVE  Entry(res, ttl).res = res /\ Entry(res, ttl).at = clock /\ Entry(res, ttl).ttl = ttl
    BY DEF Entry
  <1>10. digest # None => Lifetime(none) = PositiveTtl /\ Lifetime(late) = PositiveTtl
    BY <1>4 DEF Lifetime
  <1> QED
    BY <1>2, <1>7, <1>8, <1>9, <1>10

\* The end of a lookup, for the observation.
LEMMA ResolveObs ==
    ASSUME NEW res, NEW next, IsObs(next), Resolve(res, next)
    PROVE  /\ IsObs(obs') /\ obs'.pc = "next" /\ obs'.todo = next.todo \ {Key}
           /\ obs'.purpose = next.purpose /\ obs'.tier = next.tier
           /\ obs'.results = [next.results EXCEPT ![Key] = res]
  <1>1. obs' = [next EXCEPT !.pc = "next", !.todo = @ \ {Key}, !.results[Key] = res]
    BY DEF Resolve
  <1> QED
    BY <1>1 DEF IsObs, ObsFields

\* The registry's answers only make what it served later.
LEMMA CacheStep ==
    ASSUME IInv, clock' = clock, remote' = remote, served' \in [Images -> [Digests -> Int]],
           \A k \in Images, d \in Digests : served'[k][d] \in {served[k][d], clock},
           \A k \in Images :
             \/ cache'[k] = cache[k] \/ cache'[k] = None
             \/ /\ cache'[k].at = clock
                /\ cache'[k].res.digest # None =>
                     /\ cache'[k].ttl = PositiveTtl /\ cache'[k].res.digest \in Digests
                     /\ served'[k][cache'[k].res.digest] = clock
    PROVE  CacheSound'
  <1> SUFFICES ASSUME NEW k \in Images, cache'[k] # None, cache'[k].res.digest # None
               PROVE  /\ cache'[k].res.digest \in Digests
                      /\ cache'[k].ttl = PositiveTtl
                      /\ cache'[k].at \in 0 .. clock
                      /\ cache'[k].at <= served'[k][cache'[k].res.digest]
    BY DEF CacheSound
  <1>1. clock \in Nat /\ served \in [Images -> [Digests -> Int]]
    BY DEF IInv, TypeOK
  <1>2. CASE cache'[k] = cache[k]
    <2> DEFINE d == cache[k].res.digest
    <2>1. /\ d \in Digests /\ cache[k].ttl = PositiveTtl /\ cache[k].at \in 0 .. clock
          /\ cache[k].at <= served[k][d]
      BY <1>2 DEF IInv, CacheSound
    <2> HIDE DEF d
    <2>2. served'[k][d] = served[k][d] \/ served'[k][d] = clock
      BY <2>1
    <2>3. cache[k].at <= served'[k][d]
      BY <1>1, <2>1, <2>2
    <2> QED
      BY <1>2, <2>1, <2>3 DEF d
  <1>3. CASE cache'[k] # cache[k]
    BY <1>1, <1>3
  <1> QED
    BY <1>2, <1>3

-----------------------------------------------------------------------------
(* Observations.                                                             *)

\* An observation goes on: the update and its execution are as they were.
LEMMA ObsStep ==
    ASSUME IInv, TypeOK', CacheSound', UNCHANGED <<flow, exec>>,
           obs'.todo \subseteq obs.todo, obs'.pc \in Asking \cup {"next"},
           obs'.pc \in Asking => obs'.todo # {},
           obs.pc # "idle", obs'.purpose = obs.purpose, obs'.tier = obs.tier
    PROVE  IInv'
  <1>1. ObsSound'
    BY DEF IInv, ObsSound, Asking
  <1>2. FlowSound'
    BY DEF IInv, FlowSound, Authorised, ExecScope
  <1>3. ExecSound' /\ ReportIsTruthful'
    BY DEF IInv, ExecSound, ReportIsTruthful, Authorised, ExecScope
  <1> QED
    BY <1>1, <1>2, <1>3 DEF IInv

\* The scheduler looks an image up.
LEMMA LookupStep ==
    ASSUME IInv, Lookup
    PROVE  IInv'
  <1> DEFINE hit == get(cache, Key, clock)
             check == check_logical_lookup
  <1>1. /\ obs.pc = "next" /\ obs.todo # {} /\ TypeOK /\ ObsSound /\ IsObs(obs)
        /\ UNCHANGED <<clock, remote, cache, flow, exec, served>>
    BY DEF Lookup, IInv, TypeOK
  <1>2. Key \in obs.todo
    BY <1>1, KeyIsMember
  <1>3. \/ obs' = [obs EXCEPT !.todo = @ \ {Key}, !.results[Key] = hit]
        \/ obs' = [obs EXCEPT !.todo = @ \ {Key}, !.results[Key] = Result(check, None)]
        \/ obs' = [obs EXCEPT !.lookups = @ + 1, !.pc = "manifest"]
    BY DEF Lookup
  <1>4. ASSUME NEW res, obs' = [obs EXCEPT !.todo = @ \ {Key}, !.results[Key] = res]
        PROVE  /\ IsObs(obs') /\ obs'.todo \subseteq obs.todo /\ obs'.pc = "next"
               /\ obs'.purpose = obs.purpose /\ obs'.tier = obs.tier
    BY <1>1, <1>4 DEF IsObs, ObsFields
  <1>5. ASSUME obs' = [obs EXCEPT !.lookups = @ + 1, !.pc = "manifest"]
        PROVE  /\ IsObs(obs') /\ obs'.todo = obs.todo /\ obs'.pc = "manifest"
               /\ obs'.purpose = obs.purpose /\ obs'.tier = obs.tier
    BY <1>1, <1>5 DEF IsObs, ObsFields
  <1> HIDE DEF hit, check
  <1>6. /\ IsObs(obs') /\ obs'.todo \subseteq obs.todo /\ obs'.pc \in {"next", "manifest"}
        /\ obs'.purpose = obs.purpose /\ obs'.tier = obs.tier
        /\ obs'.pc \in Asking => obs'.todo # {}
    BY <1>1, <1>3, <1>4, <1>5 DEF Asking
  <1>7. TypeOK'
    BY <1>1, <1>6 DEF TypeOK
  <1>8. CacheSound'
    BY <1>1 DEF IInv, CacheSound
  <1> QED
    BY <1>1, <1>6, <1>7, <1>8, ObsStep DEF Asking

\* What a request may lead to: a result, or the next request of a challenge.
Ended(reason, digest) ==
  /\ \E next \in {Recorded, obs} : Resolve(Result(reason, digest), next)
  /\ \/ digest = None /\ UNCHANGED served
     \/ /\ reason = "UP_TO_DATE" /\ digest = remote[Key]
        /\ served' = [served EXCEPT ![Key][remote[Key]] = clock]

Challenged ==
  /\ \E pc \in {"token", "retry"} : obs' = [Recorded EXCEPT !.pc = pc]
  /\ UNCHANGED <<cache, lru, served>>

\* Every answer is one of these.
LEMMA RequestCases ==
    ASSUME Request
    PROVE  (\E reason, digest : Ended(reason, digest)) \/ Challenged
  <1> DEFINE check == check_network_op
  <1>1. CASE Resolve(Result(check, None), obs) /\ UNCHANGED served
    <2> HIDE DEF check
    <2> QED
      BY <1>1 DEF Ended
  <1>2. CASE \E reason \in Refusals : Resolve(Result(reason, None), obs) /\ UNCHANGED served
    BY <1>2 DEF Ended
  <1>3. CASE \E answer \in Possible \ {"challenge"} : Answered(answer)
    <2>1. PICK answer \in Possible \ {"challenge"} : Answered(answer)
      BY <1>3
    <2> USE DEF Ended
    <2>2. CASE answer = "digest"
      BY <2>1, <2>2 DEF Answered
    <2>3. CASE answer \in {"AUTHENTICATION_REQUIRED", "ARCHITECTURE_UNAVAILABLE"}
      BY <2>1, <2>3 DEF Answered
    <2>4. CASE answer \in {"MANIFEST_UNAVAILABLE", "REGISTRY_UNAVAILABLE", "SSRF_BLOCKED"}
      BY <2>1, <2>4 DEF Answered, Unrecorded
    <2>5. CASE answer = "REGISTRY_TIMEOUT"
      BY <2>1, <2>5 DEF Answered, Unrecorded
    <2>6. answer \in Answers \ {"challenge"}
      BY <2>1 DEF Possible
    <2> QED
      BY <2>2, <2>3, <2>4, <2>5, <2>6, UpdateAssumption
  <1>4. CASE /\ obs' = [Recorded EXCEPT !.pc = IF @ = "manifest" THEN "token" ELSE "retry"]
             /\ UNCHANGED <<cache, lru, served>>
    BY <1>4 DEF Challenged
  <1> QED
    BY <1>1, <1>2, <1>3, <1>4 DEF Request

\* The record of a request.
LEMMA RecordedFacts ==
    ASSUME IsObs(obs)
    PROVE  /\ IsObs(Recorded) /\ Recorded.todo = obs.todo /\ Recorded.purpose = obs.purpose
           /\ Recorded.tier = obs.tier /\ Recorded.results = obs.results
  BY DEF IsObs, ObsFields, Recorded

\* How a lookup leaves the observation, the cache and what was served.
EndedResult(reason, digest) ==
  /\ Key \in Images /\ IsObs(obs') /\ obs'.pc = "next" /\ obs'.todo = obs.todo \ {Key}
  /\ obs'.purpose = obs.purpose /\ obs'.tier = obs.tier
  /\ obs'.results = [obs.results EXCEPT ![Key] = Result(reason, digest)]
  /\ served' \in [Images -> [Digests -> Int]]
  /\ \A k \in Images, d \in Digests : served'[k][d] \in {served[k][d], clock}
  /\ digest # None => digest \in Digests /\ served'[Key][digest] = clock
  /\ cache' = [k \in Images |-> cache'[k]]
  /\ \A k \in Images :
       \/ cache'[k] = cache[k] \/ cache'[k] = None
       \/ /\ k = Key /\ cache'[k].res.digest = digest /\ cache'[k].at = clock
          /\ digest # None => cache'[k].ttl = PositiveTtl

\* A lookup ends: what the registry serves is noted with the entry.
LEMMA EndedFacts ==
    ASSUME IInv, obs.pc \in Asking, NEW reason, NEW digest, Ended(reason, digest)
    PROVE  EndedResult(reason, digest)
  <1>1. TypeOK /\ ObsSound /\ IsObs(obs) /\ obs.todo # {} /\ obs.pc # "idle"
    BY DEF IInv, TypeOK, ObsSound, Asking
  <1>2. Key \in Images
    BY <1>1, KeyIsMember
  <1>3. PICK next \in {Recorded, obs} : Resolve(Result(reason, digest), next)
    BY DEF Ended
  <1>4. /\ IsObs(next) /\ next.todo = obs.todo /\ next.purpose = obs.purpose
        /\ next.tier = obs.tier /\ next.results = obs.results
    BY <1>1, RecordedFacts
  <1>5. digest # None => reason = "UP_TO_DATE"
    BY DEF Ended
  <1>6. /\ IsObs(obs') /\ obs'.pc = "next" /\ obs'.todo = next.todo \ {Key}
        /\ obs'.purpose = next.purpose /\ obs'.tier = next.tier
        /\ obs'.results = [next.results EXCEPT ![Key] = Result(reason, digest)]
    BY <1>3, <1>4, ResolveObs
  <1>7. /\ cache' = [k \in Images |-> cache'[k]]
        /\ \A k \in Images :
             \/ cache'[k] = cache[k] \/ cache'[k] = None
             \/ /\ k = Key /\ cache'[k].res.digest = digest /\ cache'[k].at = clock
                /\ digest # None => cache'[k].ttl = PositiveTtl
    BY <1>1, <1>2, <1>3, <1>4, <1>5, ResolveCache
  <1>8. /\ served' \in [Images -> [Digests -> Int]]
        /\ \A k \in Images, d \in Digests : served'[k][d] \in {served[k][d], clock}
        /\ digest # None => digest \in Digests /\ served'[Key][digest] = clock
    <2>1. /\ clock \in Nat /\ remote \in [Images -> Digests] /\ remote[Key] \in Digests
          /\ served \in [Images -> [Digests -> Int]]
      BY <1>1, <1>2 DEF TypeOK
    <2>2. CASE digest = None /\ UNCHANGED served
      BY <2>1, <2>2
    <2>3. CASE digest = remote[Key] /\ served' = [served EXCEPT ![Key][remote[Key]] = clock]
      BY <1>2, <2>1, <2>3
    <2> QED
      BY <2>2, <2>3 DEF Ended
  <1> QED
    BY <1>2, <1>4, <1>6, <1>7, <1>8 DEF EndedResult

\* The registry client asks.
LEMMA QueryStep ==
    ASSUME IInv, query_candidate_digest
    PROVE  IInv'
  <1>1. /\ obs.pc \in Asking /\ TypeOK /\ ObsSound /\ IsObs(obs) /\ obs.todo # {} /\ obs.pc # "idle"
        /\ UNCHANGED <<clock, remote, flow, exec>>
    BY DEF query_candidate_digest, Asking, IInv, TypeOK, ObsSound
  <1>2. ASSUME NEW reason, NEW digest, Ended(reason, digest)
        PROVE  IInv'
    <2>1. EndedResult(reason, digest)
      BY <1>1, <1>2, EndedFacts
    <2>2. CacheSound'
      <3>1. /\ served' \in [Images -> [Digests -> Int]]
            /\ \A k \in Images, d \in Digests : served'[k][d] \in {served[k][d], clock}
            /\ \A k \in Images :
                 \/ cache'[k] = cache[k] \/ cache'[k] = None
                 \/ /\ cache'[k].at = clock
                    /\ cache'[k].res.digest # None =>
                         /\ cache'[k].ttl = PositiveTtl /\ cache'[k].res.digest \in Digests
                         /\ served'[k][cache'[k].res.digest] = clock
        BY <2>1 DEF EndedResult
      <3> QED
        BY <1>1, <3>1, CacheStep
    <2>3. TypeOK'
      BY <1>1, <2>1 DEF TypeOK, EndedResult
    <2>4. /\ obs'.pc = "next" /\ obs'.todo \subseteq obs.todo
          /\ obs'.purpose = obs.purpose /\ obs'.tier = obs.tier
      BY <2>1 DEF EndedResult
    <2> QED
      BY <1>1, <2>2, <2>3, <2>4, ObsStep DEF Asking
  <1>3. CASE Challenged
    <2>1. PICK pc \in {"token", "retry"} : obs' = [Recorded EXCEPT !.pc = pc]
      BY <1>3 DEF Challenged
    <2>2. /\ IsObs(obs') /\ obs'.pc = pc /\ obs'.todo = obs.todo
          /\ obs'.purpose = obs.purpose /\ obs'.tier = obs.tier
      <3>1. /\ IsObs(Recorded) /\ Recorded.todo = obs.todo /\ Recorded.purpose = obs.purpose
            /\ Recorded.tier = obs.tier
        BY <1>1, RecordedFacts
      <3> QED
        BY <2>1, <3>1 DEF IsObs, ObsFields
    <2>3. UNCHANGED <<clock, remote, cache, served, flow, exec>>
      BY <1>1, <1>3 DEF Challenged
    <2>4. TypeOK' /\ CacheSound'
      BY <2>2, <2>3 DEF IInv, TypeOK, CacheSound
    <2> QED
      BY <1>1, <2>1, <2>2, <2>3, <2>4, ObsStep DEF Asking
  <1>4. Request
    BY DEF query_candidate_digest
  <1> QED
    BY <1>2, <1>3, <1>4, RequestCases

\* An observation starts.
LEMMA StartFacts ==
    ASSUME NEW purpose, Start(purpose)
    PROVE  /\ IsObs(obs') /\ obs'.pc = "next" /\ obs'.purpose = purpose
           /\ obs'.todo \subseteq Images /\ obs'.tier \in [Images -> Nat]
  <1>1. PICK first : obs' = [IdleObs EXCEPT !.pc = "next", !.purpose = purpose, !.table = cont,
                               !.first = first, !.todo = LookupKeys(first),
                               !.tier = Tiers(cont, first), !.since = clock]
    BY DEF Start
  <1> DEFINE todo == LookupKeys(first)
             tier == Tiers(cont, first)
  <1>2. todo \subseteq Images /\ tier \in [Images -> Nat]
    BY DEF LookupKeys, Tiers, Tier
  <1>3. IsObs(IdleObs)
    BY DEF IsObs, IdleObs, ObsFields, NoResults
  <1> HIDE DEF todo, tier
  <1>4. obs' = [IdleObs EXCEPT !.pc = "next", !.purpose = purpose, !.table = cont, !.first = first,
                  !.todo = todo, !.tier = tier, !.since = clock]
    BY <1>1 DEF todo, tier
  <1> QED
    BY <1>2, <1>3, <1>4 DEF IsObs, ObsFields

-----------------------------------------------------------------------------
(* From plan to execution.                                                   *)

\* No observation.
LEMMA IdleObsFacts == IsObs(IdleObs) /\ IdleObs.pc = "idle" /\ IdleObs.todo = {}
  BY DEF IsObs, IdleObs, ObsFields, NoResults

\* What a plan says of the state it was made from.
LEMMA PlanFacts ==
    ASSUME NEW view, NEW s, NEW e, e = from_service_plan(view, s)
    PROVE  /\ e.plan.service = s /\ e.plan.current = view.table[s].digest /\ e.plan.deps = Deps(s)
           /\ e.plan.scope # {} /\ e.plan.scope \subseteq {s} \cup Deps(s)
           /\ e.plan.eligible =>
                /\ e.plan.scope \subseteq Services
                /\ \A d \in Deps(s) :
                     view.table[d].state = "running" /\ view.table[d].health # "unhealthy"
  <1> DEFINE v == Projected(view, s)
             mode == Atomicity(view, s, v)
  <1>1. e.plan = PlanOf(view, s, v, mode)
    BY DEF from_service_plan, plan_service
  <1>2. mode # "blocked" => Eligible(view, s, v)
    BY DEF Atomicity
  <1> HIDE DEF v, mode
  <1>3. /\ e.plan.service = s /\ e.plan.current = view.table[s].digest /\ e.plan.deps = Deps(s)
        /\ e.plan.eligible = (mode # "blocked")
        /\ e.plan.scope = IF mode = "leaf" THEN {s} ELSE {s} \cup Deps(s)
    BY <1>1 DEF PlanOf
  <1>4. Eligible(view, s, v) =>
          /\ s \in Services
          /\ \A d \in Deps(s) : /\ d \in Services
                                /\ view.table[d].state = "running" /\ view.table[d].health # "unhealthy"
    BY DEF Eligible, DepBlocked, Listed
  <1> QED
    BY <1>2, <1>3, <1>4

\* The owner asks for an observation.
LEMMA ObserveStep ==
    ASSUME IInv, Observe
    PROVE  IInv'
  <1>1. /\ obs.pc = "idle" /\ UNCHANGED <<clock, remote, cache, exec, served>> /\ TypeOK
    BY DEF Observe, IInv
  <1>2. PICK purpose : /\ Start(purpose)
                       /\ \/ /\ purpose = "plan" /\ flow.stage = "idle"
                             /\ \E s \in Services :
                                  flow' = [flow EXCEPT !.stage = "planning", !.service = s]
                          \/ purpose = "approve" /\ flow.stage = "planned" /\ flow' = flow
                          \/ /\ purpose = "gate" /\ flow.stage = "approved" /\ flow.evidence # None
                             /\ flow' = flow
    BY DEF Observe
  <1>3. /\ IsObs(obs') /\ obs'.pc = "next" /\ obs'.purpose = purpose
        /\ obs'.todo \subseteq Images /\ obs'.tier \in [Images -> Nat]
    BY <1>2, StartFacts
  <1>4. /\ flow' = [x \in FlowFields |-> flow'[x]] /\ flow'.evidence = flow.evidence
        /\ flow'.presented = flow.presented /\ flow'.outcome = flow.outcome
        /\ \/ purpose = "plan" /\ flow.stage = "idle" /\ flow'.stage = "planning"
           \/ purpose = "approve" /\ flow.stage = "planned" /\ flow'.stage = "planned"
           \/ /\ purpose = "gate" /\ flow.stage = "approved" /\ flow'.stage = "approved"
              /\ flow.evidence # None
    BY <1>1, <1>2 DEF TypeOK, FlowFields
  <1>5. Authorised' <=> Authorised
    BY <1>4 DEF Authorised, ExecScope
  <1>6. TypeOK' /\ CacheSound' /\ ObsSound'
    BY <1>1, <1>3, <1>4 DEF IInv, TypeOK, CacheSound, ObsSound, Asking
  <1>7. FlowSound'
    BY <1>3, <1>4, <1>5 DEF IInv, FlowSound
  <1>8. ExecSound' /\ ReportIsTruthful'
    BY <1>1, <1>4, <1>5 DEF IInv, ExecSound, ReportIsTruthful, ExecScope, Busy
  <1> QED
    BY <1>6, <1>7, <1>8 DEF IInv

\* What the owner's observation decides.
LEMMA FinishStep ==
    ASSUME IInv, FinishObservation
    PROVE  IInv'
  <1> DEFINE e == from_service_plan(obs, flow.service)
  <1>1. /\ obs.pc = "next" /\ obs' = IdleObs /\ UNCHANGED <<clock, remote, cache, served>> /\ TypeOK
        /\ Advance(obs.purpose, e)
        /\ exec' = IF flow'.stage = "executing" /\ flow.stage # "executing"
                   THEN [NoExec EXCEPT !.pc = "check", !.todo = flow.evidence.plan.scope]
                   ELSE exec
    BY DEF FinishObservation, Complete, IInv
  <1>2. /\ e.plan.scope # {} /\ (e.plan.eligible => e.plan.scope \subseteq Services)
    BY PlanFacts
  <1> HIDE DEF e
  <1>3. obs'.pc = "idle" /\ ObsSound' /\ IsObs(obs')
    BY <1>1, IdleObsFacts DEF ObsSound, Asking
  <1>4. /\ flow = [x \in FlowFields |-> flow[x]] /\ flow.stage # "executing" /\ flow.stage # "done"
        /\ exec.pc = "off" /\ flow.outcome = "none"
    BY <1>1 DEF TypeOK, IInv, FlowSound, ExecSound, Busy
  <1>5. CASE \/ obs.purpose = "plan"
             \/ obs.purpose = "approve"
             \/ obs.purpose = "gate" /\ ~verify_service_evidence(flow.evidence, e)
    <2>1. /\ flow' = [x \in FlowFields |-> flow'[x]] /\ flow'.outcome = flow.outcome
          /\ flow'.stage \in {"planned", "approved", "refused"}
          /\ flow'.stage = "approved" =>
               /\ flow'.evidence = e /\ flow'.presented = flow.presented
               /\ e.plan.eligible /\ e.plan = flow.presented
      <3>1. CASE obs.purpose = "plan"
        BY <1>1, <1>4, <3>1 DEF Advance, FlowFields
      <3>2. CASE obs.purpose = "approve"
        BY <1>1, <1>4, <3>2 DEF Advance, FlowFields
      <3>3. CASE obs.purpose = "gate" /\ ~verify_service_evidence(flow.evidence, e)
        BY <1>1, <1>4, <3>3 DEF Advance, FlowFields
      <3> QED
        BY <1>5, <3>1, <3>2, <3>3
    <2>2. exec' = exec
      BY <1>1, <2>1
    <2>3. flow'.stage = "approved" => Authorised'
      BY <1>2, <2>1 DEF Authorised, ExecScope
    <2>4. TypeOK' /\ CacheSound'
      BY <1>1, <1>3, <2>1, <2>2 DEF IInv, TypeOK, CacheSound
    <2>5. FlowSound' /\ ExecSound' /\ ReportIsTruthful'
      BY <1>3, <1>4, <2>1, <2>2, <2>3 DEF FlowSound, ExecSound, ReportIsTruthful, Busy
    <2> QED
      BY <1>3, <2>4, <2>5 DEF IInv
  <1>6. CASE obs.purpose = "gate" /\ verify_service_evidence(flow.evidence, e)
    <2>1. flow' = [flow EXCEPT !.stage = "executing", !.fresh = e]
      BY <1>1, <1>6 DEF Advance
    <2>2. /\ flow' = [x \in FlowFields |-> flow'[x]] /\ flow'.outcome = "none"
          /\ flow'.stage = "executing" /\ flow'.evidence = flow.evidence
          /\ flow'.presented = flow.presented
      BY <1>4, <2>1 DEF FlowFields
    <2>3. /\ exec' = [x \in ExecFields |-> exec'[x]] /\ exec'.pc = "check" /\ exec'.todo = ExecScope
          /\ exec'.up = {} /\ exec'.verified = {}
      BY <1>1, <1>4, <2>2 DEF ExecScope, NoExec, ExecFields
    <2>4. Authorised' /\ ExecScope' = ExecScope /\ ExecScope # {}
      BY <1>1, <1>6, <2>2 DEF IInv, FlowSound, Authorised, ExecScope
    <2>5. TypeOK' /\ CacheSound'
      BY <1>1, <1>3, <2>2, <2>3 DEF IInv, TypeOK, CacheSound
    <2>6. FlowSound' /\ ExecSound' /\ ReportIsTruthful'
      BY <1>3, <2>2, <2>3, <2>4 DEF FlowSound, ExecSound, ReportIsTruthful, Busy
    <2> QED
      BY <1>3, <2>5, <2>6 DEF IInv
  <1> QED
    BY <1>1, <1>5, <1>6 DEF IInv, FlowSound

-----------------------------------------------------------------------------
(* The execution adapter.                                                    *)

IsExec(e) == e = [x \in ExecFields |-> e[x]]

\* The service an execution is at belongs to the approved scope.
LEMMA ServiceInHand ==
    ASSUME IInv, exec.pc \in Busy
    PROVE  /\ First(exec.todo) \in exec.todo /\ exec.todo \subseteq ExecScope
           /\ IsExec(exec) /\ obs.pc = "idle" /\ flow.stage = "executing"
  <1>1. exec.todo # {} /\ exec.todo \subseteq ExecScope /\ ExecScope \subseteq Services
    BY DEF IInv, ExecSound, Authorised
  <1>2. First(exec.todo) \in exec.todo
    BY <1>1, FirstIsMember
  <1>3. flow.stage = "executing" /\ obs.pc = "idle"
    BY DEF IInv, ExecSound, FlowSound
  <1> QED
    BY <1>1, <1>2, <1>3 DEF IInv, TypeOK, IsExec

\* An execution ends with a report that is what happened.
LEMMA ReportStep ==
    ASSUME IInv, exec.pc \in Busy, NEW code, NEW e, IsExec(e), Report(code, e),
           UNCHANGED <<clock, remote, cache, obs, served>>,
           Outcomes(code) = "succeeded" => e.up = ExecScope /\ e.verified = ExecScope,
           Outcomes(code) = "failed" => e.up \in {{}, ExecScope}
    PROVE  IInv'
  <1>1. TypeOK /\ obs.pc = "idle"
    BY ServiceInHand DEF IInv
  <1>2. /\ flow' = [x \in FlowFields |-> flow'[x]] /\ flow'.stage = "done"
        /\ flow'.outcome = Outcomes(code) /\ flow'.evidence = flow.evidence
    BY <1>1 DEF Report, TypeOK, FlowFields
  <1>3. /\ exec' = [x \in ExecFields |-> exec'[x]] /\ exec'.pc = "over"
        /\ exec'.up = e.up /\ exec'.verified = e.verified
    BY DEF Report, IsExec, ExecFields
  <1>4. TypeOK' /\ CacheSound' /\ ObsSound'
    BY <1>1, <1>2, <1>3 DEF IInv, TypeOK, CacheSound, ObsSound
  <1>5. FlowSound' /\ ExecSound'
    BY <1>1, <1>2, <1>3 DEF FlowSound, ExecSound, Busy
  <1>6. ReportIsTruthful'
    BY <1>2, <1>3 DEF ReportIsTruthful, ExecScope
  <1> QED
    BY <1>4, <1>5, <1>6 DEF IInv

\* An execution goes on.
LEMMA GoOnStep ==
    ASSUME IInv, exec.pc \in Busy, IsExec(exec'), exec'.pc \in Busy,
           UNCHANGED <<clock, remote, cache, obs, served, flow>>,
           exec'.todo # {} /\ exec'.todo \subseteq ExecScope,
           exec'.pc = "check" => exec'.up = {} /\ exec'.verified = {},
           exec'.pc \in {"pull", "up"} =>
             exec'.up = ExecScope \ exec'.todo /\ exec'.verified = {},
           exec'.pc = "verify" =>
             exec'.up = ExecScope /\ exec'.verified = ExecScope \ exec'.todo
    PROVE  IInv'
  <1>1. TypeOK' /\ CacheSound' /\ ObsSound'
    BY DEF IInv, TypeOK, CacheSound, ObsSound, IsExec
  <1>2. ExecScope' = ExecScope /\ (Authorised' <=> Authorised)
    BY DEF ExecScope, Authorised
  <1>3. FlowSound'
    BY <1>2 DEF IInv, FlowSound
  <1>4. ExecSound'
    BY <1>2 DEF IInv, ExecSound, Busy
  <1>5. ReportIsTruthful'
    BY DEF IInv, ExecSound, ReportIsTruthful
  <1> QED
    BY <1>1, <1>3, <1>4, <1>5 DEF IInv

\* What the codes mean for the owner.
LEMMA OutcomeFacts ==
    /\ Outcomes("VERIFIED_SUCCESS") = "succeeded"
    /\ Outcomes("RECONCILIATION_REQUIRED") = "unknown_outcome"
    /\ Outcomes("INTERRUPTED") = "unknown_outcome"
    /\ Outcomes("SUPERVISOR_FAILURE") = "failed"
    /\ Outcomes("DEPENDENCY_HEALTH_FAILURE") = "failed"
    /\ Outcomes("EXECUTION_ERROR") = "failed"
  BY DEF Outcomes

\* The checks before anything is touched.
LEMMA PreMutationStep ==
    ASSUME IInv, PreMutation
    PROVE  IInv'
  <1> DEFINE s == First(exec.todo)
  <1>1. /\ exec.pc = "check" /\ exec.pc \in Busy /\ UNCHANGED <<clock, remote, cache, obs, served>>
        /\ exec.up = {} /\ exec.verified = {}
    BY DEF PreMutation, IInv, ExecSound, Busy
  <1>2. s \in exec.todo /\ exec.todo \subseteq ExecScope /\ IsExec(exec)
    BY <1>1, ServiceInHand
  <1> HIDE DEF s
  <1>3. ASSUME NEW code, Report(code, exec), Outcomes(code) = "failed"
        PROVE  IInv'
    BY <1>1, <1>2, <1>3, ReportStep
  <1>4. CASE /\ exec' = IF exec.todo # {s} THEN [exec EXCEPT !.todo = @ \ {s}]
                        ELSE [exec EXCEPT !.pc = "pull", !.todo = ExecScope]
             /\ UNCHANGED flow
    <2>1. CASE exec.todo # {s}
      <3>1. /\ IsExec(exec') /\ exec'.pc = "check" /\ exec'.todo = exec.todo \ {s}
            /\ exec'.up = {} /\ exec'.verified = {}
        BY <1>1, <1>2, <1>4, <2>1 DEF IsExec, ExecFields
      <3>2. exec'.todo # {} /\ exec'.todo \subseteq ExecScope
        BY <1>2, <2>1, <3>1
      <3> QED
        BY <1>1, <1>4, <3>1, <3>2, GoOnStep
    <2>2. CASE exec.todo = {s}
      <3>1. /\ IsExec(exec') /\ exec'.pc = "pull" /\ exec'.todo = ExecScope
            /\ exec'.up = {} /\ exec'.verified = {}
        BY <1>1, <1>2, <1>4, <2>2 DEF IsExec, ExecFields
      <3>2. ExecScope # {} /\ ExecScope \ ExecScope = {} /\ "pull" \in Busy
        BY <1>2 DEF Busy
      <3> QED
        BY <1>1, <1>4, <3>1, <3>2, GoOnStep
    <2> QED
      BY <2>1, <2>2
  <1>5. CASE Report("EXECUTION_ERROR", exec)
    BY <1>3, <1>5, OutcomeFacts
  <1>6. CASE Report("SUPERVISOR_FAILURE", exec) \/ Report("DEPENDENCY_HEALTH_FAILURE", exec)
    BY <1>3, <1>6, OutcomeFacts
  <1> QED
    BY <1>4, <1>5, <1>6 DEF PreMutation, s

\* One service is pulled.
LEMMA PullStep ==
    ASSUME IInv, Pull
    PROVE  IInv'
  <1>1. /\ exec.pc = "pull" /\ exec.pc \in Busy /\ UNCHANGED <<clock, remote, cache, obs, served>>
        /\ exec.up = ExecScope \ exec.todo /\ exec.verified = {} /\ exec.todo # {}
    BY DEF Pull, IInv, ExecSound, Busy
  <1>2. exec.todo \subseteq ExecScope /\ IsExec(exec)
    BY <1>1, ServiceInHand
  <1>3. CASE exec' = [exec EXCEPT !.pc = "up"] /\ UNCHANGED flow
    <2>1. /\ IsExec(exec') /\ exec'.pc = "up" /\ exec'.todo = exec.todo
          /\ exec'.up = exec.up /\ exec'.verified = {}
      BY <1>1, <1>2, <1>3 DEF IsExec, ExecFields
    <2>2. "up" \in Busy
      BY DEF Busy
    <2> QED
      BY <1>1, <1>2, <1>3, <2>1, <2>2, GoOnStep
  <1>4. CASE Report(IF exec.up # {} THEN "RECONCILIATION_REQUIRED" ELSE "SUPERVISOR_FAILURE", exec)
    <2>1. CASE exec.up = {}
      <3>1. Report("SUPERVISOR_FAILURE", exec)
        BY <1>4, <2>1
      <3> QED
        BY <1>1, <1>2, <2>1, <3>1, OutcomeFacts, ReportStep
    <2>2. CASE exec.up # {}
      <3>1. Report("RECONCILIATION_REQUIRED", exec)
        BY <1>4, <2>2
      <3> QED
        BY <1>1, <1>2, <3>1, OutcomeFacts, ReportStep
    <2> QED
      BY <2>1, <2>2
  <1>5. CASE Report("INTERRUPTED", exec)
    BY <1>1, <1>2, <1>5, OutcomeFacts, ReportStep
  <1> QED
    BY <1>3, <1>4, <1>5 DEF Pull

\* One service is recreated.
LEMMA UpStep ==
    ASSUME IInv, Up
    PROVE  IInv'
  <1> DEFINE s == First(exec.todo)
             touched == [exec EXCEPT !.up = @ \cup {s}]
  <1>1. /\ exec.pc = "up" /\ exec.pc \in Busy /\ UNCHANGED <<clock, remote, cache, obs, served>>
        /\ exec.up = ExecScope \ exec.todo /\ exec.verified = {}
    BY DEF Up, IInv, ExecSound, Busy
  <1>2. s \in exec.todo /\ exec.todo \subseteq ExecScope /\ IsExec(exec)
    BY <1>1, ServiceInHand
  <1>3. /\ \/ exec' = AfterUp(touched, s) /\ UNCHANGED flow
           \/ Report(UpFailure, touched) \/ Report("INTERRUPTED", touched)
    BY DEF Up
  <1> HIDE DEF s
  <1>4. /\ IsExec(touched) /\ touched.pc = "up" /\ touched.todo = exec.todo
        /\ touched.up = exec.up \cup {s} /\ touched.verified = {}
    BY <1>1, <1>2 DEF IsExec, ExecFields
  <1> HIDE DEF touched
  <1>5. CASE exec' = AfterUp(touched, s) /\ UNCHANGED flow
    <2>1. CASE exec.todo # {s}
      <3>1. /\ IsExec(exec') /\ exec'.pc = "pull" /\ exec'.todo = exec.todo \ {s}
            /\ exec'.up = exec.up \cup {s} /\ exec'.verified = {}
        BY <1>4, <1>5, <2>1 DEF AfterUp, IsExec, ExecFields
      <3>2. /\ exec'.todo # {} /\ exec'.todo \subseteq ExecScope /\ "pull" \in Busy
            /\ exec'.up = ExecScope \ exec'.todo
        BY <1>1, <1>2, <2>1, <3>1 DEF Busy
      <3> QED
        BY <1>1, <1>5, <3>1, <3>2, GoOnStep
    <2>2. CASE exec.todo = {s}
      <3>1. /\ IsExec(exec') /\ exec'.pc = "verify" /\ exec'.todo = ExecScope
            /\ exec'.up = exec.up \cup {s} /\ exec'.verified = {}
        BY <1>4, <1>5, <2>2 DEF AfterUp, IsExec, ExecFields
      <3>2. /\ exec'.up = ExecScope /\ ExecScope # {} /\ ExecScope \ ExecScope = {} /\ "verify" \in Busy
        BY <1>1, <1>2, <2>2, <3>1 DEF Busy
      <3> QED
        BY <1>1, <1>5, <3>1, <3>2, GoOnStep
    <2> QED
      BY <2>1, <2>2
  <1>6. CASE Report(UpFailure, touched)
    <2>1. CASE TightScope
      <3>1. Report("RECONCILIATION_REQUIRED", touched)
        BY <1>6, <2>1 DEF UpFailure
      <3> QED
        BY <1>1, <1>4, <3>1, OutcomeFacts, ReportStep
    <2>2. CASE ~TightScope
      <3>1. Report("SUPERVISOR_FAILURE", touched)
        BY <1>6, <2>2 DEF UpFailure
      <3>2. touched.up = ExecScope
        BY <1>1, <1>2, <1>4, <2>2 DEF TightScope
      <3> QED
        BY <1>1, <1>4, <3>1, <3>2, OutcomeFacts, ReportStep
    <2> QED
      BY <2>1, <2>2
  <1>7. CASE Report("INTERRUPTED", touched)
    BY <1>1, <1>4, <1>7, OutcomeFacts, ReportStep
  <1> QED
    BY <1>3, <1>5, <1>6, <1>7

\* One recreated service is inspected.
LEMMA VerifyStep ==
    ASSUME IInv, _verify_post_mutation
    PROVE  IInv'
  <1> DEFINE s == First(exec.todo)
             Passed(seen) == [exec EXCEPT !.verified = @ \cup (IF Accepts(seen) THEN {s} ELSE {})]
  <1>1. /\ exec.pc = "verify" /\ exec.pc \in Busy /\ UNCHANGED <<clock, remote, cache, obs, served>>
        /\ exec.up = ExecScope /\ exec.verified = ExecScope \ exec.todo
    BY DEF _verify_post_mutation, IInv, ExecSound, Busy
  <1>2. s \in exec.todo /\ exec.todo \subseteq ExecScope /\ IsExec(exec)
    BY <1>1, ServiceInHand
  <1>3. PICK seen \in Inspections(s) :
          IF ~Passes(seen)
          THEN Report(IF TightScope /\ exec.verified # {} THEN "RECONCILIATION_REQUIRED"
                      ELSE "SUPERVISOR_FAILURE", exec)
          ELSE IF exec.todo # {s}
          THEN exec' = [Passed(seen) EXCEPT !.todo = @ \ {s}] /\ UNCHANGED flow
          ELSE Report("VERIFIED_SUCCESS", Passed(seen))
    BY DEF _verify_post_mutation
  <1> DEFINE passed == Passed(seen)
  <1> HIDE DEF s
  <1>4. Passes(seen) =>
          /\ IsExec(passed) /\ passed.pc = "verify" /\ passed.todo = exec.todo
          /\ passed.up = ExecScope /\ passed.verified = exec.verified \cup {s}
    BY <1>1, <1>2 DEF IsExec, ExecFields, Passes
  <1> HIDE DEF passed
  <1>5. CASE ~Passes(seen)
    <2>1. Report("RECONCILIATION_REQUIRED", exec) \/ Report("SUPERVISOR_FAILURE", exec)
      BY <1>3, <1>5
    <2>2. CASE Report("RECONCILIATION_REQUIRED", exec)
      BY <1>1, <1>2, <2>2, OutcomeFacts, ReportStep
    <2>3. CASE Report("SUPERVISOR_FAILURE", exec)
      BY <1>1, <1>2, <2>3, OutcomeFacts, ReportStep
    <2> QED
      BY <2>1, <2>2, <2>3
  <1>6. CASE Passes(seen) /\ exec.todo # {s}
    <2>1. exec' = [passed EXCEPT !.todo = @ \ {s}] /\ UNCHANGED flow
      BY <1>3, <1>6 DEF passed
    <2>2. /\ IsExec(exec') /\ exec'.pc = "verify" /\ exec'.todo = exec.todo \ {s}
          /\ exec'.up = ExecScope /\ exec'.verified = exec.verified \cup {s}
      BY <1>4, <1>6, <2>1 DEF IsExec, ExecFields
    <2>3. /\ exec'.todo # {} /\ exec'.todo \subseteq ExecScope /\ "verify" \in Busy
          /\ exec'.verified = ExecScope \ exec'.todo
      BY <1>1, <1>2, <1>6, <2>2 DEF Busy
    <2> QED
      BY <1>1, <2>1, <2>2, <2>3, GoOnStep
  <1>7. CASE Passes(seen) /\ exec.todo = {s}
    <2>1. Report("VERIFIED_SUCCESS", passed)
      BY <1>3, <1>7 DEF passed
    <2>2. passed.up = ExecScope /\ passed.verified = ExecScope
      BY <1>1, <1>2, <1>4, <1>7
    <2> QED
      BY <1>1, <1>4, <1>7, <2>1, <2>2, OutcomeFacts, ReportStep
  <1> QED
    BY <1>5, <1>6, <1>7

-----------------------------------------------------------------------------
(* The environment.                                                          *)

\* Time, the registries and the containers change under an update.
LEMMA WorldStep ==
    ASSUME IInv, Tick \/ (\E k \in Images, d \in Digests : Publish(k, d))
                 \/ \E s \in Services : Disturb(s)
    PROVE  IInv'
  <1>1. UNCHANGED <<cache, obs, flow, exec>>
    BY DEF Tick, Publish, Disturb
  <1>2. /\ clock \in Nat /\ remote \in [Images -> Digests] /\ served \in [Images -> [Digests -> Int]]
    BY DEF IInv, TypeOK
  <1>3. TypeOK' /\ CacheSound'
    <2>1. CASE Tick
      <3>1. clock' = clock + 1 /\ UNCHANGED <<remote, served>>
        BY <2>1 DEF Tick
      <3> QED
        BY <1>1, <1>2, <3>1 DEF IInv, TypeOK, CacheSound
    <2>2. CASE \E k \in Images, d \in Digests : Publish(k, d)
      <3>1. PICK k \in Images, d \in Digests : Publish(k, d)
        BY <2>2
      <3>2. /\ clock' = clock /\ remote' = [remote EXCEPT ![k] = d]
            /\ served' = [served EXCEPT ![k][remote[k]] = clock]
        BY <3>1 DEF Publish
      <3>3. remote' \in [Images -> Digests] /\ remote[k] \in Digests
        BY <1>2, <3>2
      <3>4. /\ served' \in [Images -> [Digests -> Int]]
            /\ \A j \in Images, c \in Digests : served'[j][c] \in {served[j][c], clock}
        BY <1>2, <3>2, <3>3
      <3>5. CacheSound'
        <4> SUFFICES ASSUME NEW j \in Images, cache[j] # None, cache[j].res.digest # None
                     PROVE  /\ cache[j].res.digest \in Digests
                            /\ cache[j].ttl = PositiveTtl
                            /\ cache[j].at \in 0 .. clock
                            /\ cache[j].at <= served'[j][cache[j].res.digest]
          BY <1>1, <3>2 DEF CacheSound
        <4> DEFINE c == cache[j].res.digest
        <4>1. /\ c \in Digests /\ cache[j].ttl = PositiveTtl /\ cache[j].at \in 0 .. clock
              /\ cache[j].at <= served[j][c]
          BY DEF IInv, CacheSound
        <4> HIDE DEF c
        <4>2. cache[j].at <= served'[j][c]
          BY <1>2, <3>4, <4>1
        <4> QED
          BY <4>1, <4>2 DEF c
      <3> QED
        BY <1>1, <1>2, <3>2, <3>3, <3>4, <3>5 DEF IInv, TypeOK
    <2>3. CASE \E s \in Services : Disturb(s)
      <3>1. UNCHANGED <<clock, remote, served>>
        BY <2>3 DEF Disturb
      <3> QED
        BY <1>1, <3>1 DEF IInv, TypeOK, CacheSound
    <2> QED
      BY <2>1, <2>2, <2>3
  <1>4. ObsSound' /\ FlowSound' /\ ExecSound' /\ ReportIsTruthful'
    BY <1>1 DEF IInv, ObsSound, FlowSound, ExecSound, ReportIsTruthful, Authorised, ExecScope
  <1> QED
    BY <1>3, <1>4 DEF IInv

\* The control plane restarts, or finds that it has.
LEMMA RestartStep ==
    ASSUME IInv, Restart \/ ExecuteWithoutEvidence
    PROVE  IInv'
  <1>1. /\ TypeOK /\ flow = [x \in FlowFields |-> flow[x]] /\ UNCHANGED <<clock, remote, served, exec>>
    BY DEF IInv, TypeOK, Restart, ExecuteWithoutEvidence
  <1>2. CASE Restart
    <2>1. /\ flow' = [x \in FlowFields |-> flow'[x]] /\ flow'.outcome = flow.outcome
          /\ flow'.presented = flow.presented
          /\ flow'.evidence = (IF flow.stage = "approved" THEN None ELSE flow.evidence)
          /\ flow'.stage = (IF flow.stage = "planning" THEN "idle" ELSE flow.stage)
          /\ flow.stage # "executing"
      BY <1>1, <1>2 DEF Restart, FlowFields
    <2>2. IsObs(obs') /\ obs'.pc = "idle" /\ obs'.todo = {}
      BY <1>2, IdleObsFacts DEF Restart
    <2>3. cache' = [k \in Images |-> None]
      BY <1>2 DEF Restart
    <2>4. TypeOK' /\ CacheSound' /\ ObsSound'
      BY <1>1, <2>1, <2>2, <2>3 DEF TypeOK, CacheSound, ObsSound, Asking
    <2>5. FlowSound' /\ ExecSound'
      BY <1>1, <2>1, <2>2 DEF IInv, FlowSound, ExecSound, Busy
    <2>6. ReportIsTruthful'
      <3>1. flow.outcome # "none" => exec.pc = "over"
        BY DEF IInv, ExecSound
      <3>2. exec.pc = "over" => flow'.evidence = flow.evidence
        BY <2>1 DEF IInv, ExecSound
      <3> QED
        BY <1>1, <2>1, <3>1, <3>2 DEF IInv, ReportIsTruthful, ExecScope
    <2> QED
      BY <2>4, <2>5, <2>6 DEF IInv
  <1>3. CASE ExecuteWithoutEvidence
    <2>1. /\ flow' = [x \in FlowFields |-> flow'[x]] /\ flow'.outcome = flow.outcome
          /\ flow'.evidence = flow.evidence /\ flow'.stage = "refused" /\ flow.stage = "approved"
          /\ obs.pc = "idle" /\ UNCHANGED <<obs, cache>>
      BY <1>1, <1>3 DEF ExecuteWithoutEvidence, FlowFields
    <2>2. TypeOK' /\ CacheSound' /\ ObsSound'
      BY <1>1, <2>1 DEF IInv, TypeOK, CacheSound, ObsSound
    <2>3. FlowSound' /\ ExecSound' /\ ReportIsTruthful'
      BY <1>1, <2>1 DEF IInv, FlowSound, ExecSound, ReportIsTruthful, ExecScope, Busy
    <2> QED
      BY <2>2, <2>3 DEF IInv
  <1> QED
    BY <1>2, <1>3

-----------------------------------------------------------------------------
(* The theorems.                                                             *)

\* Initially there is nothing in the cache and nothing under way.
LEMMA InitHolds ==
    ASSUME Init
    PROVE  IInv
  <1>1. /\ clock = 0 /\ remote \in [Images -> Digests] /\ cache = [k \in Images |-> None]
        /\ obs = IdleObs /\ flow = NoFlow /\ exec = NoExec
        /\ served = [k \in Images |-> [d \in Digests |-> -1]]
    BY UpdateAssumption DEF Init
  <1>2. /\ flow = [x \in FlowFields |-> flow[x]] /\ flow.stage = "idle" /\ flow.outcome = "none"
        /\ exec = [x \in ExecFields |-> exec[x]] /\ exec.pc = "off"
    BY <1>1 DEF NoFlow, NoExec, FlowFields, ExecFields
  <1>3. IsObs(obs) /\ obs.pc = "idle" /\ obs.todo = {}
    BY <1>1, IdleObsFacts
  <1>4. TypeOK /\ CacheSound /\ ObsSound
    BY <1>1, <1>2, <1>3 DEF TypeOK, CacheSound, ObsSound, Asking
  <1>5. FlowSound /\ ExecSound /\ ReportIsTruthful
    BY <1>2, <1>3 DEF FlowSound, ExecSound, ReportIsTruthful, Busy
  <1> QED
    BY <1>4, <1>5 DEF IInv

\* One step keeps the invariant.
LEMMA NextHolds ==
    ASSUME IInv, [Next]_vars
    PROVE  IInv'
  <1>1. CASE Lookup \/ query_candidate_digest
    BY <1>1, LookupStep, QueryStep
  <1>2. CASE Observe \/ FinishObservation
    BY <1>2, ObserveStep, FinishStep
  <1>3. CASE PreMutation \/ Pull \/ Up \/ _verify_post_mutation
    BY <1>3, PreMutationStep, PullStep, UpStep, VerifyStep
  <1>4. CASE Tick \/ (\E k \in Images, d \in Digests : Publish(k, d)) \/ \E s \in Services : Disturb(s)
    BY <1>4, WorldStep
  <1>5. CASE Restart \/ ExecuteWithoutEvidence
    BY <1>5, RestartStep
  <1>6. CASE UNCHANGED vars
    BY <1>6 DEF vars, IInv, TypeOK, CacheSound, ObsSound, FlowSound, ExecSound, ReportIsTruthful,
                Authorised, ExecScope
  <1> QED
    BY <1>1, <1>2, <1>3, <1>4, <1>5, <1>6 DEF Next

\* The stages of an update, its observations, the cache and the adapter's
\* progress fit together at every step (IInv).
THEOREM UpdateInvariance == Spec => []IInv
  <1>1. Init => IInv
    BY InitHolds
  <1>2. IInv /\ [Next]_vars => IInv'
    BY NextHolds
  <1> QED
    BY <1>1, <1>2, PTL DEF Spec

\* The adapter's report is what happened: a success recreated and inspected the
\* whole approved scope, a definitive failure left none or all of it recreated
\* (execution_adapter.py).
THEOREM ReportsAreTruthful == Spec => []ReportIsTruthful
  <1>1. IInv => ReportIsTruthful
    BY DEF IInv
  <1> QED
    BY <1>1, UpdateInvariance, PTL

\* A result that an observation takes.
CandidateStep ==
  \A k \in Images :
    LET r == obs'.results[k]
    IN r # None /\ r # obs.results[k] /\ r.digest # None =>
         clock - served'[k][r.digest] <= PositiveTtl

\* A digest from the cache is not older than its lifetime.
LEMMA LookupFresh ==
    ASSUME IInv, Lookup
    PROVE  CandidateStep
  <1> DEFINE hit == get(cache, Key, clock)
             check == check_logical_lookup
  <1>1. /\ obs.pc = "next" /\ obs.todo # {} /\ IsObs(obs) /\ served' = served /\ Key \in Images
        /\ clock \in Nat /\ served \in [Images -> [Digests -> Int]] /\ PositiveTtl \in Nat
    <2>1. obs.pc = "next" /\ obs.todo # {} /\ ObsSound
      BY DEF Lookup, IInv
    <2> QED
      BY <2>1, KeyIsMember, UpdateAssumption DEF Lookup, IInv, TypeOK
  <1>2. \/ hit # None /\ obs' = [obs EXCEPT !.todo = @ \ {Key}, !.results[Key] = hit]
        \/ obs' = [obs EXCEPT !.todo = @ \ {Key}, !.results[Key] = Result(check, None)]
        \/ obs' = [obs EXCEPT !.lookups = @ + 1, !.pc = "manifest"]
    BY DEF Lookup
  <1>3. hit # None => /\ cache[Key] # None /\ hit = cache[Key].res
                      /\ clock - cache[Key].at <= cache[Key].ttl
    BY DEF get, is_fresh
  <1>4. Result(check, None).digest = None
    BY DEF Result
  <1> DEFINE refused == Result(check, None)
  <1> HIDE DEF hit, refused, check
  <1>5. \/ hit # None /\ obs'.results = [obs.results EXCEPT ![Key] = hit]
        \/ obs'.results = [obs.results EXCEPT ![Key] = refused]
        \/ obs'.results = obs.results
    <2>1. CASE hit # None /\ obs' = [obs EXCEPT !.todo = @ \ {Key}, !.results[Key] = hit]
      BY <1>1, <2>1 DEF IsObs, ObsFields
    <2>2. CASE obs' = [obs EXCEPT !.todo = @ \ {Key}, !.results[Key] = refused]
      BY <1>1, <2>2 DEF IsObs, ObsFields
    <2>3. CASE obs' = [obs EXCEPT !.lookups = @ + 1, !.pc = "manifest"]
      BY <1>1, <2>3 DEF IsObs, ObsFields
    <2> QED
      BY <1>2, <2>1, <2>2, <2>3 DEF refused
  <1>6. ASSUME hit # None, hit.digest # None
        PROVE  clock - served[Key][hit.digest] <= PositiveTtl
    <2>1. /\ hit.digest \in Digests /\ cache[Key].ttl = PositiveTtl
          /\ cache[Key].at \in 0 .. clock /\ cache[Key].at <= served[Key][hit.digest]
      BY <1>1, <1>3, <1>6 DEF IInv, CacheSound
    <2>2. served[Key][hit.digest] \in Int /\ clock - cache[Key].at <= PositiveTtl
      BY <1>1, <1>3, <1>6, <2>1
    <2> QED
      BY <1>1, <2>1, <2>2
  <1>7. obs.results = [k \in Images |-> obs.results[k]]
    BY <1>1 DEF IsObs
  <1> QED
    BY <1>1, <1>4, <1>5, <1>6, <1>7 DEF CandidateStep, refused

\* A digest from the registry is what it serves now.
LEMMA QueryFresh ==
    ASSUME IInv, query_candidate_digest
    PROVE  CandidateStep
  <1>1. obs.pc \in Asking /\ IsObs(obs) /\ Request /\ clock \in Nat /\ PositiveTtl \in Nat
    BY UpdateAssumption DEF query_candidate_digest, Asking, IInv, TypeOK
  <1>2. ASSUME NEW reason, NEW digest, Ended(reason, digest)
        PROVE  CandidateStep
    <2>1. EndedResult(reason, digest)
      BY <1>1, <1>2, EndedFacts
    <2> DEFINE res == Result(reason, digest)
    <2>2. res.digest = digest
      BY DEF Result
    <2>3. /\ obs'.results = [obs.results EXCEPT ![Key] = res]
          /\ digest # None => served'[Key][digest] = clock
      BY <2>1 DEF EndedResult
    <2>4. obs.results = [k \in Images |-> obs.results[k]]
      BY <1>1 DEF IsObs
    <2> HIDE DEF res
    <2> QED
      BY <1>1, <2>2, <2>3, <2>4 DEF CandidateStep
  <1>3. CASE Challenged
    <2>1. PICK pc : obs' = [Recorded EXCEPT !.pc = pc]
      BY <1>3 DEF Challenged
    <2>2. IsObs(Recorded) /\ Recorded.results = obs.results
      BY <1>1, RecordedFacts
    <2>3. obs'.results = obs.results
      BY <2>1, <2>2 DEF IsObs, ObsFields
    <2> QED
      BY <2>3 DEF CandidateStep
  <1> QED
    BY <1>1, <1>2, <1>3, RequestCases

\* The candidate an observation takes was served no longer ago than the positive
\* lifetime, whichever observation filled the cache (cache.py, scheduler.py).
THEOREM CandidatesAreFresh == Spec => CandidateFresh
  <1>1. ASSUME IInv, [Next]_vars
        PROVE  CandidateStep
    <2>1. CASE Lookup \/ query_candidate_digest
      BY <1>1, <2>1, LookupFresh, QueryFresh
    <2>2. ASSUME obs'.results = obs.results \/ obs'.results = NoResults
          PROVE  CandidateStep
      BY <2>2 DEF CandidateStep, NoResults
    <2>3. CASE UNCHANGED obs
      BY <2>2, <2>3
    <2>4. CASE obs' = IdleObs
      BY <2>2, <2>4 DEF IdleObs
    <2>5. ASSUME NEW purpose, Start(purpose)
          PROVE  CandidateStep
      <3>1. obs'.results = IdleObs.results
        BY <2>5 DEF Start, IdleObs
      <3> QED
        BY <2>2, <3>1 DEF IdleObs
    <2>6. CASE Observe
      BY <2>5, <2>6 DEF Observe
    <2>7. \/ Lookup \/ query_candidate_digest \/ Observe \/ UNCHANGED obs \/ obs' = IdleObs
      BY <1>1 DEF Next, vars, Tick, Restart, ExecuteWithoutEvidence, PreMutation, Pull, Up,
                  _verify_post_mutation, FinishObservation, Publish, Disturb
    <2> QED
      BY <2>1, <2>3, <2>4, <2>6, <2>7
  <1>2. IInv /\ [Next]_vars => [CandidateStep]_vars
    BY <1>1
  <1>3. [][CandidateStep]_vars => CandidateFresh
    BY PTL DEF CandidateFresh, CandidateStep
  <1> QED
    BY <1>2, <1>3, UpdateInvariance, PTL DEF Spec

\* The start of an execution.
StartStep ==
  exec.pc = "off" /\ exec'.pc = "check" =>
    LET view == obs
        approved == flow.evidence.plan
    IN /\ view.table[approved.service].digest = flow.presented.current
       /\ \A d \in approved.deps :
            view.table[d].state = "running" /\ view.table[d].health # "unhealthy"
       /\ exec'.todo \subseteq {approved.service} \cup approved.deps

\* An execution starts only when, at the gate's own listing, the target still
\* runs the digest the approval saw and its dependencies run
\* (gate.py, service_evidence.py).
THEOREM StartsFromTheApproved == Spec => StartsAsApproved
  <1>1. ASSUME IInv, [Next]_vars
        PROVE  StartStep
    <2> SUFFICES ASSUME exec.pc = "off", exec'.pc = "check"
                 PROVE  /\ obs.table[flow.evidence.plan.service].digest = flow.presented.current
                        /\ \A d \in flow.evidence.plan.deps :
                             obs.table[d].state = "running" /\ obs.table[d].health # "unhealthy"
                        /\ exec'.todo \subseteq {flow.evidence.plan.service} \cup flow.evidence.plan.deps
      BY DEF StartStep
    <2>1. exec' # exec
      OBVIOUS
    <2>2. FinishObservation
      BY <1>1, <2>1 DEF Next, vars, Tick, Restart, ExecuteWithoutEvidence, PreMutation, Pull, Up,
                        _verify_post_mutation, Lookup, query_candidate_digest, Observe, Publish, Disturb
    <2> DEFINE e == from_service_plan(obs, flow.service)
    <2>3. /\ Advance(obs.purpose, e) /\ flow'.stage = "executing" /\ flow.stage # "executing"
          /\ exec' = [NoExec EXCEPT !.pc = "check", !.todo = flow.evidence.plan.scope]
      BY <2>1, <2>2 DEF FinishObservation
    <2>4. /\ e.plan.service = flow.service /\ e.plan.current = obs.table[flow.service].digest
          /\ e.plan.deps = Deps(flow.service)
          /\ e.plan.scope \subseteq {flow.service} \cup Deps(flow.service)
          /\ e.plan.eligible =>
               \A d \in Deps(flow.service) :
                 obs.table[d].state = "running" /\ obs.table[d].health # "unhealthy"
      BY PlanFacts
    <2> HIDE DEF e
    <2>5. flow = [x \in FlowFields |-> flow[x]]
      BY <1>1 DEF IInv, TypeOK
    <2>6. obs.purpose = "gate" /\ flow.evidence.plan = e.plan
      <3>1. CASE obs.purpose = "plan"
        BY <2>3, <2>5, <3>1 DEF Advance, FlowFields
      <3>2. CASE obs.purpose = "approve"
        BY <2>3, <2>5, <3>2 DEF Advance, FlowFields
      <3>3. CASE obs.purpose = "gate"
        BY <2>3, <2>5, <3>3 DEF Advance, FlowFields, verify_service_evidence
      <3> QED
        BY <2>3, <3>1, <3>2, <3>3 DEF Advance
    <2>7. Authorised
      <3>1. obs.pc = "next"
        BY <2>2 DEF FinishObservation, Complete
      <3> QED
        BY <1>1, <2>6, <3>1 DEF IInv, FlowSound
    <2>8. exec'.todo = flow.evidence.plan.scope
      BY <2>3 DEF NoExec
    <2> QED
      BY <2>4, <2>6, <2>7, <2>8 DEF Authorised
  <1>2. IInv /\ [Next]_vars => [StartStep]_vars
    BY <1>1
  <1>3. [][StartStep]_vars => StartsAsApproved
    BY PTL DEF StartsAsApproved, StartStep
  <1> QED
    BY <1>2, <1>3, UpdateInvariance, PTL DEF Spec
=============================================================================
