----------------------- MODULE Notifications_proofs -----------------------
(* Proofs for Notifications: with any number of services, operators,         *)
(* transitions, policies and channels, an attempt's record is the one of its *)
(* claim, no decision is lost, and no channel is flooded unless a transition *)
(* is projected again after retention deleted what came of it.               *)
EXTENDS Notifications, FiniteSetTheorems, NaturalsInduction, WellFoundedInduction, TLAPS

-----------------------------------------------------------------------------
(* The inductive invariant: types.                                           *)

NoteFields == {"note", "delivery", "age", "wait", "attempts", "expiries", "manual", "lease", "token"}

IsNote(n) ==
  /\ n = [x \in NoteFields |-> n[x]]
  /\ n.age \in 0 .. Oldest
  /\ n.attempts \in Nat /\ n.expiries \in Nat /\ n.manual \in Nat

IsKey(i) ==
  /\ i = identity_key(i.policy, i.channel, i.transition)
  /\ i.policy \in DOMAIN Policies /\ i.channel \in DOMAIN Channels

RowFields == {"last", "start", "count", "updated"}

\* A counter's row is at least as recent as what it remembers.
IsRow(r) ==
  /\ r = [x \in RowFields |-> r[x]]
  /\ r.last \in 0 .. Oldest /\ r.start \in 0 .. Oldest /\ r.updated \in 0 .. Oldest
  /\ r.count \in Nat
  /\ r.updated <= r.last /\ r.updated <= r.start
  /\ r.count = 0 => r.start = Oldest

WorkerFields == {"at", "todo", "routes", "decision", "id", "token", "outcome"}

Places == {"fetch", "decide", "commit", "mark", "pick", "claim", "send", "finish"}
Projecting(v) == v.at \in {"decide", "commit", "mark"}

IsWorker(v) ==
  /\ v = [x \in WorkerFields |-> v[x]]
  /\ v.at \in Places
  /\ v.routes \subseteq Routes
  /\ v.at \in {"decide", "commit"} => v.routes # {}
  /\ v.at = "mark" => v.routes = {}
  /\ Projecting(v) => v.todo # {} /\ v.todo \subseteq Nat \ {0}
  /\ v.at = "claim" => v.outcome \in {"pending", "sending"}
  /\ v.at = "finish" => v.outcome \in Outcomes

NotesOK ==
  /\ notes = [i \in DOMAIN notes |-> notes[i]] /\ IsFiniteSet(DOMAIN notes)
  /\ \A i \in DOMAIN notes : IsKey(i) /\ IsNote(notes[i])

RowsOK ==
  /\ dedup = [k \in DOMAIN dedup |-> dedup[k]]
  /\ \A k \in DOMAIN dedup : IsRow(dedup[k])

WorkersOK ==
  /\ worker = [w \in Workers |-> worker[w]]
  /\ \A w \in Workers : IsWorker(worker[w])

SuppressionsOK == \A s \in suppressions : s = [x \in {"id", "reason", "age"} |-> s[x]]

TypeOK == emitted \in Nat /\ NotesOK /\ RowsOK /\ WorkersOK /\ SuppressionsOK

(* The inductive invariant: deliveries.                                      *)

Allowed(i) == Channels[i.channel].max_attempts + notes[i].expiries + notes[i].manual

\* A delivery can be claimed again only while it has claims left, and the token
\* of a send in progress is the number of its claim.
DeliveryInv ==
  \A i \in DOMAIN notes :
    /\ notes[i].attempts <= Allowed(i)
    /\ notes[i].delivery = "pending" => notes[i].attempts < Allowed(i)
    /\ notes[i].delivery = "sending" => notes[i].token = notes[i].attempts

\* The outcomes stored are those of earlier claims, or of the last one when the
\* message is not being sent.
AttemptInv ==
  \A a \in attempts :
    /\ a.number = a.claim /\ a.number \in Nat
    /\ a.id \in DOMAIN notes
    /\ a.number <= notes[a.id].attempts
    /\ notes[a.id].delivery = "sending" => a.number < notes[a.id].attempts

(* The inductive invariant: decisions.                                       *)

Decided(id) == id \in DOMAIN notes \/ Suppressed(id) \/ id \in retired

\* A projector has left decisions behind it, and a transition it has passed is
\* marked.
ProgressOf(v) ==
  Projecting(v) =>
    /\ \A r \in Routes \ v.routes : Decided(route_key(r, Min(v.todo)))
    /\ \A t \in v.todo : \A u \in 1 .. t : u \in v.todo \/ u \in projected
    /\ v.at = "commit" /\ v.decision = "seen" => Decided(route_key(First(v.routes), Min(v.todo)))

(* The inductive invariant: what a projector is about to commit is what it    *)
(* would decide now, unless another has decided meanwhile.                    *)

Wanted(id) == evaluate(id.policy, id.transition) /\ Channels[id.channel].enabled
Cools(id) == Cooling(id.policy, id.channel, id.transition)
IsFull(id) == Full(id.policy, id.channel) # {}
Limits == {"rate_limit", "global_limit"}

Held(v) == route_key(First(v.routes), Min(v.todo))

HeldOf(v) ==
  LET id == Held(v)
      d == v.decision
  IN v.at = "commit" =>
       /\ d \in {"policy", "duplicate", "seen", "cooldown", "insert"} \cup Limits
       /\ d = "policy" => ~Wanted(id)
       /\ d = "duplicate" => id \in DOMAIN notes
       /\ d = "insert" => Wanted(id) /\ (Suppressed(id) => id \in DOMAIN notes)
       /\ ~Decided(id) => /\ d = "cooldown" => Cools(id)
                          /\ d \in Limits => IsFull(id)
                          /\ d = "insert" => ~Cools(id) /\ ~IsFull(id)

(* The inductive invariant: the counters and the notifications they count.   *)

Young(c) == {i \in DOMAIN notes : i.channel = c /\ notes[i].age < Oldest}
Start(c) == State(<<"channel", c>>).start
Count(c) == State(<<"channel", c>>).count

\* The notifications of the window in progress, of it but after its first
\* instant, and of the stretch before it.
InWindow(c) == {i \in Young(c) : notes[i].age <= Start(c)}
AfterFirst(c) == {i \in Young(c) : notes[i].age < Start(c)}
Preceding(c, length) == {i \in Young(c) : Start(c) < notes[i].age /\ notes[i].age < Start(c) + length}

\* A row outlives the notifications it counts.
RowsCover ==
  \A i \in DOMAIN notes : notes[i].age < Oldest =>
    \A k \in {<<"channel", i.channel>>, Scope(i.policy, i.channel, i.transition)} :
      k \in DOMAIN dedup /\ dedup[k].updated <= notes[i].age

ChannelInv(c, length, max) ==
  /\ Cardinality(InWindow(c)) <= Count(c) /\ Count(c) <= max
  /\ Count(c) > 0 => Cardinality(AfterFirst(c)) < Count(c)
  /\ Cardinality(Preceding(c, length)) < max
  /\ \A i \in InWindow(c) : Start(c) - notes[i].age < length

ScopeOf(i) == Scope(i.policy, i.channel, i.transition)

CooldownInv ==
  /\ \A i \in DOMAIN notes : notes[i].age < Oldest => dedup[ScopeOf(i)].last <= notes[i].age
  /\ \A i, j \in DOMAIN notes :
       i # j /\ ScopeOf(i) = ScopeOf(j) /\ notes[i].age <= notes[j].age /\ notes[j].age < Oldest
       => notes[j].age - notes[i].age >= Policies[i.policy].cooldown_seconds

StormInv ==
  /\ \A w \in Workers : HeldOf(worker[w])
  /\ RowsCover /\ CooldownInv
  /\ \A p \in DOMAIN Policies, c \in DOMAIN Channels :
       Agree(p, c) => ChannelInv(c, Policies[p].window_seconds, Policies[p].max_notifications)

CoreInv ==
  /\ TypeOK /\ DeliveryInv /\ AttemptInv
  /\ DecisionsAreKept
  /\ \A w \in Workers : ProgressOf(worker[w])

\* No service replays a transition of which retention has deleted a row.
NoReplay ==
  \A w \in Workers : Projecting(worker[w]) => \A id \in retired : id.transition \notin worker[w].todo

-----------------------------------------------------------------------------
(* Numbers, routes and records.                                              *)

\* A nonempty set of numbers has a least one.
LEMMA LeastNumber ==
    ASSUME NEW S, S \subseteq Nat, S # {}
    PROVE  \E x \in S : \A y \in S : x <= y
  <1> DEFINE R == {p \in Nat \X Nat : p[1] < p[2]}
  <1>1. IsWellFoundedOn(R, Nat)
    BY NatLessThanWellFounded DEF OpToRel
  <1>2. PICK x \in S : \A y \in S : <<y, x>> \notin R
    <2> HIDE DEF R
    <2> QED
      BY <1>1, WFMin
  <1>3. \A y \in S : ~(y < x)
    BY <1>2
  <1>4. \A y \in S : x <= y
    BY <1>3
  <1> QED
    BY <1>4

\* The transition a projector is at is the first it has left.
LEMMA LeastOf ==
    ASSUME NEW S, S \subseteq Nat, S # {}
    PROVE  Min(S) \in S /\ \A y \in S : Min(S) <= y
  BY LeastNumber DEF Min

\* What a route names.
LEMMA RouteFacts ==
    ASSUME NEW r \in Routes, NEW t
    PROVE  /\ r = [policy |-> r.policy, place |-> r.place]
           /\ r.policy \in DOMAIN Policies /\ r.policy \in Nat /\ r.place \in Nat
           /\ r.place \in DOMAIN Policies[r.policy].channels
           /\ Channel(r) \in DOMAIN Channels
           /\ Channel(r) \in {Policies[r.policy].channels[i] : i \in DOMAIN Policies[r.policy].channels}
           /\ IsKey(route_key(r, t))
           /\ route_key(r, t).policy = r.policy /\ route_key(r, t).channel = Channel(r)
           /\ route_key(r, t).transition = t
  BY ConfigurationAssumption DEF Routes, Channel, IsKey, route_key, identity_key

\* The route a projector is at is the first it has left.
LEMMA FirstOf ==
    ASSUME NEW routes, routes \subseteq Routes, routes # {}
    PROVE  First(routes) \in routes /\ \A s \in routes : Before(First(routes), s)
  <1> DEFINE ps == {r.policy : r \in routes}
  <1>0. \A r \in routes : r.policy \in Nat /\ r.place \in Nat
    BY RouteFacts
  <1>1. PICK p \in ps : \A q \in ps : p <= q
    <2>1. ps \subseteq Nat /\ ps # {}
      BY <1>0
    <2> HIDE DEF ps
    <2> QED
      BY <2>1, LeastNumber
  <1> DEFINE is == {r.place : r \in {x \in routes : x.policy = p}}
  <1>2. PICK i \in is : \A j \in is : i <= j
    <2>1. is \subseteq Nat /\ is # {}
      BY <1>0, <1>1
    <2> HIDE DEF is
    <2> QED
      BY <2>1, LeastNumber
  <1>3. PICK r \in routes : r.policy = p /\ r.place = i
    BY <1>2
  <1>4. \A s \in routes : Before(r, s)
    BY <1>0, <1>1, <1>2, <1>3 DEF Before
  <1> QED
    BY <1>4 DEF First

\* Of two projectors at the same transition and at different routes, one has
\* passed the other's.
LEMMA OneIsAhead ==
    ASSUME NEW a, NEW b, a \subseteq Routes, b \subseteq Routes, a # {}, b # {},
           First(a) # First(b)
    PROVE  First(a) \in Routes \ b \/ First(b) \in Routes \ a
  <1>1. First(a) \in a /\ First(b) \in b /\ First(a) \in Routes /\ First(b) \in Routes
    BY FirstOf
  <1>2. SUFFICES ASSUME First(a) \in b, First(b) \in a PROVE FALSE
    BY <1>1
  <1>3. Before(First(a), First(b)) /\ Before(First(b), First(a))
    BY <1>2, FirstOf
  <1>4. First(a).policy = First(b).policy /\ First(a).place = First(b).place
    <2>1. First(a).policy \in Nat /\ First(b).policy \in Nat /\ First(a).place \in Nat /\ First(b).place \in Nat
      BY <1>1, RouteFacts
    <2> QED
      BY <2>1, <1>3 DEF Before
  <1>5. First(a) = [policy |-> First(a).policy, place |-> First(a).place]
        /\ First(b) = [policy |-> First(b).policy, place |-> First(b).place]
    BY <1>1, RouteFacts
  <1> QED
    BY <1>4, <1>5

\* The states a projector starts, and the ones it moves to.
LEMMA FreshIsWorker ==
    /\ IsWorker(Fresh) /\ ~Projecting(Fresh) /\ Fresh.at = "fetch"
    /\ IsWorker([Fresh EXCEPT !.at = "pick"]) /\ ~Projecting([Fresh EXCEPT !.at = "pick"])
  BY DEF IsWorker, Fresh, Projecting, WorkerFields, Places

LEMMA BeginIsWorker ==
    ASSUME NEW todo, todo \subseteq Nat \ {0}, todo # {}
    PROVE  /\ IsWorker(Begin(todo)) /\ Projecting(Begin(todo))
           /\ Begin(todo).todo = todo /\ Begin(todo).routes = Routes
           /\ Begin(todo).at \in {"decide", "mark"}
  BY DEF IsWorker, Begin, Fresh, Projecting, WorkerFields, Places

LEMMA AfterRouteIsWorker ==
    ASSUME NEW w, IsWorker(worker[w]), worker[w].at = "commit"
    PROVE  /\ IsWorker(AfterRoute(w)) /\ Projecting(AfterRoute(w))
           /\ AfterRoute(w).todo = worker[w].todo
           /\ AfterRoute(w).routes = worker[w].routes \ {Route(w)}
           /\ AfterRoute(w).at \in {"decide", "mark"}
  BY DEF IsWorker, AfterRoute, Projecting, WorkerFields, Places

\* Writing one service's state.
LEMMA WorkerUpdate ==
    ASSUME TypeOK, NEW w \in Workers, NEW v, worker' = [worker EXCEPT ![w] = v]
    PROVE  /\ worker' = [x \in Workers |-> worker'[x]]
           /\ worker'[w] = v
           /\ \A x \in Workers : x # w => worker'[x] = worker[x]
           /\ IsWorker(v) => WorkersOK'
  BY DEF TypeOK, WorkersOK

\* Writing one notification.
LEMMA NoteUpdate ==
    ASSUME TypeOK, NEW i \in DOMAIN notes, NEW n, IsNote(n), notes' = [notes EXCEPT ![i] = n]
    PROVE  /\ NotesOK' /\ DOMAIN notes' = DOMAIN notes
           /\ notes'[i] = n
           /\ \A j \in DOMAIN notes : j # i => notes'[j] = notes[j]
  BY DEF TypeOK, NotesOK

-----------------------------------------------------------------------------
(* Decisions are kept, and projectors leave them behind.                     *)

\* Nothing that was decided is forgotten while rows only move to the retired.
LEMMA DecidedGrows ==
    ASSUME DOMAIN notes \subseteq DOMAIN notes' \cup retired', retired \subseteq retired',
           \A s \in suppressions : s.id \in retired' \/ \E x \in suppressions' : x.id = s.id
    PROVE  \A id : Decided(id) => Decided(id)'
  BY DEF Decided, Suppressed

LEMMA ProgressKept ==
    ASSUME NEW v, ProgressOf(v), projected \subseteq projected',
           \A id : Decided(id) => Decided(id)'
    PROVE  ProgressOf(v)'
  BY DEF ProgressOf

\* A service moves and the others stay.
LEMMA ProgressStep ==
    ASSUME CoreInv, NEW w \in Workers, NEW v, worker' = [worker EXCEPT ![w] = v],
           projected \subseteq projected', \A id : Decided(id) => Decided(id)',
           ProgressOf(v)'
    PROVE  \A x \in Workers : ProgressOf(worker[x])'
  <1> SUFFICES ASSUME NEW x \in Workers PROVE ProgressOf(worker[x])'
    OBVIOUS
  <1>1. CASE x = w
    <2>1. worker'[x] = v
      BY <1>1, WorkerUpdate DEF CoreInv
    <2> QED
      BY <2>1 DEF ProgressOf, Decided, Suppressed
  <1>2. CASE x # w
    <2>1. worker'[x] = worker[x]
      BY <1>2, WorkerUpdate DEF CoreInv
    <2>2. ProgressOf(worker[x])
      BY DEF CoreInv
    <2> QED
      BY <2>1, <2>2 DEF ProgressOf
  <1> QED
    BY <1>1, <1>2

\* A service that is not projecting has nothing to answer for.
LEMMA IdleProgress ==
    ASSUME NEW v, ~Projecting(v)
    PROVE  ProgressOf(v) /\ ProgressOf(v)'
  BY DEF ProgressOf

\* Deliveries that claims only add to leave the stored outcomes behind.
LEMMA AttemptsStay ==
    ASSUME AttemptInv, UNCHANGED attempts,
           \A i \in DOMAIN notes :
             /\ i \in DOMAIN notes' /\ notes[i].attempts \in Nat /\ notes'[i].attempts \in Nat
             /\ notes[i].attempts <= notes'[i].attempts
             /\ notes'[i].delivery = "sending" =>
                  notes[i].delivery = "sending" \/ notes[i].attempts < notes'[i].attempts
    PROVE  AttemptInv'
  <1> SUFFICES ASSUME NEW a \in attempts
               PROVE  /\ a.number = a.claim /\ a.number \in Nat
                      /\ a.id \in DOMAIN notes'
                      /\ a.number <= notes'[a.id].attempts
                      /\ notes'[a.id].delivery = "sending" => a.number < notes'[a.id].attempts
    BY DEF AttemptInv
  <1>1. /\ a.number = a.claim /\ a.number \in Nat /\ a.id \in DOMAIN notes
        /\ a.number <= notes[a.id].attempts
        /\ notes[a.id].delivery = "sending" => a.number < notes[a.id].attempts
    BY DEF AttemptInv
  <1> QED
    BY <1>1

\* The same when one delivery's row is written.
LEMMA AttemptsEdit ==
    ASSUME CoreInv, UNCHANGED attempts, NEW i \in DOMAIN notes, NEW n, IsNote(n), notes' = [notes EXCEPT ![i] = n],
           notes[i].attempts <= n.attempts,
           n.delivery = "sending" => notes[i].delivery = "sending" \/ notes[i].attempts < n.attempts
    PROVE  AttemptInv'
  <1>1. /\ DOMAIN notes' = DOMAIN notes /\ notes'[i] = n
        /\ \A j \in DOMAIN notes : j # i => notes'[j] = notes[j]
    BY NoteUpdate DEF CoreInv
  <1>2. n.attempts \in Nat /\ \A j \in DOMAIN notes : notes[j].attempts \in Nat
    BY DEF CoreInv, TypeOK, NotesOK, IsNote
  <1>3. AttemptInv
    BY DEF CoreInv
  <1> QED
    BY <1>1, <1>2, <1>3, AttemptsStay

\* The steps that only change a service's own state.
LEMMA LocalStep ==
    ASSUME CoreInv, NEW w \in Workers, NEW v, IsWorker(v), ProgressOf(v),
           worker' = [worker EXCEPT ![w] = v],
           UNCHANGED <<emitted, projected, notes, suppressions, dedup, attempts, retired>>
    PROVE  CoreInv'
  <1>1. \A id : Decided(id) => Decided(id)'
    BY DEF Decided, Suppressed
  <1>2. ProgressOf(v)'
    BY <1>1, ProgressKept
  <1>3. \A x \in Workers : ProgressOf(worker[x])'
    BY <1>1, <1>2, ProgressStep
  <1>4. TypeOK'
    <2>1. WorkersOK'
      BY WorkerUpdate DEF CoreInv
    <2> QED
      BY <2>1 DEF CoreInv, TypeOK, NotesOK, RowsOK, SuppressionsOK
  <1>5. DeliveryInv' /\ AttemptInv' /\ DecisionsAreKept'
    BY DEF CoreInv, DeliveryInv, Allowed, AttemptInv, DecisionsAreKept, Suppressed
  <1> QED
    BY <1>3, <1>4, <1>5 DEF CoreInv

-----------------------------------------------------------------------------
(* The services' local steps.                                                *)

LEMMA FetchCore ==
    ASSUME CoreInv, NEW w \in Workers, get_unprojected_transitions(w)
    PROVE  CoreInv'
  <1> DEFINE open == (1 .. emitted) \ projected
             first == {t \in open : Cardinality({u \in open : u < t}) < ProjectLimit}
  <1>0. emitted \in Nat /\ open \subseteq Nat /\ open # {}
    BY DEF CoreInv, TypeOK, get_unprojected_transitions
  <1>1. first # {} /\ first \subseteq Nat \ {0}
    <2>1. PICK m \in open : \A y \in open : m <= y
      <3> HIDE DEF open
      <3> QED
        BY <1>0, LeastNumber
    <2>2. {u \in open : u < m} = {}
      BY <2>1, <1>0
    <2>3. Cardinality({u \in open : u < m}) = 0
      BY <2>2, FS_EmptySet
    <2>4. Cardinality({u \in open : u < m}) < ProjectLimit
      BY <2>3, ConfigurationAssumption
    <2>5. m \in first
      BY <2>4
    <2> QED
      BY <2>5, <1>0
  <1>2. \A t \in first : \A u \in 1 .. t : u \in first \/ u \in projected
    <2> SUFFICES ASSUME NEW t \in first, NEW u \in 1 .. t, u \notin projected PROVE u \in first
      OBVIOUS
    <2>1. u \in open /\ t \in open /\ u <= t
      BY <1>0
    <2>2. IsFiniteSet({x \in open : x < t})
      <3>1. IsFiniteSet(1 .. emitted)
        BY <1>0, FS_Interval
      <3> QED
        BY <3>1, FS_Subset
    <2>3. {x \in open : x < u} \subseteq {x \in open : x < t}
      BY <2>1, <1>0
    <2>4. Cardinality({x \in open : x < u}) <= Cardinality({x \in open : x < t})
          /\ IsFiniteSet({x \in open : x < u})
      BY <2>2, <2>3, FS_Subset
    <2>5. Cardinality({x \in open : x < u}) \in Nat /\ Cardinality({x \in open : x < t}) \in Nat
      BY <2>2, <2>4, FS_CardinalityType
    <2> QED
      BY <2>1, <2>4, <2>5, ConfigurationAssumption
  <1>3. worker' = [worker EXCEPT ![w] = Begin(first)]
    BY DEF get_unprojected_transitions
  <1> HIDE DEF first, open
  <1>4. IsWorker(Begin(first)) /\ ProgressOf(Begin(first))
    BY <1>1, <1>2, BeginIsWorker DEF ProgressOf
  <1> QED
    BY <1>3, <1>4, LocalStep DEF get_unprojected_transitions

\* The state of a service that has decided.
Deciding(w) ==
  [worker[w] EXCEPT !.at = "commit",
                    !.decision = Decision(Route(w).policy, Channel(Route(w)), Transition(w))]

LEMMA DecideMove ==
    ASSUME TypeOK, NEW w \in Workers, Decide(w)
    PROVE  /\ worker' = [worker EXCEPT ![w] = Deciding(w)]
           /\ IsWorker(Deciding(w))
           /\ Deciding(w).at = "commit" /\ Deciding(w).todo = worker[w].todo
           /\ Deciding(w).routes = worker[w].routes
           /\ Deciding(w).decision = Decision(Route(w).policy, Channel(Route(w)), Transition(w))
           /\ Projecting(worker[w]) /\ Projecting(Deciding(w))
  <1>1. worker' = [worker EXCEPT ![w] = Deciding(w)]
    BY DEF Decide, Deciding, TypeOK, WorkersOK
  <1>2. IsWorker(worker[w]) /\ worker[w].at = "decide"
    BY DEF TypeOK, WorkersOK, Decide
  <1> QED
    BY <1>1, <1>2 DEF Deciding, IsWorker, WorkerFields, Places, Projecting

LEMMA DecideCore ==
    ASSUME CoreInv, NEW w \in Workers, Decide(w)
    PROVE  CoreInv'
  <1>0. TypeOK
    BY DEF CoreInv
  <1>1. Decision(Route(w).policy, Channel(Route(w)), Transition(w)) = "seen" =>
          Suppressed(route_key(Route(w), Transition(w)))
    BY DEF Decision, route_key
  <1>2. ProgressOf(worker[w])
    BY DEF CoreInv
  <1>3. ProgressOf(Deciding(w))
    BY <1>0, <1>1, <1>2, DecideMove DEF ProgressOf, Decided, Route, Transition
  <1> QED
    BY <1>0, <1>3, DecideMove, LocalStep DEF Decide

LEMMA PickCore ==
    ASSUME CoreInv, NEW w \in Workers, Pick(w)
    PROVE  CoreInv'
  <1>1. CASE worker' = [worker EXCEPT ![w] = Fresh]
    BY <1>1, FreshIsWorker, IdleProgress, LocalStep DEF Pick
  <1>2. ASSUME NEW i \in DOMAIN notes, Due(notes[i]),
               worker' = [worker EXCEPT ![w] = [Fresh EXCEPT !.at = "claim", !.id = i, !.outcome = notes[i].delivery]]
        PROVE  CoreInv'
    <2> DEFINE v == [Fresh EXCEPT !.at = "claim", !.id = i, !.outcome = notes[i].delivery]
    <2>1. notes[i].delivery \in {"pending", "sending"}
      BY <1>2 DEF Due, Expired
    <2>2. IsWorker(v) /\ ~Projecting(v)
      BY <2>1 DEF IsWorker, Fresh, Projecting, WorkerFields, Places
    <2>3. worker' = [worker EXCEPT ![w] = v]
      BY <1>2
    <2> HIDE DEF v
    <2> QED
      BY <2>2, <2>3, IdleProgress, LocalStep DEF Pick
  <1> QED
    BY <1>1, <1>2 DEF Pick

LEMMA SendCore ==
    ASSUME CoreInv, NEW w \in Workers, send(w)
    PROVE  CoreInv'
  <1>1. PICK o \in Outcomes : worker' = [worker EXCEPT ![w].at = "finish", ![w].outcome = o]
    BY DEF send
  <1> DEFINE v == [worker[w] EXCEPT !.at = "finish", !.outcome = o]
  <1>2. worker' = [worker EXCEPT ![w] = v]
    BY <1>1 DEF CoreInv, TypeOK, WorkersOK
  <1>3. IsWorker(v) /\ ~Projecting(v)
    BY DEF CoreInv, TypeOK, WorkersOK, IsWorker, Projecting, WorkerFields, Places
  <1> HIDE DEF v
  <1> QED
    BY <1>2, <1>3, IdleProgress, LocalStep DEF send

LEMMA CrashCore ==
    ASSUME CoreInv, NEW w \in Workers, Crash(w)
    PROVE  CoreInv'
  BY FreshIsWorker, IdleProgress, LocalStep DEF Crash

-----------------------------------------------------------------------------
(* The counters' rows.                                                       *)

LEMMA RowType ==
    ASSUME RowsOK, NEW k
    PROVE  IsRow(State(k))
  <1>1. Oldest \in Nat
    BY ConfigurationAssumption DEF Oldest
  <1>2. IsRow(NoState)
    BY <1>1 DEF IsRow, NoState, RowFields
  <1> QED
    BY <1>2 DEF RowsOK, State

\* The rows a notification writes.
MarkRow(r) == [r EXCEPT !.last = 0, !.updated = 0]
CountRow(r, start, n) == [r EXCEPT !.start = start, !.count = n + 1, !.updated = 0]

LEMMA MarkRowFacts ==
    ASSUME NEW r, IsRow(r)
    PROVE  IsRow(MarkRow(r)) /\ MarkRow(r).last = 0 /\ MarkRow(r).updated = 0
  <1>0. Oldest \in Nat
    BY ConfigurationAssumption DEF Oldest
  <1> DEFINE m == MarkRow(r)
  <1>1. m = [x \in RowFields |-> CASE x \in {"last", "updated"} -> 0 [] OTHER -> r[x]]
    BY DEF IsRow, RowFields, MarkRow
  <1>2. m.last = 0 /\ m.updated = 0 /\ m.start = r.start /\ m.count = r.count /\ m = [x \in RowFields |-> m[x]]
    BY <1>1 DEF RowFields
  <1> HIDE DEF m
  <1>3. IsRow(m)
    BY <1>0, <1>2 DEF IsRow
  <1> QED
    BY <1>2, <1>3 DEF m

LEMMA CountRowFacts ==
    ASSUME NEW r, IsRow(r), NEW start \in 0 .. Oldest, NEW n \in Nat
    PROVE  LET e == CountRow(r, start, n)
           IN IsRow(e) /\ e.start = start /\ e.count = n + 1 /\ e.updated = 0
  <1>0. Oldest \in Nat
    BY ConfigurationAssumption DEF Oldest
  <1> DEFINE e == CountRow(r, start, n)
  <1>1. e = [x \in RowFields |-> CASE x = "updated" -> 0 [] x = "count" -> n + 1
                                   [] x = "start" -> start [] OTHER -> r[x]]
    BY DEF IsRow, RowFields, CountRow
  <1>2. e.last = r.last /\ e.updated = 0 /\ e.start = start /\ e.count = n + 1 /\ e = [x \in RowFields |-> e[x]]
    BY <1>1 DEF RowFields
  <1> HIDE DEF e
  <1>3. IsRow(e)
    BY <1>0, <1>2 DEF IsRow
  <1> QED
    BY <1>2, <1>3 DEF e

\* The windows a decision is counted in, by key.
LEMMA WindowsByKey ==
    ASSUME NEW p \in DOMAIN Policies, NEW c
    PROVE  /\ \A w \in Windows(p, c) : w.key \in {<<"channel", c>>, <<"global">>}
           /\ \A v, w \in Windows(p, c) : v.key = w.key => v = w
           /\ \A w \in Windows(p, c) :
                w.key = <<"channel", c>> =>
                  w.length = Policies[p].window_seconds /\ w.max = Policies[p].max_notifications
           /\ \E w \in Windows(p, c) : w.key = <<"channel", c>>
           /\ \A w \in Windows(p, c) : w.length \in 0 .. RetentionSeconds
  <1> DEFINE ch == [key |-> <<"channel", c>>, length |-> Policies[p].window_seconds, max |-> Policies[p].max_notifications]
             gl == [key |-> <<"global">>, length |-> GlobalWindow, max |-> GlobalMax]
  <1>1. <<"channel", c>> # <<"global">>
    OBVIOUS
  <1>2. /\ ch.key = <<"channel", c>> /\ gl.key = <<"global">>
        /\ ch.length = Policies[p].window_seconds /\ ch.max = Policies[p].max_notifications
        /\ ch.length \in 0 .. RetentionSeconds /\ gl.length \in 0 .. RetentionSeconds
    BY ConfigurationAssumption
  <1>3. Windows(p, c) = {ch} \/ Windows(p, c) = {ch, gl}
    BY DEF Windows
  <1> HIDE DEF ch, gl
  <1> QED
    BY <1>1, <1>2, <1>3

\* A scope's key is no window's.
LEMMA ScopeIsNoWindow ==
    ASSUME NEW p, NEW c, NEW t, NEW d
    PROVE  Scope(p, c, t) # <<"channel", d>> /\ Scope(p, c, t) # <<"global">>
  BY DEF Scope

\* What counting a notification writes.
LEMMA CountedFacts ==
    ASSUME RowsOK, NEW p \in DOMAIN Policies, NEW c, NEW t
    PROVE  LET f == Counted(p, c, t)
               ch == <<"channel", c>>
               sc == Scope(p, c, t)
               now == State(ch).start < Policies[p].window_seconds
           IN /\ f = [k \in DOMAIN f |-> f[k]]
              /\ \A k \in DOMAIN f : IsRow(f[k])
              /\ DOMAIN dedup \subseteq DOMAIN f /\ ch \in DOMAIN f /\ sc \in DOMAIN f
              /\ f[ch].start = (IF now THEN State(ch).start ELSE 0)
              /\ f[ch].count = (IF now THEN State(ch).count + 1 ELSE 1)
              /\ f[ch].updated = 0
              /\ f[sc].last = 0 /\ f[sc].updated = 0
              /\ \A k \in DOMAIN f : k \notin {ch, sc, <<"global">>} => k \in DOMAIN dedup /\ f[k] = dedup[k]
  <1> DEFINE f == Counted(p, c, t)
             ch == <<"channel", c>>
             sc == Scope(p, c, t)
             touched == {w.key : w \in Windows(p, c)}
             window(k) == CHOOSE w \in Windows(p, c) : w.key = k
             row(k) == [State(k) EXCEPT !.start = IF Current(window(k)) THEN @ ELSE 0,
                                        !.count = WindowCount(window(k)) + 1, !.updated = 0]
             mark == [State(sc) EXCEPT !.last = 0, !.updated = 0]
             now == State(ch).start < Policies[p].window_seconds
  <1>0. Oldest \in Nat
    BY ConfigurationAssumption DEF Oldest
  <1>1. \A k \in touched : window(k) \in Windows(p, c) /\ window(k).key = k
    OBVIOUS
  <1>2. f = [k \in DOMAIN dedup \cup touched \cup {sc} |->
               IF k \in touched THEN row(k) ELSE IF k = sc THEN mark ELSE dedup[k]]
    BY DEF Counted
  <1>3. sc \notin touched /\ ch \in touched /\ touched \subseteq {ch, <<"global">>}
    BY WindowsByKey, ScopeIsNoWindow
  <1>4. IsRow(mark) /\ mark.last = 0 /\ mark.updated = 0
    <2>1. IsRow(State(sc))
      BY RowType
    <2>2. mark = MarkRow(State(sc))
      BY DEF MarkRow
    <2> QED
      BY <2>1, <2>2, MarkRowFacts
  <1>5. ASSUME NEW k \in touched
        PROVE  /\ IsRow(row(k)) /\ row(k).updated = 0
               /\ row(k).start = (IF State(k).start < window(k).length THEN State(k).start ELSE 0)
               /\ row(k).count = (IF State(k).start < window(k).length THEN State(k).count + 1 ELSE 1)
    <2>1. IsRow(State(k))
      BY RowType
    <2>2. window(k).key = k
      BY <1>1
    <2> DEFINE w == window(k)
    <2>3. Current(w) <=> State(k).start < w.length
      BY <2>2 DEF Current
    <2>4. WindowCount(w) = IF State(k).start < w.length THEN State(k).count ELSE 0
      BY <2>2, <2>3 DEF WindowCount
    <2> DEFINE cur == State(k).start < w.length
               cnt == IF cur THEN State(k).count ELSE 0
               from == IF cur THEN State(k).start ELSE 0
               r == State(k)
    <2>5. row(k) = CountRow(r, from, cnt)
      BY <2>3, <2>4 DEF CountRow
    <2>6. cnt \in Nat /\ from \in 0 .. Oldest /\ IsRow(r)
      BY <2>1, <1>0 DEF IsRow
    <2> HIDE DEF w, row, cur, cnt, from, r, touched, window, mark, now, f, ch, sc
    <2>7. LET e == CountRow(r, from, cnt)
          IN IsRow(e) /\ e.start = from /\ e.count = cnt + 1 /\ e.updated = 0
      BY <2>6, CountRowFacts
    <2>8. /\ IsRow(row(k)) /\ row(k).updated = 0
          /\ row(k).start = from /\ row(k).count = cnt + 1
      BY <2>5, <2>7
    <2> QED
      BY <2>1, <2>8 DEF cur, w, cnt, from, r, IsRow
  <1>6. window(ch).length = Policies[p].window_seconds
    BY <1>1, <1>3, WindowsByKey
  <1> HIDE DEF row, mark, window, touched
  <1>7. \A k \in DOMAIN f : IsRow(f[k])
    BY <1>2, <1>3, <1>4, <1>5 DEF RowsOK
  <1>8. /\ f[ch].start = (IF now THEN State(ch).start ELSE 0)
        /\ f[ch].count = (IF now THEN State(ch).count + 1 ELSE 1)
        /\ f[ch].updated = 0
    <2>1. f[ch] = row(ch)
      BY <1>2, <1>3
    <2> QED
      BY <2>1, <1>3, <1>5, <1>6
  <1>9. f[sc].last = 0 /\ f[sc].updated = 0
    BY <1>2, <1>3, <1>4
  <1>10. \A k \in DOMAIN f : k \notin {ch, sc, <<"global">>} => k \in DOMAIN dedup /\ f[k] = dedup[k]
    BY <1>2, <1>3
  <1>11. f = [k \in DOMAIN f |-> f[k]] /\ DOMAIN dedup \subseteq DOMAIN f /\ ch \in DOMAIN f /\ sc \in DOMAIN f
    BY <1>2, <1>3
  <1> QED
    BY <1>7, <1>8, <1>9, <1>10, <1>11

\* The row of a key in a set of rows.
RowOf(f, k) == IF k \in DOMAIN f THEN f[k] ELSE NoState

\* Rows that remember the same and are no older.
SameRows(f) ==
  /\ f = [k \in DOMAIN f |-> f[k]]
  /\ \A k \in DOMAIN f : IsRow(f[k])
  /\ DOMAIN dedup \subseteq DOMAIN f
  /\ \A k : RowOf(f, k).last = State(k).last /\ RowOf(f, k).start = State(k).start
            /\ RowOf(f, k).count = State(k).count
  /\ \A k \in DOMAIN dedup : f[k].updated <= dedup[k].updated

LEMMA TouchIsSame ==
    ASSUME RowsOK, NEW k
    PROVE  SameRows(With(dedup, k, [State(k) EXCEPT !.updated = 0]))
  <1> DEFINE row == [State(k) EXCEPT !.updated = 0]
             f == With(dedup, k, row)
  <1>0. Oldest \in Nat
    BY ConfigurationAssumption DEF Oldest
  <1>1. IsRow(State(k))
    BY RowType
  <1>2. IsRow(row) /\ row.last = State(k).last /\ row.start = State(k).start /\ row.count = State(k).count
        /\ row.updated = 0
    BY <1>0, <1>1 DEF IsRow, RowFields
  <1> HIDE DEF row
  <1>3. f = [j \in DOMAIN dedup \cup {k} |-> IF j = k THEN row ELSE dedup[j]]
    BY DEF With
  <1>4. \A j \in DOMAIN f : IsRow(f[j])
    BY <1>2, <1>3 DEF RowsOK
  <1>5. \A j : RowOf(f, j).last = State(j).last /\ RowOf(f, j).start = State(j).start
               /\ RowOf(f, j).count = State(j).count
    BY <1>2, <1>3 DEF RowOf, State
  <1>6. \A j \in DOMAIN dedup : f[j].updated <= dedup[j].updated
    <2> SUFFICES ASSUME NEW j \in DOMAIN dedup PROVE f[j].updated <= dedup[j].updated
      OBVIOUS
    <2>1. IsRow(dedup[j])
      BY DEF RowsOK
    <2>2. dedup[j].updated \in Nat
      BY <2>1, <1>0 DEF IsRow
    <2> QED
      BY <2>2, <1>2, <1>3
  <1>7. f = [j \in DOMAIN f |-> f[j]] /\ DOMAIN dedup \subseteq DOMAIN f
    BY <1>3
  <1> HIDE DEF f
  <1>8. SameRows(f)
    BY <1>4, <1>5, <1>6, <1>7 DEF SameRows
  <1> QED
    BY <1>8 DEF f, row

LEMMA TouchedFacts ==
    ASSUME RowsOK, NEW p, NEW c, NEW t, NEW d
    PROVE  SameRows(Touched(p, c, t, d))
  <1>0. Oldest \in Nat
    BY ConfigurationAssumption DEF Oldest
  <1>1. SameRows(dedup)
    <2>1. \A k \in DOMAIN dedup : dedup[k].updated \in Nat
      BY <1>0 DEF RowsOK, IsRow
    <2> QED
      BY <2>1 DEF SameRows, RowsOK, RowOf, State
  <1> QED
    BY <1>1, TouchIsSame DEF Touched

-----------------------------------------------------------------------------
(* The steps that decide and mark.                                           *)

\* A new notification.
LEMMA Inserted ==
    ASSUME NotesOK, NEW id, IsKey(id), notes' = With(notes, id, Pending)
    PROVE  /\ NotesOK' /\ DOMAIN notes' = DOMAIN notes \cup {id}
           /\ notes'[id] = Pending
           /\ \A i \in DOMAIN notes : i # id => notes'[i] = notes[i]
  <1>0. Oldest \in Nat
    BY ConfigurationAssumption DEF Oldest
  <1>1. notes' = [i \in DOMAIN notes \cup {id} |-> IF i = id THEN Pending ELSE notes[i]]
    BY DEF With
  <1>2. IsNote(Pending)
    BY <1>0 DEF IsNote, Pending, NoteFields
  <1>3. IsFiniteSet(DOMAIN notes \cup {id})
    BY FS_AddElement DEF NotesOK
  <1>4. DOMAIN notes' = DOMAIN notes \cup {id}
    BY <1>1
  <1>5. IsFiniteSet(DOMAIN notes') /\ notes' = [i \in DOMAIN notes' |-> notes'[i]]
    BY <1>1, <1>3, <1>4
  <1>6. \A i \in DOMAIN notes' : IsKey(i) /\ IsNote(notes'[i])
    BY <1>1, <1>2 DEF NotesOK
  <1> QED
    BY <1>1, <1>4, <1>5, <1>6 DEF NotesOK

LEMMA PendingFacts ==
    /\ Pending.delivery = "pending" /\ Pending.attempts = 0 /\ Pending.age = 0
    /\ Pending.expiries = 0 /\ Pending.manual = 0
  BY DEF Pending

\* A suppression makes its identity decided and forgets none.
LEMMA SuppressFacts ==
    ASSUME NEW id, NEW reason, Suppress(id, reason)
    PROVE  /\ suppressions \subseteq suppressions'
           /\ \E s \in suppressions' : s.id = id
           /\ \A s \in suppressions' : s \in suppressions \/ s.id = id
           /\ SuppressionsOK => SuppressionsOK'
  <1> DEFINE new == [id |-> id, reason |-> reason, age |-> 0]
  <1>1. new.id = id /\ new = [x \in {"id", "reason", "age"} |-> new[x]]
    OBVIOUS
  <1>2. \/ suppressions' = suppressions \cup {} /\ \E s \in suppressions : s.id = id
        \/ suppressions' = suppressions \cup {new}
    BY DEF Suppress
  <1> HIDE DEF new
  <1> QED
    BY <1>1, <1>2 DEF SuppressionsOK

\* What a projector's commit does: the identity it was at is decided, and it
\* moves on.
CommitResult(w) ==
  /\ RowsOK' /\ NotesOK' /\ SuppressionsOK' /\ DeliveryInv'
  /\ DOMAIN notes \subseteq DOMAIN notes' /\ suppressions \subseteq suppressions'
  /\ \A i \in DOMAIN notes : notes'[i] = notes[i]
  /\ worker[w].decision # "seen" => 
       Held(worker[w]) \in DOMAIN notes' \/ \E s \in suppressions' : s.id = Held(worker[w])

LEMMA CommitWrites ==
    ASSUME CoreInv, NEW w \in Workers, create_decision(w)
    PROVE  CommitResult(w)
  <1> DEFINE id == Held(worker[w])
             d == worker[w].decision
             r == Route(w)
             t == Transition(w)
  <1>0. IsWorker(worker[w]) /\ worker[w].at = "commit" /\ RowsOK /\ NotesOK /\ SuppressionsOK
    BY DEF CoreInv, TypeOK, WorkersOK, create_decision
  <1>1. r \in Routes /\ id = route_key(r, t)
    <2>1. worker[w].routes \subseteq Routes /\ worker[w].routes # {}
      BY <1>0 DEF IsWorker
    <2> QED
      BY <2>1, FirstOf DEF Held, Route, Transition
  <1>2. IsKey(id) /\ r.policy \in DOMAIN Policies /\ id.channel \in DOMAIN Channels
    BY <1>1, RouteFacts
  <1>3. CASE d = "insert" /\ id \notin DOMAIN notes /\ notes' = With(notes, id, Pending)
             /\ dedup' = Counted(r.policy, Channel(r), t) /\ UNCHANGED suppressions
    <2>1. /\ NotesOK' /\ DOMAIN notes' = DOMAIN notes \cup {id} /\ notes'[id] = Pending
          /\ \A i \in DOMAIN notes : i # id => notes'[i] = notes[i]
      BY <1>0, <1>2, <1>3, Inserted
    <2>2. RowsOK'
      <3> DEFINE f == Counted(r.policy, Channel(r), t)
      <3>1. f = [k \in DOMAIN f |-> f[k]] /\ \A k \in DOMAIN f : IsRow(f[k])
        BY <1>0, <1>2, CountedFacts
      <3> HIDE DEF f
      <3>2. dedup' = f
        BY <1>3 DEF f
      <3> QED
        BY <3>1, <3>2 DEF RowsOK
    <2>3. DeliveryInv'
      <3> SUFFICES ASSUME NEW i \in DOMAIN notes'
                   PROVE  /\ notes'[i].attempts <= Allowed(i)'
                          /\ notes'[i].delivery = "pending" => notes'[i].attempts < Allowed(i)'
                          /\ notes'[i].delivery = "sending" => notes'[i].token = notes'[i].attempts
        BY DEF DeliveryInv
      <3>1. CASE i = id
        <4>1. Allowed(i)' = Channels[id.channel].max_attempts
          BY <3>1, <2>1, <1>2, PendingFacts, ConfigurationAssumption DEF Allowed
        <4>2. Channels[id.channel].max_attempts \in Nat \ {0}
          BY <1>2, ConfigurationAssumption
        <4> QED
          BY <3>1, <4>1, <4>2, <2>1, PendingFacts
      <3>2. CASE i # id
        <4>1. i \in DOMAIN notes /\ notes'[i] = notes[i]
          BY <3>2, <2>1
        <4> QED
          BY <4>1 DEF CoreInv, DeliveryInv, Allowed
      <3> QED
        BY <3>1, <3>2
    <2> QED
      BY <1>0, <1>3, <2>1, <2>2, <2>3 DEF CommitResult, SuppressionsOK
  <1>4. CASE d = "seen" /\ UNCHANGED <<notes, dedup, suppressions>>
    BY <1>0, <1>4 DEF CommitResult, CoreInv, DeliveryInv, Allowed, RowsOK, NotesOK, SuppressionsOK
  <1>5. ASSUME NEW reason, Suppress(id, reason), dedup' = Touched(r.policy, Channel(r), t, d), UNCHANGED notes
        PROVE  CommitResult(w)
    <2>1. RowsOK'
      <3> DEFINE f == Touched(r.policy, Channel(r), t, d)
      <3>1. f = [k \in DOMAIN f |-> f[k]] /\ \A k \in DOMAIN f : IsRow(f[k])
        BY <1>0, TouchedFacts DEF SameRows
      <3> HIDE DEF f
      <3>2. dedup' = f
        BY <1>5 DEF f
      <3> QED
        BY <3>1, <3>2 DEF RowsOK
    <2>2. suppressions \subseteq suppressions' /\ (\E s \in suppressions' : s.id = id) /\ SuppressionsOK'
      BY <1>0, <1>5, SuppressFacts
    <2>3. NotesOK' /\ DeliveryInv'
      BY <1>0, <1>5 DEF CoreInv, DeliveryInv, Allowed, NotesOK
    <2> QED
      BY <1>5, <2>1, <2>2, <2>3 DEF CommitResult
  <1> HIDE DEF id, d, r, t
  <1> QED
    BY <1>1, <1>3, <1>4, <1>5 DEF create_decision, id, d, r, t

LEMMA KeptStep ==
    ASSUME DecisionsAreKept, \A id : Decided(id) => Decided(id)',
           \A t \in projected' \ projected : \A r \in Routes : Decided(route_key(r, t))
    PROVE  DecisionsAreKept'
  <1> SUFFICES ASSUME NEW u \in projected', NEW r \in Routes
               PROVE  LET id == route_key(r, u)
                      IN id \in DOMAIN notes' \/ Suppressed(id)' \/ id \in retired'
    BY DEF DecisionsAreKept
  <1>1. Decided(route_key(r, u))
    BY DEF DecisionsAreKept, Decided
  <1> DEFINE id == route_key(r, u)
  <1>2. Decided(id)'
    BY <1>1
  <1> QED
    BY <1>2 DEF Decided

LEMMA CommitCore ==
    ASSUME CoreInv, NEW w \in Workers, create_decision(w)
    PROVE  CoreInv'
  <1>0. TypeOK /\ IsWorker(worker[w]) /\ worker[w].at = "commit" /\ ProgressOf(worker[w])
    BY DEF CoreInv, TypeOK, WorkersOK, create_decision
  <1>1. CommitResult(w)
    BY CommitWrites
  <1>2. PICK v : v = AfterRoute(w)
    OBVIOUS
  <1>3. /\ IsWorker(v) /\ v.todo = worker[w].todo /\ v.routes = worker[w].routes \ {Route(w)}
        /\ v.at \in {"decide", "mark"}
    BY <1>0, <1>2, AfterRouteIsWorker
  <1>4. worker' = [worker EXCEPT ![w] = v]
    BY <1>2 DEF create_decision
  <1>5. UNCHANGED <<emitted, projected, attempts, retired>>
    BY DEF create_decision
  <1>6. \A id : Decided(id) => Decided(id)'
    BY <1>1, <1>5, DecidedGrows DEF CommitResult
  <1>7. ProgressOf(v)'
    <2>1. \A r \in Routes \ worker[w].routes : Decided(route_key(r, Min(worker[w].todo)))
      BY <1>0 DEF ProgressOf, Projecting
    <2>2. \A id : (id \in DOMAIN notes' \/ \E s \in suppressions' : s.id = id) => Decided(id)'
      BY DEF Decided, Suppressed
    <2>3. PICK h : h = Held(worker[w])
      OBVIOUS
    <2>4. Decided(h)'
      <3>1. CASE worker[w].decision = "seen"
        BY <3>1, <1>0, <1>6, <2>3 DEF ProgressOf, Projecting, Held
      <3>2. CASE worker[w].decision # "seen"
        BY <3>2, <1>1, <2>2, <2>3 DEF CommitResult
      <3> QED
        BY <3>1, <3>2
    <2>5. \A r \in Routes \ v.routes : Decided(route_key(r, Min(v.todo)))'
      <3> SUFFICES ASSUME NEW r \in Routes \ v.routes PROVE Decided(route_key(r, Min(v.todo)))'
        OBVIOUS
      <3>1. CASE r = Route(w)
        <4>1. route_key(r, Min(v.todo)) = h
          BY <3>1, <1>3, <2>3 DEF Held, Route
        <4> QED
          BY <4>1, <2>4
      <3>2. CASE r # Route(w)
        BY <3>2, <1>3, <1>6, <2>1
      <3> QED
        BY <3>1, <3>2
    <2>6. \A t \in v.todo : \A u \in 1 .. t : u \in v.todo \/ u \in projected'
      BY <1>0, <1>3, <1>5 DEF ProgressOf, Projecting
    <2> QED
      BY <2>5, <2>6, <1>3 DEF ProgressOf
  <1>8. \A x \in Workers : ProgressOf(worker[x])'
    BY <1>4, <1>5, <1>6, <1>7, ProgressStep
  <1>9. TypeOK'
    BY <1>0, <1>1, <1>3, <1>4, <1>5, WorkerUpdate DEF CommitResult, TypeOK
  <1>10. DecisionsAreKept'
    <2>1. DecisionsAreKept
      BY DEF CoreInv
    <2> QED
      BY <1>5, <1>6, <2>1, KeptStep
  <1>11. AttemptInv'
    <2>1. AttemptInv /\ \A i \in DOMAIN notes : notes[i].attempts \in Nat
      BY DEF CoreInv, TypeOK, NotesOK, IsNote
    <2> QED
      BY <1>1, <1>5, <2>1, AttemptsStay DEF CommitResult
  <1> QED
    BY <1>1, <1>8, <1>9, <1>10, <1>11 DEF CoreInv, CommitResult

LEMMA MarkCore ==
    ASSUME CoreInv, NEW w \in Workers, mark_projected(w)
    PROVE  CoreInv'
  <1>0. TypeOK /\ IsWorker(worker[w]) /\ worker[w].at = "mark" /\ ProgressOf(worker[w])
    BY DEF CoreInv, TypeOK, WorkersOK, mark_projected
  <1>1. worker[w].todo # {} /\ worker[w].todo \subseteq Nat \ {0} /\ worker[w].routes = {}
    BY <1>0 DEF IsWorker, Projecting
  <1>2. PICK t : t = Transition(w)
    OBVIOUS
  <1>3. t \in worker[w].todo /\ \A r \in Routes : Decided(route_key(r, t))
    BY <1>0, <1>1, <1>2, LeastOf DEF ProgressOf, Projecting, Transition
  <1>4. UNCHANGED <<emitted, notes, suppressions, dedup, attempts, retired>> /\ projected' = projected \cup {t}
    BY <1>2 DEF mark_projected
  <1>5. \A id : Decided(id) => Decided(id)'
    BY <1>4 DEF Decided, Suppressed
  <1>6. PICK v : v = AfterMark(w)
    OBVIOUS
  <1>7. PICK rest : rest = worker[w].todo \ {t}
    OBVIOUS
  <1>8. IsWorker(v) /\ ProgressOf(v)'
    <2>1. CASE rest = {}
      <3>1. v = [Fresh EXCEPT !.at = "pick"]
        BY <2>1, <1>2, <1>6, <1>7 DEF AfterMark
      <3> QED
        BY <3>1, FreshIsWorker, IdleProgress
    <2>2. CASE rest # {}
      <3>1. v = Begin(rest)
        BY <2>2, <1>2, <1>6, <1>7 DEF AfterMark
      <3>2. rest \subseteq Nat \ {0}
        BY <1>1, <1>7
      <3>3. IsWorker(v) /\ v.todo = rest /\ v.routes = Routes /\ v.at \in {"decide", "mark"}
        BY <2>2, <3>1, <3>2, BeginIsWorker
      <3>4. \A x \in rest : \A u \in 1 .. x : u \in rest \/ u \in projected'
        BY <1>0, <1>4, <1>7 DEF ProgressOf, Projecting
      <3> QED
        BY <3>3, <3>4 DEF ProgressOf
    <2> QED
      BY <2>1, <2>2
  <1>9. worker' = [worker EXCEPT ![w] = v]
    BY <1>6 DEF mark_projected
  <1>10. \A x \in Workers : ProgressOf(worker[x])'
    BY <1>4, <1>5, <1>8, <1>9, ProgressStep
  <1>11. DecisionsAreKept'
    BY <1>3, <1>4, <1>5, KeptStep DEF CoreInv
  <1>12. TypeOK'
    BY <1>0, <1>4, <1>8, <1>9, WorkerUpdate DEF TypeOK, NotesOK, RowsOK, SuppressionsOK
  <1>13. DeliveryInv' /\ AttemptInv'
    BY <1>4 DEF CoreInv, DeliveryInv, Allowed, AttemptInv
  <1> QED
    BY <1>10, <1>11, <1>12, <1>13 DEF CoreInv

-----------------------------------------------------------------------------
(* Deliveries, operators, retention and the clock.                           *)

\* A delivery's row is written and its claims stay within what is allowed.
LEMMA DeliveryEdit ==
    ASSUME CoreInv, NEW i \in DOMAIN notes, NEW n, IsNote(n), notes' = [notes EXCEPT ![i] = n],
           n.attempts <= Channels[i.channel].max_attempts + n.expiries + n.manual,
           n.delivery = "pending" => n.attempts < Channels[i.channel].max_attempts + n.expiries + n.manual,
           n.delivery = "sending" => n.token = n.attempts
    PROVE  NotesOK' /\ DeliveryInv' /\ DOMAIN notes' = DOMAIN notes
  <1>1. /\ NotesOK' /\ DOMAIN notes' = DOMAIN notes /\ notes'[i] = n
        /\ \A j \in DOMAIN notes : j # i => notes'[j] = notes[j]
    BY NoteUpdate DEF CoreInv
  <1>2. DeliveryInv'
    <2> SUFFICES ASSUME NEW j \in DOMAIN notes
                 PROVE  /\ notes'[j].attempts <= Allowed(j)'
                        /\ notes'[j].delivery = "pending" => notes'[j].attempts < Allowed(j)'
                        /\ notes'[j].delivery = "sending" => notes'[j].token = notes'[j].attempts
      BY <1>1 DEF DeliveryInv
    <2>1. CASE j = i
      BY <1>1, <2>1 DEF Allowed
    <2>2. CASE j # i
      BY <1>1, <2>2 DEF CoreInv, DeliveryInv, Allowed
    <2> QED
      BY <2>1, <2>2
  <1> QED
    BY <1>1, <1>2

\* The steps on deliveries that leave decisions and counters alone.
LEMMA DeliveryStep ==
    ASSUME CoreInv, NotesOK', DeliveryInv', AttemptInv', WorkersOK', DOMAIN notes' = DOMAIN notes,
           \A w \in Workers : worker'[w] = worker[w] \/ ~Projecting(worker'[w]),
           UNCHANGED <<emitted, projected, suppressions, dedup, retired>>
    PROVE  CoreInv'
  <1>1. \A id : Decided(id) => Decided(id)'
    BY DEF Decided, Suppressed
  <1>2. \A w \in Workers : ProgressOf(worker[w])'
    <2> SUFFICES ASSUME NEW w \in Workers PROVE ProgressOf(worker[w])'
      OBVIOUS
    <2>1. CASE worker'[w] = worker[w]
      <3>1. ProgressOf(worker[w])
        BY DEF CoreInv
      <3> QED
        BY <2>1, <3>1, <1>1 DEF ProgressOf
    <2>2. CASE ~Projecting(worker'[w])
      BY <2>2 DEF ProgressOf
    <2> QED
      BY <2>1, <2>2
  <1>3. TypeOK'
    BY DEF CoreInv, TypeOK, RowsOK, SuppressionsOK
  <1>4. DecisionsAreKept'
    BY <1>1, KeptStep DEF CoreInv
  <1> QED
    BY <1>2, <1>3, <1>4 DEF CoreInv

\* What is known of a stored notification.
LEMMA NoteFacts ==
    ASSUME CoreInv, NEW i \in DOMAIN notes
    PROVE  /\ IsNote(notes[i]) /\ i.channel \in DOMAIN Channels
           /\ Channels[i.channel].max_attempts \in Nat \ {0}
           /\ notes[i].attempts <= Channels[i.channel].max_attempts + notes[i].expiries + notes[i].manual
           /\ notes[i].delivery = "pending" =>
                notes[i].attempts < Channels[i.channel].max_attempts + notes[i].expiries + notes[i].manual
           /\ notes[i].delivery = "sending" => notes[i].token = notes[i].attempts
  BY ConfigurationAssumption DEF CoreInv, TypeOK, NotesOK, IsKey, DeliveryInv, Allowed

\* The row a claim writes.
Claimed(n, expired) ==
  [n EXCEPT !.delivery = "sending", !.note = IF @ \in {"pending", "sending"} THEN "sending" ELSE @,
            !.lease = LeaseSeconds, !.attempts = @ + 1, !.token = n.attempts + 1,
            !.expiries = @ + IF expired THEN 1 ELSE 0]

LEMMA ClaimedFacts ==
    ASSUME NEW n, IsNote(n), NEW e
    PROVE  LET m == Claimed(n, e)
           IN /\ IsNote(m) /\ m.age = n.age /\ m.delivery = "sending"
              /\ m.attempts = n.attempts + 1 /\ m.token = n.attempts + 1 /\ m.manual = n.manual
              /\ m.expiries = n.expiries + IF e THEN 1 ELSE 0
  <1> DEFINE m == Claimed(n, e)
  <1>1. n = [x \in NoteFields |-> n[x]] /\ n.attempts \in Nat /\ n.expiries \in Nat
    BY DEF IsNote
  <1>2. m = [x \in NoteFields |-> m[x]]
    BY <1>1 DEF Claimed, NoteFields
  <1>3. /\ m.age = n.age /\ m.delivery = "sending" /\ m.manual = n.manual
        /\ m.attempts = n.attempts + 1 /\ m.token = n.attempts + 1
        /\ m.expiries = n.expiries + IF e THEN 1 ELSE 0
    BY <1>1 DEF Claimed, NoteFields
  <1> HIDE DEF m
  <1>4. IsNote(m)
    BY <1>1, <1>2, <1>3 DEF IsNote
  <1> QED
    BY <1>3, <1>4 DEF m

LEMMA ClaimCore ==
    ASSUME CoreInv, NEW w \in Workers, claim_due(w)
    PROVE  CoreInv' /\ DOMAIN notes' = DOMAIN notes /\ \A i \in DOMAIN notes : notes'[i].age = notes[i].age
  <1> DEFINE i == worker[w].id
             n == notes[i]
             e == worker[w].outcome = "sending"
  <1>0. IsWorker(worker[w]) /\ worker[w].outcome \in {"pending", "sending"} /\ TypeOK
    BY DEF CoreInv, TypeOK, WorkersOK, IsWorker, claim_due
  <1>1. CASE worker' = [worker EXCEPT ![w] = Fresh] /\ UNCHANGED notes
    BY <1>1, FreshIsWorker, IdleProgress, LocalStep DEF claim_due
  <1>2. CASE /\ i \in DOMAIN notes /\ n.delivery = worker[w].outcome
             /\ notes' = [notes EXCEPT ![i] = Claimed(n, e)]
             /\ worker' = [worker EXCEPT ![w] = [Fresh EXCEPT !.at = "send", !.id = i, !.token = n.attempts + 1]]
    <2>1. PICK m : m = Claimed(n, e)
      OBVIOUS
    <2>2. /\ IsNote(m) /\ m.age = n.age /\ m.delivery = "sending"
          /\ m.attempts = n.attempts + 1 /\ m.token = n.attempts + 1 /\ m.manual = n.manual
          /\ m.expiries = n.expiries + IF e THEN 1 ELSE 0
      <3>1. IsNote(n)
        BY <1>2, NoteFacts
      <3> QED
        BY <2>1, <3>1, ClaimedFacts
    <2>3. m.attempts <= Channels[i.channel].max_attempts + m.expiries + m.manual
      <3>1. n.attempts \in Nat /\ n.expiries \in Nat /\ n.manual \in Nat /\ Channels[i.channel].max_attempts \in Nat
        BY <1>2, NoteFacts DEF IsNote
      <3>2. CASE e
        <4>1. n.attempts <= Channels[i.channel].max_attempts + n.expiries + n.manual
          BY <1>2, NoteFacts
        <4> QED
          BY <3>1, <3>2, <4>1, <2>2
      <3>3. CASE ~e
        <4>1. n.attempts < Channels[i.channel].max_attempts + n.expiries + n.manual
          BY <1>0, <1>2, <3>3, NoteFacts
        <4> QED
          BY <3>1, <3>3, <4>1, <2>2
      <3> QED
        BY <3>2, <3>3
    <2>4. NotesOK' /\ DeliveryInv' /\ DOMAIN notes' = DOMAIN notes
      BY <1>2, <2>1, <2>2, <2>3, DeliveryEdit
    <2>5. \A j \in DOMAIN notes : notes'[j].age = notes[j].age
      BY <1>0, <1>2, <2>1, <2>2, NoteUpdate
    <2> DEFINE v == [Fresh EXCEPT !.at = "send", !.id = i, !.token = n.attempts + 1]
    <2>6. IsWorker(v) /\ ~Projecting(v)
      BY DEF IsWorker, Fresh, Projecting, WorkerFields, Places
    <2>7. WorkersOK' /\ \A x \in Workers : worker'[x] = worker[x] \/ ~Projecting(worker'[x])
      <3> HIDE DEF v
      <3>1. worker' = [worker EXCEPT ![w] = v]
        BY <1>2 DEF v
      <3> QED
        BY <1>0, <2>6, <3>1, WorkerUpdate
    <2>8. AttemptInv' /\ UNCHANGED <<emitted, projected, suppressions, dedup, retired>>
      <3>1. UNCHANGED <<emitted, projected, suppressions, dedup, retired, attempts>>
        BY DEF claim_due
      <3>2. n.attempts \in Nat
        BY <1>2, NoteFacts DEF IsNote
      <3>3. n.attempts <= m.attempts /\ n.attempts < m.attempts
        BY <3>2, <2>2
      <3> QED
        BY <1>2, <2>1, <2>2, <3>1, <3>3, AttemptsEdit
    <2> QED
      BY <2>4, <2>5, <2>7, <2>8, DeliveryStep
  <1> QED
    BY <1>1, <1>2 DEF claim_due, Claimed

\* The row an outcome, a manual retry or a reconciliation writes.
Finished(n, status, wait) == [n EXCEPT !.delivery = status, !.note = status, !.lease = -1, !.token = 0, !.wait = wait]
Retried(n) == [n EXCEPT !.delivery = "pending", !.note = "pending", !.wait = 0, !.lease = -1, !.manual = @ + 1]
Noted(n) == [n EXCEPT !.note = "pending", !.manual = @ + 1]
Reconciled(n, status) == [n EXCEPT !.delivery = status, !.note = status, !.lease = -1, !.wait = 0]

LEMMA FinishedFacts ==
    ASSUME NEW n, IsNote(n), NEW status, NEW wait
    PROVE  LET m == Finished(n, status, wait)
           IN /\ IsNote(m) /\ m.age = n.age /\ m.delivery = status
              /\ m.attempts = n.attempts /\ m.manual = n.manual /\ m.expiries = n.expiries
  <1> DEFINE m == Finished(n, status, wait)
  <1>1. m = [x \in NoteFields |-> m[x]]
    BY DEF Finished, NoteFields, IsNote
  <1>2. /\ m.age = n.age /\ m.delivery = status /\ m.manual = n.manual
        /\ m.attempts = n.attempts /\ m.expiries = n.expiries
    BY DEF Finished, NoteFields, IsNote
  <1> HIDE DEF m
  <1>3. IsNote(m)
    BY <1>1, <1>2 DEF IsNote
  <1> QED
    BY <1>2, <1>3 DEF m

LEMMA RetriedFacts ==
    ASSUME NEW n, IsNote(n), NEW m, m = Retried(n) \/ m = Noted(n)
    PROVE  /\ IsNote(m) /\ m.age = n.age
           /\ m.attempts = n.attempts /\ m.manual = n.manual + 1 /\ m.expiries = n.expiries
           /\ m.delivery = "sending" => m.token = n.token /\ n.delivery = "sending"
  <1>1. n = [x \in NoteFields |-> n[x]] /\ n.manual \in Nat
    BY DEF IsNote
  <1>2. m = [x \in NoteFields |-> m[x]]
    BY <1>1 DEF Retried, Noted, NoteFields
  <1>3. /\ m.age = n.age
        /\ m.attempts = n.attempts /\ m.manual = n.manual + 1 /\ m.expiries = n.expiries
        /\ m.delivery = "sending" => m.token = n.token /\ n.delivery = "sending"
    BY <1>1 DEF Retried, Noted, NoteFields
  <1>4. IsNote(m)
    BY <1>1, <1>2, <1>3 DEF IsNote
  <1> QED
    BY <1>3, <1>4

LEMMA ReconciledFacts ==
    ASSUME NEW n, IsNote(n), NEW status, NEW m, m = Reconciled(n, status)
    PROVE  /\ IsNote(m) /\ m.age = n.age /\ m.delivery = status
           /\ m.attempts = n.attempts /\ m.manual = n.manual /\ m.expiries = n.expiries
  <1>1. n = [x \in NoteFields |-> n[x]]
    BY DEF IsNote
  <1>2. m = [x \in NoteFields |-> m[x]]
    BY <1>1 DEF Reconciled, NoteFields
  <1>3. /\ m.age = n.age /\ m.delivery = status
        /\ m.attempts = n.attempts /\ m.manual = n.manual /\ m.expiries = n.expiries
    BY <1>1 DEF Reconciled, NoteFields
  <1>4. IsNote(m)
    BY <1>2, <1>3 DEF IsNote
  <1> QED
    BY <1>3, <1>4

LEMMA FinishCore ==
    ASSUME CoreInv, NEW w \in Workers, finish_delivery(w)
    PROVE  CoreInv' /\ DOMAIN notes' = DOMAIN notes /\ \A i \in DOMAIN notes : notes'[i].age = notes[i].age
  <1> DEFINE i == worker[w].id
             n == notes[i]
             o == worker[w].outcome
             again == o = "retry" /\ ~Exhausted(n, i)
             status == CASE again -> "pending" [] o = "retry" -> "failed" [] OTHER -> o
             wait == IF again THEN Backoff(n.attempts) ELSE 0
             a == [id |-> i, number |-> n.attempts, claim |-> worker[w].token]
  <1>0. IsWorker(worker[w]) /\ TypeOK /\ worker[w].at = "finish"
    BY DEF CoreInv, TypeOK, WorkersOK, finish_delivery
  <1>1. worker' = [worker EXCEPT ![w] = Fresh] /\ UNCHANGED <<emitted, projected, suppressions, dedup, retired>>
    BY DEF finish_delivery
  <1>2. WorkersOK' /\ \A x \in Workers : worker'[x] = worker[x] \/ ~Projecting(worker'[x])
    BY <1>0, <1>1, FreshIsWorker, WorkerUpdate
  <1>3. CASE UNCHANGED <<notes, attempts>>
    BY <1>1, <1>3, FreshIsWorker, IdleProgress, LocalStep
  <1>4. CASE /\ i \in DOMAIN notes /\ Owned(w, n)
             /\ notes' = [notes EXCEPT ![i] = Finished(n, status, wait)]
             /\ attempts' = attempts \cup {a}
    <2>1. PICK m : m = Finished(n, status, wait)
      OBVIOUS
    <2>2. IsNote(n) /\ n.attempts \in Nat /\ n.expiries \in Nat /\ n.manual \in Nat
          /\ Channels[i.channel].max_attempts \in Nat
      BY <1>4, NoteFacts DEF IsNote
    <2>3. /\ IsNote(m) /\ m.age = n.age /\ m.delivery = status
          /\ m.attempts = n.attempts /\ m.manual = n.manual /\ m.expiries = n.expiries
      BY <2>1, <2>2, FinishedFacts
    <2>4. n.attempts = worker[w].token
      BY <1>4, NoteFacts DEF Owned
    <2>5. m.attempts <= Channels[i.channel].max_attempts + m.expiries + m.manual
      BY <1>4, <2>3, NoteFacts
    <2>6. m.delivery = "pending" => m.attempts < Channels[i.channel].max_attempts + m.expiries + m.manual
      <3> SUFFICES ASSUME status = "pending" PROVE n.attempts < Channels[i.channel].max_attempts + n.expiries + n.manual
        BY <2>3
      <3>1. again
        <4>1. o \in Outcomes
          BY <1>0 DEF CoreInv, TypeOK, WorkersOK, IsWorker
        <4> QED
          BY <4>1 DEF Outcomes
      <3>2. n.attempts < Channels[i.channel].max_attempts
        BY <3>1, <2>2 DEF Exhausted
      <3> QED
        BY <3>2, <2>2
    <2>7. m.delivery # "sending"
      <3>1. o \in Outcomes
        BY <1>0 DEF CoreInv, TypeOK, WorkersOK, IsWorker
      <3> QED
        BY <2>3, <3>1 DEF Outcomes
    <2>8. NotesOK' /\ DeliveryInv' /\ DOMAIN notes' = DOMAIN notes
      BY <1>4, <2>1, <2>3, <2>5, <2>6, <2>7, DeliveryEdit
    <2>9. \A j \in DOMAIN notes : notes'[j].age = notes[j].age
      BY <1>0, <1>4, <2>1, <2>3, NoteUpdate
    <2>10. AttemptInv'
      <3>1. a.number = a.claim /\ a.number = n.attempts /\ a.id = i
        BY <2>4
      <3>2. /\ notes'[i] = m /\ DOMAIN notes' = DOMAIN notes
            /\ \A j \in DOMAIN notes : j # i => notes'[j] = notes[j]
        BY <1>0, <1>4, <2>1, <2>3, NoteUpdate
      <3> HIDE DEF a
      <3> SUFFICES ASSUME NEW b \in attempts'
                   PROVE  /\ b.number = b.claim /\ b.number \in Nat
                          /\ b.id \in DOMAIN notes'
                          /\ b.number <= notes'[b.id].attempts
                          /\ notes'[b.id].delivery = "sending" => b.number < notes'[b.id].attempts
        BY DEF AttemptInv
      <3>3. CASE b = a
        <4>1. notes'[i].attempts = n.attempts /\ notes'[i].delivery # "sending" /\ i \in DOMAIN notes'
          BY <1>4, <2>3, <2>7, <3>2
        <4>2. b.number = b.claim /\ b.number = n.attempts /\ b.id = i /\ n.attempts \in Nat
          BY <2>2, <3>1, <3>3
        <4> HIDE DEF i, n
        <4> QED
          BY <4>1, <4>2
      <3>4. CASE b \in attempts
        <4>1. /\ b.number = b.claim /\ b.number \in Nat /\ b.id \in DOMAIN notes
              /\ b.number <= notes[b.id].attempts
              /\ notes[b.id].delivery = "sending" => b.number < notes[b.id].attempts
          BY <3>4 DEF CoreInv, AttemptInv
        <4>2. CASE b.id = i
          BY <4>1, <4>2, <2>3, <2>7, <3>2
        <4>3. CASE b.id # i
          BY <4>1, <4>3, <3>2
        <4> QED
          BY <4>2, <4>3
      <3> QED
        BY <1>4, <3>3, <3>4
    <2> QED
      BY <1>1, <1>2, <2>8, <2>9, <2>10, DeliveryStep
  <1> QED
    BY <1>3, <1>4 DEF finish_delivery, Finished

LEMMA RetryCore ==
    ASSUME CoreInv, NEW o \in Operators, retry_delivery(o)
    PROVE  CoreInv' /\ DOMAIN notes' = DOMAIN notes /\ \A i \in DOMAIN notes : notes'[i].age = notes[i].age
  <1> DEFINE i == command[o].id
             n == notes[i]
  <1>0. TypeOK /\ WorkersOK' /\ UNCHANGED <<emitted, projected, suppressions, dedup, retired, worker, attempts>>
    BY DEF CoreInv, TypeOK, WorkersOK, retry_delivery
  <1>1. CASE notes' = notes
    <2>1. NotesOK' /\ DeliveryInv' /\ AttemptInv'
      BY <1>0, <1>1 DEF CoreInv, TypeOK, NotesOK, DeliveryInv, Allowed, AttemptInv
    <2> QED
      BY <1>0, <1>1, <2>1, DeliveryStep
  <1>2. ASSUME NEW m, i \in DOMAIN notes, notes' = [notes EXCEPT ![i] = m],
               m = Retried(n) \/ m = Noted(n)
        PROVE  CoreInv' /\ DOMAIN notes' = DOMAIN notes /\ \A j \in DOMAIN notes : notes'[j].age = notes[j].age
    <2>1. /\ IsNote(n) /\ n.attempts \in Nat /\ n.expiries \in Nat /\ n.manual \in Nat
          /\ Channels[i.channel].max_attempts \in Nat
          /\ n.attempts <= Channels[i.channel].max_attempts + n.expiries + n.manual
          /\ n.delivery = "sending" => n.token = n.attempts
      BY <1>2, NoteFacts DEF IsNote
    <2>2. /\ IsNote(m) /\ m.age = n.age /\ m.attempts = n.attempts /\ m.manual = n.manual + 1
          /\ m.expiries = n.expiries
          /\ m.delivery = "sending" => m.token = n.token /\ n.delivery = "sending"
      BY <1>2, <2>1, RetriedFacts
    <2>3. m.attempts < Channels[i.channel].max_attempts + m.expiries + m.manual
      BY <2>1, <2>2
    <2>4. m.attempts <= Channels[i.channel].max_attempts + m.expiries + m.manual
      BY <2>1, <2>2
    <2>5. NotesOK' /\ DeliveryInv' /\ DOMAIN notes' = DOMAIN notes
      BY <1>2, <2>1, <2>2, <2>3, <2>4, DeliveryEdit
    <2>6. \A j \in DOMAIN notes : notes'[j].age = notes[j].age
      BY <1>0, <1>2, <2>2, NoteUpdate
    <2>7. AttemptInv'
      <3>1. n.attempts <= m.attempts
        BY <2>1, <2>2
      <3> QED
        BY <1>0, <1>2, <2>2, <3>1, AttemptsEdit
    <2> QED
      BY <1>0, <2>5, <2>6, <2>7, DeliveryStep
  <1> QED
    BY <1>1, <1>2 DEF retry_delivery, Retried, Noted

LEMMA ReconcileCore ==
    ASSUME CoreInv, NEW o \in Operators, reconcile_unknown(o)
    PROVE  CoreInv' /\ DOMAIN notes' = DOMAIN notes /\ \A i \in DOMAIN notes : notes'[i].age = notes[i].age
  <1> DEFINE i == command[o].id
             n == notes[i]
             status == IF command[o].what = "delivered" THEN "sent" ELSE "failed"
  <1>0. TypeOK /\ WorkersOK' /\ UNCHANGED <<emitted, projected, suppressions, dedup, retired, worker, attempts>>
    BY DEF CoreInv, TypeOK, WorkersOK, reconcile_unknown
  <1>1. CASE notes' = notes
    <2>1. NotesOK' /\ DeliveryInv' /\ AttemptInv'
      BY <1>0, <1>1 DEF CoreInv, TypeOK, NotesOK, DeliveryInv, Allowed, AttemptInv
    <2> QED
      BY <1>0, <1>1, <2>1, DeliveryStep
  <1>2. ASSUME NEW m, i \in DOMAIN notes, notes' = [notes EXCEPT ![i] = m], m = Reconciled(n, status)
        PROVE  CoreInv' /\ DOMAIN notes' = DOMAIN notes /\ \A j \in DOMAIN notes : notes'[j].age = notes[j].age
    <2>1. /\ IsNote(n) /\ n.attempts <= Channels[i.channel].max_attempts + n.expiries + n.manual
      BY <1>2, NoteFacts
    <2>2. /\ IsNote(m) /\ m.age = n.age /\ m.attempts = n.attempts /\ m.manual = n.manual
          /\ m.expiries = n.expiries /\ m.delivery = status
      BY <1>2, <2>1, ReconciledFacts
    <2>3. m.attempts <= Channels[i.channel].max_attempts + m.expiries + m.manual
          /\ m.delivery # "pending" /\ m.delivery # "sending"
      BY <2>1, <2>2
    <2>4. NotesOK' /\ DeliveryInv' /\ DOMAIN notes' = DOMAIN notes
      BY <1>2, <2>2, <2>3, DeliveryEdit
    <2>5. \A j \in DOMAIN notes : notes'[j].age = notes[j].age
      BY <1>0, <1>2, <2>2, NoteUpdate
    <2>6. AttemptInv'
      <3>1. n.attempts <= m.attempts
        BY <2>1, <2>2 DEF IsNote
      <3> QED
        BY <1>0, <1>2, <2>2, <2>3, <3>1, AttemptsEdit
    <2> QED
      BY <1>0, <2>4, <2>5, <2>6, DeliveryStep
  <1>3. \/ notes' = notes
        \/ i \in DOMAIN notes /\ notes' = [notes EXCEPT ![i] = Reconciled(n, status)]
    BY DEF reconcile_unknown, Reconciled
  <1> QED
    BY <1>1, <1>2, <1>3

\* Neither the incident engine nor an operator's read writes here.
LEMMA QuietCore ==
    ASSUME CoreInv, emitted' \in Nat,
           UNCHANGED <<projected, notes, suppressions, dedup, attempts, worker, retired>>
    PROVE  CoreInv'
  <1>1. TypeOK' /\ DeliveryInv' /\ AttemptInv'
    BY DEF CoreInv, TypeOK, NotesOK, RowsOK, WorkersOK, SuppressionsOK, DeliveryInv, Allowed, AttemptInv
  <1>2. \A id : Decided(id) => Decided(id)'
    BY DEF Decided, Suppressed
  <1>3. DecisionsAreKept'
    BY <1>2, KeptStep DEF CoreInv
  <1>4. \A w \in Workers : ProgressOf(worker[w])'
    BY <1>2 DEF CoreInv, ProgressOf
  <1> QED
    BY <1>1, <1>3, <1>4 DEF CoreInv

LEMMA RetainCore ==
    ASSUME CoreInv, retain
    PROVE  CoreInv'
  <1> DEFINE gone == Retired
             old == {s \in suppressions : s.age = Oldest /\ ~Kept(s.id)}
             stale == {k \in DOMAIN dedup : dedup[k].updated = Oldest}
  <1>1. /\ notes' = [i \in DOMAIN notes \ gone |-> notes[i]]
        /\ attempts' = {a \in attempts : a.id \notin gone}
        /\ suppressions' = suppressions \ old
        /\ dedup' = [k \in DOMAIN dedup \ stale |-> dedup[k]]
        /\ retired' = retired \cup gone \cup {s.id : s \in old}
        /\ UNCHANGED <<emitted, projected, worker>>
    BY DEF retain
  <1> HIDE DEF gone, old, stale
  <1>2. /\ DOMAIN notes' = DOMAIN notes \ gone /\ \A i \in DOMAIN notes' : notes'[i] = notes[i]
        /\ IsFiniteSet(DOMAIN notes')
    <2>1. DOMAIN notes' = DOMAIN notes \ gone /\ \A i \in DOMAIN notes' : notes'[i] = notes[i]
      BY <1>1
    <2>2. IsFiniteSet(DOMAIN notes) /\ DOMAIN notes \ gone \in SUBSET DOMAIN notes
      BY DEF CoreInv, TypeOK, NotesOK
    <2> QED
      BY <2>1, <2>2, FS_Subset
  <1>3. NotesOK' /\ RowsOK' /\ WorkersOK' /\ SuppressionsOK'
    BY <1>1, <1>2 DEF CoreInv, TypeOK, NotesOK, RowsOK, WorkersOK, SuppressionsOK
  <1>4. DeliveryInv' /\ AttemptInv'
    BY <1>1, <1>2 DEF CoreInv, DeliveryInv, Allowed, AttemptInv
  <1>5. \A id : Decided(id) => Decided(id)'
    BY <1>1, <1>2, DecidedGrows
  <1>6. DecisionsAreKept'
    BY <1>1, <1>5, KeptStep DEF CoreInv
  <1>7. \A w \in Workers : ProgressOf(worker[w])'
    BY <1>1, <1>5 DEF CoreInv, ProgressOf
  <1> QED
    BY <1>1, <1>3, <1>4, <1>6, <1>7 DEF CoreInv, TypeOK

\* One tick of a clock that stops at the oldest age.
LEMMA OlderFacts ==
    ASSUME NEW a \in 0 .. Oldest
    PROVE  /\ Oldest \in Nat /\ Older(a) \in 0 .. Oldest
           /\ Older(a) < Oldest => Older(a) = a + 1
           /\ a < Oldest => Older(a) = a + 1
           /\ a = Oldest => Older(a) = Oldest
  BY ConfigurationAssumption DEF Older, Oldest

OlderNote(n) == [n EXCEPT !.age = Older(@), !.wait = IF @ > 0 THEN @ - 1 ELSE 0,
                          !.lease = IF @ >= 0 THEN @ - 1 ELSE @]
OlderSuppression(s) == [s EXCEPT !.age = Older(@)]
OlderRow(r) == [r EXCEPT !.last = Older(@), !.start = Older(@), !.updated = Older(@)]

LEMMA OlderNoteFacts ==
    ASSUME NEW n, IsNote(n)
    PROVE  LET m == OlderNote(n)
           IN /\ IsNote(m) /\ m.age = Older(n.age) /\ m.delivery = n.delivery /\ m.token = n.token
              /\ m.attempts = n.attempts /\ m.manual = n.manual /\ m.expiries = n.expiries
  <1> DEFINE m == OlderNote(n)
  <1>1. n = [x \in NoteFields |-> n[x]] /\ n.age \in 0 .. Oldest
    BY DEF IsNote
  <1>2. m = [x \in NoteFields |-> m[x]]
    BY <1>1 DEF OlderNote, NoteFields
  <1>3. /\ m.age = Older(n.age) /\ m.delivery = n.delivery /\ m.token = n.token
        /\ m.attempts = n.attempts /\ m.manual = n.manual /\ m.expiries = n.expiries
    BY <1>1 DEF OlderNote, NoteFields
  <1>4. Older(n.age) \in 0 .. Oldest
    BY <1>1, OlderFacts
  <1> HIDE DEF m
  <1>5. IsNote(m)
    BY <1>2, <1>3, <1>4 DEF IsNote
  <1> QED
    BY <1>3, <1>5 DEF m

LEMMA OlderRowFacts ==
    ASSUME NEW r, IsRow(r)
    PROVE  LET m == OlderRow(r)
           IN /\ IsRow(m) /\ m.last = Older(r.last) /\ m.start = Older(r.start)
              /\ m.updated = Older(r.updated) /\ m.count = r.count
  <1> DEFINE m == OlderRow(r)
  <1>1. r = [x \in RowFields |-> r[x]] /\ r.last \in 0 .. Oldest /\ r.start \in 0 .. Oldest /\ r.updated \in 0 .. Oldest
    BY DEF IsRow
  <1>2. m = [x \in RowFields |-> m[x]]
    BY <1>1 DEF OlderRow, RowFields
  <1>3. m.last = Older(r.last) /\ m.start = Older(r.start) /\ m.updated = Older(r.updated) /\ m.count = r.count
    BY <1>1 DEF OlderRow, RowFields
  <1>4. /\ Older(r.last) \in 0 .. Oldest /\ Older(r.start) \in 0 .. Oldest /\ Older(r.updated) \in 0 .. Oldest
        /\ r.updated <= r.last => Older(r.updated) <= Older(r.last)
        /\ r.updated <= r.start => Older(r.updated) <= Older(r.start)
        /\ r.start = Oldest => Older(r.start) = Oldest
    BY <1>1, OlderFacts DEF Older
  <1> HIDE DEF m
  <1>5. IsRow(m)
    BY <1>2, <1>3, <1>4 DEF IsRow
  <1> QED
    BY <1>3, <1>5 DEF m

\* What the clock does to the tables.
TickResult ==
  /\ DOMAIN notes' = DOMAIN notes /\ DOMAIN dedup' = DOMAIN dedup
  /\ \A i \in DOMAIN notes : notes'[i] = OlderNote(notes[i])
  /\ \A k \in DOMAIN dedup : dedup'[k] = OlderRow(dedup[k])
  /\ NotesOK' /\ RowsOK'

LEMMA TickWrites ==
    ASSUME CoreInv, Tick
    PROVE  TickResult
  <1>1. notes' = [i \in DOMAIN notes |-> OlderNote(notes[i])]
    BY DEF Tick, OlderNote
  <1>2. dedup' = [k \in DOMAIN dedup |-> OlderRow(dedup[k])]
    BY DEF Tick, OlderRow
  <1>3. \A i \in DOMAIN notes : IsKey(i) /\ IsNote(OlderNote(notes[i]))
    BY OlderNoteFacts DEF CoreInv, TypeOK, NotesOK
  <1>4. \A k \in DOMAIN dedup : IsRow(OlderRow(dedup[k]))
    BY OlderRowFacts DEF CoreInv, TypeOK, RowsOK
  <1>5. DOMAIN notes' = DOMAIN notes /\ DOMAIN dedup' = DOMAIN dedup
    BY <1>1, <1>2
  <1>6. \A i \in DOMAIN notes : notes'[i] = OlderNote(notes[i])
    BY <1>1
  <1>7. \A k \in DOMAIN dedup : dedup'[k] = OlderRow(dedup[k])
    BY <1>2
  <1>8. NotesOK'
    <2>1. notes' = [i \in DOMAIN notes' |-> notes'[i]]
      BY <1>1, <1>5
    <2>2. IsFiniteSet(DOMAIN notes')
      BY <1>5 DEF CoreInv, TypeOK, NotesOK
    <2> QED
      BY <2>1, <2>2, <1>3, <1>5, <1>6 DEF NotesOK
  <1>9. RowsOK'
    <2>1. dedup' = [k \in DOMAIN dedup' |-> dedup'[k]]
      BY <1>2, <1>5
    <2> QED
      BY <2>1, <1>4, <1>5, <1>7 DEF RowsOK
  <1> QED
    BY <1>5, <1>6, <1>7, <1>8, <1>9 DEF TickResult

LEMMA TickCore ==
    ASSUME CoreInv, Tick
    PROVE  CoreInv'
  <1>1. TickResult
    BY TickWrites
  <1>2. UNCHANGED <<emitted, projected, attempts, worker, retired>>
        /\ suppressions' = {OlderSuppression(s) : s \in suppressions}
    BY DEF Tick, OlderSuppression
  <1>3. DeliveryInv'
    <2> SUFFICES ASSUME NEW i \in DOMAIN notes
                 PROVE  /\ notes'[i].attempts <= Allowed(i)'
                        /\ notes'[i].delivery = "pending" => notes'[i].attempts < Allowed(i)'
                        /\ notes'[i].delivery = "sending" => notes'[i].token = notes'[i].attempts
      BY <1>1 DEF DeliveryInv, TickResult
    <2>1. notes'[i] = OlderNote(notes[i]) /\ IsNote(notes[i])
      BY <1>1 DEF TickResult, CoreInv, TypeOK, NotesOK
    <2>2. /\ notes'[i].delivery = notes[i].delivery /\ notes'[i].token = notes[i].token
          /\ notes'[i].attempts = notes[i].attempts /\ notes'[i].manual = notes[i].manual
          /\ notes'[i].expiries = notes[i].expiries
      BY <2>1, OlderNoteFacts
    <2> QED
      BY <2>2 DEF CoreInv, DeliveryInv, Allowed
  <1>4. \A id : Decided(id) => Decided(id)'
    <2>1. \A s \in suppressions : OlderSuppression(s).id = s.id
      BY DEF CoreInv, TypeOK, SuppressionsOK, OlderSuppression
    <2>2. \A s \in suppressions : \E x \in suppressions' : x.id = s.id
      BY <1>2, <2>1
    <2> QED
      BY <1>1, <1>2, <2>2, DecidedGrows DEF TickResult
  <1>5. DecisionsAreKept'
    BY <1>2, <1>4, KeptStep DEF CoreInv
  <1>6. \A w \in Workers : ProgressOf(worker[w])'
    BY <1>2, <1>4 DEF CoreInv, ProgressOf
  <1>7. SuppressionsOK'
    <2>1. \A s \in suppressions : LET x == OlderSuppression(s) IN x = [f \in {"id", "reason", "age"} |-> x[f]]
      BY DEF CoreInv, TypeOK, SuppressionsOK, OlderSuppression
    <2> QED
      BY <1>2, <2>1 DEF SuppressionsOK
  <1>8. TypeOK'
    BY <1>1, <1>2, <1>7 DEF TickResult, CoreInv, TypeOK, WorkersOK
  <1>9. AttemptInv'
    <2>1. ASSUME NEW i \in DOMAIN notes
          PROVE  /\ notes'[i].delivery = notes[i].delivery /\ notes'[i].attempts = notes[i].attempts
                 /\ notes[i].attempts \in Nat /\ i \in DOMAIN notes'
      <3>1. notes'[i] = OlderNote(notes[i]) /\ IsNote(notes[i]) /\ i \in DOMAIN notes'
        BY <1>1 DEF TickResult, CoreInv, TypeOK, NotesOK
      <3> QED
        BY <3>1, OlderNoteFacts DEF IsNote
    <2>2. AttemptInv
      BY DEF CoreInv
    <2> QED
      BY <1>2, <2>1, <2>2, AttemptsStay
  <1> QED
    BY <1>3, <1>5, <1>6, <1>8, <1>9 DEF CoreInv

LEMMA InitCore == Init => CoreInv
  <1> SUFFICES ASSUME Init PROVE CoreInv
    OBVIOUS
  <1>1. NotesOK /\ RowsOK
    <2>1. DOMAIN notes = {} /\ DOMAIN dedup = {}
      BY DEF Init
    <2>2. notes = [i \in DOMAIN notes |-> notes[i]] /\ dedup = [k \in DOMAIN dedup |-> dedup[k]]
      BY <2>1 DEF Init
    <2>3. IsFiniteSet(DOMAIN notes)
      BY <2>1, FS_EmptySet
    <2> QED
      BY <2>1, <2>2, <2>3 DEF NotesOK, RowsOK
  <1>2. WorkersOK /\ \A w \in Workers : ProgressOf(worker[w])
    BY FreshIsWorker, IdleProgress DEF Init, WorkersOK
  <1>3. DeliveryInv /\ AttemptInv /\ DecisionsAreKept /\ SuppressionsOK /\ emitted \in Nat
    BY DEF Init, DeliveryInv, AttemptInv, DecisionsAreKept, SuppressionsOK
  <1> QED
    BY <1>1, <1>2, <1>3 DEF CoreInv, TypeOK

LEMMA NextCore ==
    ASSUME CoreInv, [Next]_vars
    PROVE  CoreInv'
  <1>1. CASE UNCHANGED vars
    BY <1>1, QuietCore DEF vars, CoreInv, TypeOK
  <1>2. CASE Emit
    <2>1. emitted' \in Nat
      BY <1>2 DEF Emit, CoreInv, TypeOK
    <2> QED
      BY <1>2, <2>1, QuietCore DEF Emit
  <1>3. CASE Tick
    BY <1>3, TickCore
  <1>4. CASE retain
    BY <1>4, RetainCore
  <1>5. ASSUME NEW w \in Workers, Loop(w) \/ Crash(w) PROVE CoreInv'
    BY <1>5, FetchCore, DecideCore, CommitCore, MarkCore, PickCore, ClaimCore, SendCore, FinishCore, CrashCore DEF Loop
  <1>6. ASSUME NEW o \in Operators, Operate(o) PROVE CoreInv'
    <2>1. CASE ReadStatus(o)
      BY <2>1, QuietCore DEF ReadStatus, CoreInv, TypeOK
    <2> QED
      BY <1>6, <2>1, RetryCore, ReconcileCore DEF Operate
  <1> QED
    BY <1>1, <1>2, <1>3, <1>4, <1>5, <1>6 DEF Next

LEMMA CoreHolds == Spec => []CoreInv
  BY InitCore, NextCore, PTL DEF Spec

-----------------------------------------------------------------------------
(* What follows for attempts and decisions.                                  *)

\* Every stored attempt carries the number of the claim that stored it, a claim
\* under way has no record yet, and no delivery is claimed more often
\* than its channel, expired leases and operators allow, however services
\* crash, leases expire and owners finish late (claim_due, finish_delivery).
THEOREM AttemptsTruth == Spec => []AttemptsAreTruthful
  <1>1. CoreInv => AttemptsAreTruthful
    <2> SUFFICES ASSUME CoreInv PROVE AttemptsAreTruthful
      OBVIOUS
    <2> QED
      BY DEF CoreInv, AttemptInv, DeliveryInv, Allowed, AttemptsAreTruthful
  <1> QED
    BY <1>1, CoreHolds, PTL

\* Each marked transition has a notification or a suppression for every route,
\* or retention deleted it: with any number of projectors, in any interleaving
\* of their reads, commits and crashes (project_once).
THEOREM DecisionsKept == Spec => []DecisionsAreKept
  <1>1. CoreInv => DecisionsAreKept
    BY DEF CoreInv
  <1> QED
    BY <1>1, CoreHolds, PTL

-----------------------------------------------------------------------------
(* No storm: what a step that counts nothing leaves alone.                   *)

\* A row keeps what it remembers, or is deleted when it had nothing to say.
RowsKept ==
  \A k : \/ /\ State(k)'.last = State(k).last /\ State(k)'.start = State(k).start
            /\ State(k)'.count = State(k).count
            /\ k \in DOMAIN dedup => k \in DOMAIN dedup' /\ dedup'[k].updated <= dedup[k].updated
         \/ k \in DOMAIN dedup /\ dedup[k].updated = Oldest /\ k \notin DOMAIN dedup'

LEMMA SameRowsKept ==
    ASSUME NEW f, SameRows(f), dedup' = f
    PROVE  RowsKept
  <1> SUFFICES ASSUME NEW k
               PROVE  /\ State(k)'.last = State(k).last /\ State(k)'.start = State(k).start
                      /\ State(k)'.count = State(k).count
                      /\ k \in DOMAIN dedup => k \in DOMAIN dedup' /\ dedup'[k].updated <= dedup[k].updated
    BY DEF RowsKept
  <1>1. State(k)' = RowOf(f, k)
    BY DEF State, RowOf
  <1> QED
    BY <1>1 DEF SameRows

LEMMA UnchangedRowsKept ==
    ASSUME RowsOK, UNCHANGED dedup
    PROVE  RowsKept
  <1>1. \A k \in DOMAIN dedup : dedup[k].updated <= dedup[k].updated
    BY ConfigurationAssumption DEF RowsOK, IsRow, Oldest
  <1> QED
    BY <1>1 DEF RowsKept, State

\* A deleted row said nothing.
LEMMA DeletedRow ==
    ASSUME RowsOK, NEW k \in DOMAIN dedup, dedup[k].updated = Oldest, k \notin DOMAIN dedup'
    PROVE  State(k).last = Oldest /\ State(k).start = Oldest
           /\ State(k)'.last = Oldest /\ State(k)'.start = Oldest /\ State(k)'.count = 0
  <1>1. State(k) = dedup[k] /\ IsRow(dedup[k]) /\ Oldest \in Nat
    BY ConfigurationAssumption DEF RowsOK, State, Oldest
  <1>2. State(k)' = NoState
    BY DEF State
  <1> QED
    BY <1>1, <1>2 DEF IsRow, NoState

\* What a decision sees of the counters is kept.
LEMMA ViewKept ==
    ASSUME RowsOK, RowsKept, NEW id, IsKey(id)
    PROVE  (Cools(id)' <=> Cools(id)) /\ (IsFull(id)' <=> IsFull(id))
  <1>0. RetentionSeconds \in Nat /\ Oldest = RetentionSeconds + 1
    BY ConfigurationAssumption DEF Oldest
  <1>1. id.policy \in DOMAIN Policies /\ Policies[id.policy].cooldown_seconds \in 0 .. RetentionSeconds
    BY ConfigurationAssumption DEF IsKey
  <1>2. Cools(id)' <=> Cools(id)
    <2> DEFINE k == Scope(id.policy, id.channel, id.transition)
    <2>1. State(k)'.last = State(k).last \/ (State(k).last = Oldest /\ State(k)'.last = Oldest)
      BY DeletedRow DEF RowsKept
    <2>2. ~(Oldest < Policies[id.policy].cooldown_seconds)
      BY <1>0, <1>1
    <2> QED
      BY <2>1, <2>2 DEF Cools, Cooling
  <1>3. \A w \in Windows(id.policy, id.channel) : WindowCount(w)' = WindowCount(w)
    <2> SUFFICES ASSUME NEW w \in Windows(id.policy, id.channel) PROVE WindowCount(w)' = WindowCount(w)
      OBVIOUS
    <2>1. w.length \in 0 .. RetentionSeconds
      BY <1>1, WindowsByKey
    <2>2. \/ State(w.key)'.start = State(w.key).start /\ State(w.key)'.count = State(w.key).count
          \/ State(w.key)'.start = Oldest /\ State(w.key).start = Oldest
      BY DeletedRow DEF RowsKept
    <2>3. ~(Oldest < w.length)
      BY <1>0, <2>1
    <2> QED
      BY <2>2, <2>3 DEF WindowCount, Current
  <1>4. Full(id.policy, id.channel)' = Full(id.policy, id.channel)
    BY <1>3 DEF Full
  <1> QED
    BY <1>2, <1>4 DEF IsFull

\* A held decision stays one that would be made now.
LEMMA HeldKept ==
    ASSUME NEW v, HeldOf(v), RowsOK, RowsKept,
           v.at = "commit" => LET id == Held(v)
                              IN /\ IsKey(id) /\ (id \in DOMAIN notes' <=> id \in DOMAIN notes)
                                 /\ (Suppressed(id)' <=> Suppressed(id)) /\ (id \in retired' <=> id \in retired)
    PROVE  HeldOf(v)'
  <1> SUFFICES ASSUME v.at = "commit" PROVE HeldOf(v)'
    BY DEF HeldOf
  <1> DEFINE id == Held(v)
  <1>1. (Cools(id)' <=> Cools(id)) /\ (IsFull(id)' <=> IsFull(id))
    BY ViewKept
  <1>2. Decided(id)' <=> Decided(id)
    BY DEF Decided
  <1>3. Wanted(id)' <=> Wanted(id)
    BY DEF Wanted, evaluate
  <1>4. Held(v)' = id
    BY Zenon DEF Held, route_key, identity_key, Channel, First, Before, Min
  <1> QED
    BY <1>1, <1>2, <1>3, <1>4 DEF HeldOf

\* Notifications keep their age, or are deleted at the oldest.
NotesKept ==
  /\ DOMAIN notes' \subseteq DOMAIN notes
  /\ \A i \in DOMAIN notes' : notes'[i].age = notes[i].age
  /\ \A i \in DOMAIN notes \ DOMAIN notes' : notes[i].age = Oldest

\* The counters and the notifications they count, all channels.
CountersInv ==
  /\ RowsCover /\ CooldownInv
  /\ \A p \in DOMAIN Policies, c \in DOMAIN Channels :
       Agree(p, c) => ChannelInv(c, Policies[p].window_seconds, Policies[p].max_notifications)

\* The sets the counters are about are finite.
LEMMA FiniteParts ==
    ASSUME NotesOK, NEW S, S \subseteq DOMAIN notes
    PROVE  /\ IsFiniteSet(S) /\ Cardinality(S) \in Nat
           /\ \A T \in SUBSET S : IsFiniteSet(T) /\ Cardinality(T) \in Nat /\ Cardinality(T) <= Cardinality(S)
  <1>1. IsFiniteSet(S)
    BY FS_Subset DEF NotesOK
  <1>2. \A T \in SUBSET S : IsFiniteSet(T) /\ Cardinality(T) <= Cardinality(S)
    BY <1>1, FS_Subset
  <1> QED
    BY <1>1, <1>2, FS_CardinalityType

LEMMA SmallSets ==
    Cardinality({}) = 0 /\ \A x : IsFiniteSet({x}) /\ Cardinality({x}) = 1
  BY FS_EmptySet, FS_Singleton

\* Ages and counters, as numbers.
LEMMA AgeFacts ==
    ASSUME TypeOK
    PROVE  /\ RetentionSeconds \in Nat /\ Oldest = RetentionSeconds + 1
           /\ \A i \in DOMAIN notes : notes[i].age \in 0 .. Oldest
           /\ \A c : Start(c) \in 0 .. Oldest /\ Count(c) \in Nat /\ (Count(c) = 0 => Start(c) = Oldest)
           /\ \A k \in DOMAIN dedup : dedup[k].last \in 0 .. Oldest /\ dedup[k].updated \in 0 .. Oldest
  BY ConfigurationAssumption, RowType DEF TypeOK, NotesOK, RowsOK, IsNote, IsRow, Oldest, Start, Count

LEMMA LimitFacts ==
    ASSUME NEW p \in DOMAIN Policies
    PROVE  /\ Policies[p].window_seconds \in 1 .. RetentionSeconds
           /\ Policies[p].cooldown_seconds \in 0 .. RetentionSeconds
           /\ Policies[p].max_notifications \in Nat \ {0}
  BY ConfigurationAssumption

\* A channel's counter and the notifications it counts are as they were.
LEMMA ChannelFrame ==
    ASSUME NEW c, NEW length, NEW max, ChannelInv(c, length, max),
           \A i : i \in Young(c)' <=> i \in Young(c),
           \A i \in Young(c) : notes'[i].age = notes[i].age,
           Start(c)' = Start(c), Count(c)' = Count(c)
    PROVE  ChannelInv(c, length, max)'
  <1>1. Young(c)' = Young(c)
    OBVIOUS
  <1>2. InWindow(c)' = InWindow(c) /\ AfterFirst(c)' = AfterFirst(c) /\ Preceding(c, length)' = Preceding(c, length)
    BY <1>1 DEF InWindow, AfterFirst, Preceding
  <1>3. \A i \in InWindow(c) : notes'[i].age = notes[i].age
    BY DEF InWindow
  <1> QED
    BY <1>2, <1>3 DEF ChannelInv

\* A step that keeps the rows and the ages keeps the counters' promises.
LEMMA CountersKept ==
    ASSUME TypeOK, TypeOK', CountersInv, RowsKept, NotesKept
    PROVE  CountersInv'
  <1>0. RowsOK /\ RowsOK' /\ Oldest \in Nat /\ \A k \in DOMAIN dedup' : dedup'[k].updated \in Nat
    BY ConfigurationAssumption DEF TypeOK, Oldest, RowsOK, IsRow
  <1>1. ASSUME NEW i \in DOMAIN notes, notes[i].age < Oldest,
               NEW k \in {<<"channel", i.channel>>, ScopeOf(i)}
        PROVE  /\ k \in DOMAIN dedup /\ k \in DOMAIN dedup' /\ dedup'[k].updated <= notes[i].age
               /\ dedup'[k].last = dedup[k].last
               /\ State(k)'.start = State(k).start /\ State(k)'.count = State(k).count
    <2>1. k \in DOMAIN dedup /\ dedup[k].updated <= notes[i].age
      BY <1>1 DEF CountersInv, RowsCover, ScopeOf
    <2>2. dedup[k].updated \in 0 .. Oldest /\ notes[i].age \in 0 .. Oldest
      BY <2>1, AgeFacts
    <2>3. dedup[k].updated # Oldest
      BY <1>0, <1>1, <2>1, <2>2
    <2>4. /\ k \in DOMAIN dedup' /\ dedup'[k].updated <= dedup[k].updated /\ State(k)'.last = State(k).last
          /\ State(k)'.start = State(k).start /\ State(k)'.count = State(k).count
      BY <2>1, <2>3 DEF RowsKept
    <2>5. dedup'[k].last = dedup[k].last
      BY <2>1, <2>4 DEF State
    <2>6. dedup'[k].updated <= notes[i].age
      BY <1>0, <2>1, <2>2, <2>4
    <2> QED
      BY <2>1, <2>4, <2>5, <2>6
  <1>2. RowsCover'
    BY <1>1 DEF NotesKept, RowsCover, ScopeOf, Scope
  <1>3. CooldownInv'
    <2>1. \A i \in DOMAIN notes : notes[i].age < Oldest => dedup'[ScopeOf(i)].last <= notes[i].age
      BY <1>1 DEF CountersInv, CooldownInv
    <2>2. \A i : ScopeOf(i)' = ScopeOf(i)
      BY DEF ScopeOf, Scope
    <2> QED
      BY <2>1, <2>2 DEF CountersInv, CooldownInv, NotesKept
  <1>4. ASSUME NEW p \in DOMAIN Policies, NEW c \in DOMAIN Channels, Agree(p, c)
        PROVE  ChannelInv(c, Policies[p].window_seconds, Policies[p].max_notifications)'
    <2> DEFINE length == Policies[p].window_seconds
               max == Policies[p].max_notifications
               key == <<"channel", c>>
    <2>0. ChannelInv(c, length, max) /\ max \in Nat \ {0}
      BY <1>4, LimitFacts DEF CountersInv
    <2>1. Young(c)' = Young(c)
      BY <1>0 DEF Young, NotesKept
    <2>2. CASE State(key)'.start = State(key).start /\ State(key)'.count = State(key).count
      <3>1. \A i \in Young(c) : notes'[i].age = notes[i].age
        BY <2>1 DEF Young, NotesKept
      <3>2. Start(c)' = Start(c) /\ Count(c)' = Count(c)
        BY <2>2 DEF Start, Count
      <3> HIDE DEF length, max
      <3>3. ChannelInv(c, length, max)'
        BY <2>0, <2>1, <3>1, <3>2, ChannelFrame
      <3> QED
        BY <3>3 DEF length, max
    <2>3. CASE key \in DOMAIN dedup /\ dedup[key].updated = Oldest /\ key \notin DOMAIN dedup'
      <3>1. Young(c)' = {} /\ Count(c)' = 0
        <4>1. State(key)'.count = 0
          BY <1>0, <2>3, DeletedRow
        <4>2. \A i \in Young(c) : FALSE
          BY <1>1, <2>3 DEF Young
        <4> QED
          BY <2>1, <4>1, <4>2 DEF Count
      <3>2. InWindow(c)' = {} /\ AfterFirst(c)' = {} /\ Preceding(c, length)' = {}
        BY <3>1 DEF InWindow, AfterFirst, Preceding
      <3> QED
        BY <2>0, <3>1, <3>2, SmallSets DEF ChannelInv
    <2> QED
      BY <2>2, <2>3 DEF RowsKept
  <1>5. \A p \in DOMAIN Policies, c \in DOMAIN Channels : Agree(p, c)' <=> Agree(p, c)
    BY DEF Agree
  <1> QED
    BY <1>2, <1>3, <1>4, <1>5 DEF CountersInv

-----------------------------------------------------------------------------
(* No storm: the clock.                                                      *)

\* As time passes a channel's window and what precedes it only lose members.
LEMMA ChannelTick ==
    ASSUME TypeOK, NEW c, NEW length \in Nat, NEW max, ChannelInv(c, length, max),
           DOMAIN notes' = DOMAIN notes, \A i \in DOMAIN notes : notes'[i].age = Older(notes[i].age),
           Start(c)' = Older(Start(c)), Count(c)' = Count(c), max \in Nat
    PROVE  ChannelInv(c, length, max)'
  <1>0. /\ NotesOK /\ Oldest \in Nat /\ \A i \in DOMAIN notes : notes[i].age \in 0 .. Oldest
        /\ Start(c) \in 0 .. Oldest /\ Count(c) \in Nat
    BY AgeFacts DEF TypeOK
  <1>1. ASSUME NEW i \in Young(c)'
        PROVE  i \in Young(c) /\ i \in DOMAIN notes /\ notes'[i].age = notes[i].age + 1
    <2>1. i \in DOMAIN notes /\ notes[i].age \in 0 .. Oldest /\ Older(notes[i].age) < Oldest /\ i.channel = c
      BY <1>0 DEF Young
    <2> QED
      BY <1>0, <2>1, OlderFacts DEF Young, Older
  <1>2. Start(c)' <= Start(c) + 1 /\ (Start(c) < Oldest => Start(c)' = Start(c) + 1)
        /\ Start(c)' \in 0 .. Oldest
    BY <1>0, OlderFacts DEF Older
  <1>3. \A i \in InWindow(c)' : i \in InWindow(c) /\ notes'[i].age = notes[i].age + 1
    BY <1>0, <1>1, <1>2 DEF InWindow, Young
  <1>4. AfterFirst(c)' \subseteq AfterFirst(c)
    BY <1>0, <1>1, <1>2 DEF AfterFirst
  <1>5. Preceding(c, length)' \subseteq Preceding(c, length)
    <2> SUFFICES ASSUME NEW i \in Preceding(c, length)' PROVE i \in Preceding(c, length)
      OBVIOUS
    <2>1. /\ i \in Young(c) /\ notes'[i].age = notes[i].age + 1 /\ notes[i].age \in 0 .. Oldest
          /\ Start(c)' < notes'[i].age /\ notes'[i].age < Start(c)' + length /\ notes'[i].age < Oldest
      BY <1>0, <1>1 DEF Preceding, Young
    <2>2. Start(c)' = Start(c) + 1
      BY <1>0, <1>2, <2>1, OlderFacts
    <2> QED
      BY <1>0, <2>1, <2>2 DEF Preceding
  <1>6. InWindow(c) \subseteq DOMAIN notes /\ AfterFirst(c) \subseteq DOMAIN notes
        /\ Preceding(c, length) \subseteq DOMAIN notes /\ InWindow(c)' \subseteq InWindow(c)
    BY <1>3 DEF InWindow, AfterFirst, Preceding, Young
  <1>7. /\ Cardinality(InWindow(c)') <= Cardinality(InWindow(c))
        /\ Cardinality(AfterFirst(c)') <= Cardinality(AfterFirst(c))
        /\ Cardinality(Preceding(c, length)') <= Cardinality(Preceding(c, length))
        /\ Cardinality(InWindow(c)') \in Nat /\ Cardinality(InWindow(c)) \in Nat
        /\ Cardinality(AfterFirst(c)') \in Nat /\ Cardinality(AfterFirst(c)) \in Nat
        /\ Cardinality(Preceding(c, length)') \in Nat /\ Cardinality(Preceding(c, length)) \in Nat
    BY <1>0, <1>4, <1>5, <1>6, FiniteParts
  <1>8. \A i \in InWindow(c)' : Start(c)' - notes'[i].age < length
    <2> SUFFICES ASSUME NEW i \in InWindow(c)' PROVE Start(c)' - notes'[i].age < length
      OBVIOUS
    <2>1. i \in InWindow(c) /\ notes'[i].age = notes[i].age + 1 /\ notes[i].age \in 0 .. Oldest
      BY <1>0, <1>3, <1>6
    <2>2. Start(c) - notes[i].age < length
      BY <2>1 DEF ChannelInv
    <2> QED
      BY <1>0, <1>2, <2>1, <2>2
  <1> QED
    BY <1>0, <1>7, <1>8 DEF ChannelInv

LEMMA TickCounters ==
    ASSUME CoreInv, CountersInv, Tick
    PROVE  CountersInv'
  <1>0. /\ TypeOK /\ Oldest \in Nat /\ \A i \in DOMAIN notes : notes[i].age \in 0 .. Oldest
        /\ \A k \in DOMAIN dedup : dedup[k].last \in 0 .. Oldest /\ dedup[k].updated \in 0 .. Oldest
    BY AgeFacts DEF CoreInv
  <1>1. DOMAIN notes' = DOMAIN notes /\ \A i \in DOMAIN notes : notes'[i].age = Older(notes[i].age)
    BY <1>0, TickWrites, OlderNoteFacts DEF TickResult, TypeOK, NotesOK
  <1>2. /\ DOMAIN dedup' = DOMAIN dedup
        /\ \A k \in DOMAIN dedup : /\ dedup'[k].last = Older(dedup[k].last) /\ dedup'[k].start = Older(dedup[k].start)
                                   /\ dedup'[k].updated = Older(dedup[k].updated)
                                   /\ dedup'[k].count = dedup[k].count
    BY <1>0, TickWrites, OlderRowFacts DEF TickResult, TypeOK, RowsOK
  <1>3. \A i \in DOMAIN notes : notes'[i].age < Oldest => notes[i].age < Oldest /\ notes'[i].age = notes[i].age + 1
    BY <1>0, <1>1, OlderFacts
  <1>4. \A a, b \in 0 .. Oldest : b <= a => Older(b) <= Older(a)
    BY <1>0 DEF Older
  <1>5. RowsCover'
    <2> SUFFICES ASSUME NEW i \in DOMAIN notes, notes'[i].age < Oldest,
                        NEW k \in {<<"channel", i.channel>>, ScopeOf(i)}
                 PROVE  k \in DOMAIN dedup' /\ dedup'[k].updated <= notes'[i].age
      BY <1>1 DEF RowsCover, ScopeOf, Scope
    <2>1. k \in DOMAIN dedup /\ dedup[k].updated <= notes[i].age
      BY <1>3 DEF CountersInv, RowsCover, ScopeOf
    <2> QED
      BY <1>0, <1>1, <1>2, <1>4, <2>1
  <1>6. \A i : ScopeOf(i)' = ScopeOf(i)
    BY DEF ScopeOf, Scope
  <1>7. CooldownInv'
    <2>1. ASSUME NEW i \in DOMAIN notes, notes'[i].age < Oldest
          PROVE  dedup'[ScopeOf(i)].last <= notes'[i].age
      <3>1. ScopeOf(i) \in DOMAIN dedup /\ dedup[ScopeOf(i)].last <= notes[i].age
        BY <1>3, <2>1 DEF CountersInv, RowsCover, ScopeOf, CooldownInv
      <3> QED
        BY <1>0, <1>1, <1>2, <1>4, <3>1
    <2>2. ASSUME NEW i \in DOMAIN notes, NEW j \in DOMAIN notes, i # j, ScopeOf(i) = ScopeOf(j),
                 notes'[i].age <= notes'[j].age, notes'[j].age < Oldest
          PROVE  notes'[j].age - notes'[i].age >= Policies[i.policy].cooldown_seconds
      <3>1. notes'[i].age \in 0 .. Oldest /\ notes'[i].age < Oldest
        BY <1>0, <1>1, <2>2, OlderFacts
      <3>2. notes'[j].age = notes[j].age + 1 /\ notes'[i].age = notes[i].age + 1 /\ notes[j].age < Oldest
        BY <1>3, <2>2, <3>1
      <3>3. notes[i].age <= notes[j].age
        BY <1>0, <2>2, <3>2
      <3>4. notes[j].age - notes[i].age >= Policies[i.policy].cooldown_seconds
        BY <2>2, <3>2, <3>3 DEF CountersInv, CooldownInv
      <3> QED
        BY <1>0, <3>2, <3>4
    <2> QED
      BY <1>1, <1>6, <2>1, <2>2 DEF CooldownInv
  <1>8. ASSUME NEW p \in DOMAIN Policies, NEW c \in DOMAIN Channels, Agree(p, c)
        PROVE  ChannelInv(c, Policies[p].window_seconds, Policies[p].max_notifications)'
    <2>1. PICK length : length = Policies[p].window_seconds
      OBVIOUS
    <2>2. PICK max : max = Policies[p].max_notifications
      OBVIOUS
    <2>3. length \in Nat /\ max \in Nat /\ ChannelInv(c, length, max)
      BY <1>8, <2>1, <2>2, LimitFacts DEF CountersInv
    <2>4. Start(c)' = Older(Start(c)) /\ Count(c)' = Count(c)
      <3>1. NoState.start = Oldest /\ Older(Oldest) = Oldest
        BY <1>0, OlderFacts DEF NoState, Older
      <3> QED
        BY <1>2, <3>1 DEF Start, Count, State
    <2>5. ChannelInv(c, length, max)'
      BY <1>0, <1>1, <2>3, <2>4, ChannelTick
    <2> QED
      BY <2>1, <2>2, <2>5
  <1>9. \A p \in DOMAIN Policies, c \in DOMAIN Channels : Agree(p, c)' <=> Agree(p, c)
    BY DEF Agree
  <1> QED
    BY <1>5, <1>7, <1>8, <1>9 DEF CountersInv

-----------------------------------------------------------------------------
(* No storm: a new notification.                                             *)

\* The channel's counter when a notification is counted in it: in the window in
\* progress, or as the first of a new one.
LEMMA ChannelInsert ==
    ASSUME TypeOK, NEW c, NEW id, id \notin DOMAIN notes, NEW length \in 1 .. RetentionSeconds, NEW max \in Nat \ {0},
           ChannelInv(c, length, max), id.channel = c,
           DOMAIN notes' = DOMAIN notes \cup {id}, notes'[id].age = 0,
           \A i \in DOMAIN notes : notes'[i].age = notes[i].age,
           Start(c) < length => Count(c) < max /\ Start(c)' = Start(c) /\ Count(c)' = Count(c) + 1,
           ~(Start(c) < length) => Start(c)' = 0 /\ Count(c)' = 1
    PROVE  ChannelInv(c, length, max)'
  <1>0. /\ NotesOK /\ Oldest \in Nat /\ Oldest = RetentionSeconds + 1 /\ RetentionSeconds \in Nat
        /\ \A i \in DOMAIN notes : notes[i].age \in 0 .. Oldest
        /\ Start(c) \in 0 .. Oldest /\ Count(c) \in Nat /\ (Count(c) = 0 => Start(c) = Oldest)
    BY AgeFacts DEF TypeOK
  <1>1. Young(c)' = Young(c) \cup {id}
    BY <1>0 DEF Young
  <1>2. InWindow(c) \subseteq DOMAIN notes /\ AfterFirst(c) \subseteq InWindow(c)
        /\ Preceding(c, length) \subseteq DOMAIN notes
    BY <1>0 DEF InWindow, AfterFirst, Preceding, Young
  <1>3. /\ IsFiniteSet(InWindow(c)) /\ Cardinality(InWindow(c)) \in Nat
        /\ IsFiniteSet(AfterFirst(c)) /\ Cardinality(AfterFirst(c)) \in Nat
        /\ Cardinality(AfterFirst(c)) <= Cardinality(InWindow(c))
        /\ \A T \in SUBSET AfterFirst(c) : Cardinality(T) \in Nat /\ Cardinality(T) <= Cardinality(AfterFirst(c))
    <2>1. AfterFirst(c) \subseteq DOMAIN notes
      BY <1>2
    <2> QED
      BY <1>0, <1>2, <2>1, FiniteParts
  <1>4. id \notin InWindow(c) /\ id \notin AfterFirst(c)
    BY <1>2
  <1>5. CASE Start(c) < length
    <2>1. Count(c) > 0
      BY <1>0, <1>5
    <2>2. InWindow(c)' = InWindow(c) \cup {id}
      BY <1>0, <1>1, <1>5 DEF InWindow, Young
    <2>3. Cardinality(InWindow(c)') = Cardinality(InWindow(c)) + 1
      BY <1>3, <1>4, <2>2, FS_AddElement
    <2>4. Cardinality(AfterFirst(c)') <= Cardinality(AfterFirst(c)) + 1 /\ Cardinality(AfterFirst(c)') \in Nat
      <3>1. AfterFirst(c)' = AfterFirst(c) \/ AfterFirst(c)' = AfterFirst(c) \cup {id}
        BY <1>0, <1>1, <1>5 DEF AfterFirst, Young
      <3> QED
        BY <1>3, <1>4, <3>1, FS_AddElement
    <2>5. Preceding(c, length)' = Preceding(c, length)
      BY <1>0, <1>1, <1>5 DEF Preceding, Young
    <2>6. \A i \in InWindow(c)' : Start(c)' - notes'[i].age < length
      <3>1. \A i \in InWindow(c) : Start(c)' - notes'[i].age < length
        BY <1>2, <1>5 DEF ChannelInv
      <3>2. Start(c)' - notes'[id].age < length
        BY <1>0, <1>5
      <3> QED
        BY <2>2, <3>1, <3>2
    <2>7. /\ Cardinality(InWindow(c)) <= Count(c) /\ Cardinality(AfterFirst(c)) < Count(c)
          /\ Cardinality(Preceding(c, length)) < max
      BY <2>1 DEF ChannelInv
    <2>8. Cardinality(InWindow(c)') <= Count(c)' /\ Count(c)' <= max /\ Cardinality(AfterFirst(c)') < Count(c)'
      BY <1>0, <1>3, <1>5, <2>3, <2>4, <2>7
    <2> QED
      BY <2>5, <2>6, <2>7, <2>8 DEF ChannelInv
  <1>6. CASE ~(Start(c) < length)
    <2>1. \A i \in Young(c) : notes[i].age # 0
      <3> SUFFICES ASSUME NEW i \in Young(c), notes[i].age = 0 PROVE FALSE
        OBVIOUS
      <3>1. i \in InWindow(c)
        BY <1>0 DEF InWindow
      <3>2. Start(c) - notes[i].age < length
        BY <3>1 DEF ChannelInv
      <3> QED
        BY <1>0, <1>6, <3>2
    <2>2. \A i \in Young(c) : i \in DOMAIN notes /\ notes[i].age \in 0 .. Oldest /\ notes'[i].age = notes[i].age
      BY <1>0 DEF Young
    <2>3. InWindow(c)' = {id} /\ AfterFirst(c)' = {}
      BY <1>0, <1>1, <1>6, <2>1, <2>2 DEF InWindow, AfterFirst
    <2>4. Cardinality(InWindow(c)') = 1 /\ Cardinality(AfterFirst(c)') = 0
      BY <2>3, SmallSets
    <2>5. Preceding(c, length)' \subseteq AfterFirst(c)
      BY <1>0, <1>1, <1>6, <2>2 DEF Preceding, AfterFirst
    <2>6. Cardinality(Preceding(c, length)') < max
      <3>1. Cardinality(Preceding(c, length)') \in Nat /\ Cardinality(Preceding(c, length)') <= Cardinality(AfterFirst(c))
        BY <1>3, <2>5
      <3>2. Cardinality(InWindow(c)) <= Count(c) /\ Count(c) <= max
            /\ (Count(c) > 0 => Cardinality(AfterFirst(c)) < Count(c))
        BY DEF ChannelInv
      <3> QED
        BY <1>0, <1>3, <3>1, <3>2
    <2>7. \A i \in InWindow(c)' : Start(c)' - notes'[i].age < length
      BY <1>0, <1>6, <2>3
    <2> QED
      BY <1>0, <1>6, <2>4, <2>6, <2>7 DEF ChannelInv
  <1> QED
    BY <1>5, <1>6

\* A decision that finds the channel's window not full.
LEMMA NotFull ==
    ASSUME TypeOK, NEW id, id.policy \in DOMAIN Policies, ~IsFull(id),
           Start(id.channel) < Policies[id.policy].window_seconds
    PROVE  Count(id.channel) < Policies[id.policy].max_notifications
  <1>1. PICK w \in Windows(id.policy, id.channel) : w.key = <<"channel", id.channel>>
    BY WindowsByKey
  <1>2. w.length = Policies[id.policy].window_seconds /\ w.max = Policies[id.policy].max_notifications
    BY <1>1, WindowsByKey
  <1>3. ~(WindowCount(w) >= w.max)
    BY DEF IsFull, Full
  <1>4. WindowCount(w) = Count(id.channel)
    BY <1>1, <1>2 DEF WindowCount, Current, Start, Count
  <1> QED
    BY <1>2, <1>3, <1>4, LimitFacts, AgeFacts

LEMMA InsertCounters ==
    ASSUME TypeOK, CountersInv, NEW r \in Routes, NEW t, NEW id, id = route_key(r, t),
           id \notin DOMAIN notes, ~Cools(id), ~IsFull(id),
           notes' = With(notes, id, Pending), dedup' = Counted(r.policy, Channel(r), t)
    PROVE  CountersInv'
  <1> DEFINE ch == <<"channel", id.channel>>
             sc == ScopeOf(id)
  <1>0. /\ IsKey(id) /\ id.policy = r.policy /\ id.channel = Channel(r) /\ id.transition = t
        /\ id.policy \in DOMAIN Policies /\ id.channel \in DOMAIN Channels
        /\ id.channel \in {Policies[id.policy].channels[i] : i \in DOMAIN Policies[id.policy].channels}
    BY RouteFacts
  <1>1. /\ DOMAIN notes' = DOMAIN notes \cup {id} /\ notes'[id].age = 0
        /\ \A i \in DOMAIN notes : notes'[i].age = notes[i].age
    BY <1>0, Inserted, PendingFacts DEF TypeOK
  <1>2. /\ RetentionSeconds \in Nat /\ Oldest \in Nat /\ Oldest = RetentionSeconds + 1 /\ RowsOK
        /\ \A i \in DOMAIN notes : notes[i].age \in 0 .. Oldest
        /\ \A k \in DOMAIN dedup : dedup[k].last \in 0 .. Oldest /\ dedup[k].updated \in 0 .. Oldest
    BY AgeFacts DEF TypeOK
  <1>3. PICK f : f = Counted(id.policy, id.channel, id.transition)
    OBVIOUS
  <1>4. /\ DOMAIN dedup \subseteq DOMAIN f /\ ch \in DOMAIN f /\ sc \in DOMAIN f
        /\ f[ch].updated = 0 /\ f[sc].updated = 0 /\ f[sc].last = 0
        /\ f[ch].start = (IF State(ch).start < Policies[id.policy].window_seconds THEN State(ch).start ELSE 0)
        /\ f[ch].count = (IF State(ch).start < Policies[id.policy].window_seconds THEN State(ch).count + 1 ELSE 1)
        /\ \A k \in DOMAIN f : k \notin {ch, sc, <<"global">>} => k \in DOMAIN dedup /\ f[k] = dedup[k]
    BY <1>0, <1>2, <1>3, CountedFacts DEF ScopeOf
  <1>5. dedup' = f
    BY <1>0, <1>3
  <1>6. \A i : ScopeOf(i)' = ScopeOf(i) /\ \A d : ScopeOf(i) # <<"channel", d>> /\ ScopeOf(i) # <<"global">>
    BY ScopeIsNoWindow DEF ScopeOf, Scope
  <1> HIDE DEF sc
  <1>7. RowsCover'
    <2> SUFFICES ASSUME NEW i \in DOMAIN notes', notes'[i].age < Oldest,
                        NEW k \in {<<"channel", i.channel>>, ScopeOf(i)}
                 PROVE  k \in DOMAIN f /\ f[k].updated <= notes'[i].age
      BY <1>5, <1>6 DEF RowsCover, ScopeOf
    <2>1. CASE i = id
      BY <1>1, <1>4, <2>1 DEF sc
    <2>2. CASE i # id
      <3>1. i \in DOMAIN notes /\ notes'[i].age = notes[i].age
        BY <1>1, <2>2
      <3>2. k \in DOMAIN dedup /\ dedup[k].updated <= notes[i].age
        BY <3>1 DEF CountersInv, RowsCover, ScopeOf
      <3>3. k # <<"global">>
        BY <1>6
      <3>4. k \in DOMAIN f /\ (f[k].updated = 0 \/ f[k] = dedup[k])
        BY <1>4, <3>2, <3>3
      <3> QED
        BY <1>2, <3>1, <3>2, <3>4
    <2> QED
      BY <2>1, <2>2
  <1>8. Policies[id.policy].cooldown_seconds \in Nat
        /\ \A i \in DOMAIN notes : ScopeOf(i) = sc /\ notes[i].age < Oldest =>
             i.policy = id.policy /\ notes[i].age >= Policies[id.policy].cooldown_seconds
    <2>1. Policies[id.policy].cooldown_seconds \in Nat
      BY <1>0, <1>2, LimitFacts
    <2> SUFFICES ASSUME NEW i \in DOMAIN notes, ScopeOf(i) = sc, notes[i].age < Oldest
                 PROVE  i.policy = id.policy /\ notes[i].age >= Policies[id.policy].cooldown_seconds
      BY <2>1
    <2>2. i.policy = id.policy
      BY DEF ScopeOf, Scope, sc
    <2>3. sc \in DOMAIN dedup /\ dedup[sc].last <= notes[i].age
      BY DEF CountersInv, RowsCover, CooldownInv, ScopeOf
    <2>4. ~(dedup[sc].last < Policies[id.policy].cooldown_seconds)
      BY <2>3 DEF Cools, Cooling, State, sc, ScopeOf
    <2> QED
      BY <1>2, <2>1, <2>2, <2>3, <2>4
  <1>9. CooldownInv'
    <2>1. ASSUME NEW i \in DOMAIN notes', notes'[i].age < Oldest
          PROVE  f[ScopeOf(i)].last <= notes'[i].age
      <3>1. CASE ScopeOf(i) = sc
        BY <1>1, <1>2, <1>4, <3>1
      <3>2. CASE ScopeOf(i) # sc
        <4>1. i \in DOMAIN notes /\ notes'[i].age = notes[i].age
          BY <1>1, <3>2 DEF sc
        <4>2. ScopeOf(i) \in DOMAIN dedup /\ dedup[ScopeOf(i)].last <= notes[i].age
          BY <2>1, <4>1 DEF CountersInv, RowsCover, CooldownInv, ScopeOf
        <4>3. f[ScopeOf(i)] = dedup[ScopeOf(i)]
          BY <1>4, <1>6, <3>2, <4>2
        <4> QED
          BY <4>1, <4>2, <4>3
      <3> QED
        BY <3>1, <3>2
    <2>2. ASSUME NEW i \in DOMAIN notes', NEW j \in DOMAIN notes', i # j, ScopeOf(i) = ScopeOf(j),
                 notes'[i].age <= notes'[j].age, notes'[j].age < Oldest
          PROVE  notes'[j].age - notes'[i].age >= Policies[i.policy].cooldown_seconds
      <3>1. CASE i = id
        <4>1. j \in DOMAIN notes /\ ScopeOf(j) = sc /\ notes'[j].age = notes[j].age /\ notes[j].age \in Nat
          BY <1>1, <1>2, <2>2, <3>1 DEF sc
        <4> QED
          BY <1>1, <1>8, <2>2, <3>1, <4>1
      <3>2. CASE j = id
        <4>1. i \in DOMAIN notes /\ ScopeOf(i) = sc /\ notes'[i].age = notes[i].age /\ notes[i].age \in Nat
          BY <1>1, <1>2, <2>2, <3>2 DEF sc
        <4>2. notes[i].age = 0
          BY <1>1, <2>2, <3>2, <4>1
        <4>3. i.policy = id.policy /\ 0 >= Policies[id.policy].cooldown_seconds
          BY <1>2, <1>8, <4>1, <4>2
        <4> QED
          BY <1>1, <1>8, <3>2, <4>1, <4>2, <4>3
      <3>3. CASE i # id /\ j # id
        BY <1>1, <2>2, <3>3 DEF CountersInv, CooldownInv
      <3> QED
        BY <3>1, <3>2, <3>3
    <2> QED
      BY <1>5, <1>6, <2>1, <2>2 DEF CooldownInv
  <1>10. ASSUME NEW p \in DOMAIN Policies, NEW c \in DOMAIN Channels, Agree(p, c)
         PROVE  ChannelInv(c, Policies[p].window_seconds, Policies[p].max_notifications)'
    <2>1. PICK length : length = Policies[p].window_seconds
      OBVIOUS
    <2>2. PICK max : max = Policies[p].max_notifications
      OBVIOUS
    <2>3. length \in 1 .. RetentionSeconds /\ max \in Nat \ {0} /\ ChannelInv(c, length, max)
      BY <1>10, <2>1, <2>2, LimitFacts DEF CountersInv
    <2>4. CASE c = id.channel
      <3>1. Policies[id.policy].window_seconds = length /\ Policies[id.policy].max_notifications = max
        BY <1>0, <1>10, <2>1, <2>2, <2>4 DEF Agree
      <3>2. Start(c)' = f[ch].start /\ Count(c)' = f[ch].count /\ Start(c) = State(ch).start /\ Count(c) = State(ch).count
        BY <1>4, <1>5, <2>4 DEF Start, Count, State
      <3>3. Start(c) < length => Count(c) < max /\ Start(c)' = Start(c) /\ Count(c)' = Count(c) + 1
        BY <1>0, <1>4, <2>4, <3>1, <3>2, NotFull
      <3>4. ~(Start(c) < length) => Start(c)' = 0 /\ Count(c)' = 1
        BY <1>4, <3>1, <3>2
      <3>5. ChannelInv(c, length, max)'
        BY <1>1, <2>3, <2>4, <3>3, <3>4, ChannelInsert
      <3> QED
        BY <2>1, <2>2, <3>5
    <2>5. CASE c # id.channel
      <3>1. Young(c)' = Young(c) /\ \A i \in Young(c) : notes'[i].age = notes[i].age
        BY <1>1, <2>5 DEF Young
      <3>2. Start(c)' = Start(c) /\ Count(c)' = Count(c)
        <4> DEFINE key == <<"channel", c>>
        <4>1. key \notin {ch, sc, <<"global">>}
          BY <1>6, <2>5 DEF sc
        <4>2. key \in DOMAIN f <=> key \in DOMAIN dedup
          BY <1>4, <4>1
        <4>3. key \in DOMAIN f => f[key] = dedup[key]
          BY <1>4, <4>1
        <4> QED
          BY <1>5, <4>2, <4>3 DEF Start, Count, State
      <3>3. ChannelInv(c, length, max)'
        BY <2>3, <3>1, <3>2, ChannelFrame
      <3> QED
        BY <2>1, <2>2, <3>3
    <2> QED
      BY <2>4, <2>5
  <1>11. \A p \in DOMAIN Policies, c \in DOMAIN Channels : Agree(p, c)' <=> Agree(p, c)
    BY DEF Agree
  <1> QED
    BY <1>7, <1>9, <1>10, <1>11 DEF CountersInv

-----------------------------------------------------------------------------
(* No storm: decisions in flight.                                            *)

\* What a service at commit holds.
LEMMA HeldFacts ==
    ASSUME TypeOK, NEW w \in Workers, worker[w].at = "commit"
    PROVE  /\ worker[w].routes \subseteq Routes /\ worker[w].routes # {}
           /\ Route(w) = First(worker[w].routes) /\ Transition(w) = Min(worker[w].todo)
           /\ Route(w) \in Routes /\ Route(w) \in worker[w].routes
           /\ Transition(w) \in worker[w].todo /\ Transition(w) \in Nat \ {0}
           /\ \A t \in worker[w].todo : Transition(w) <= t
           /\ Held(worker[w]) = route_key(Route(w), Transition(w)) /\ IsKey(Held(worker[w]))
  <1>1. /\ worker[w].routes \subseteq Routes /\ worker[w].routes # {}
        /\ worker[w].todo # {} /\ worker[w].todo \subseteq Nat \ {0}
    BY DEF TypeOK, WorkersOK, IsWorker, Projecting
  <1>2. Route(w) = First(worker[w].routes) /\ Transition(w) = Min(worker[w].todo)
    BY DEF Route, Transition
  <1>3. Route(w) \in Routes /\ Route(w) \in worker[w].routes
    BY <1>1, <1>2, FirstOf
  <1>4. Transition(w) \in worker[w].todo /\ \A t \in worker[w].todo : Transition(w) <= t
    BY <1>1, <1>2, LeastOf
  <1>5. Held(worker[w]) = route_key(Route(w), Transition(w))
    BY <1>2 DEF Held
  <1> QED
    BY <1>1, <1>2, <1>3, <1>4, <1>5, RouteFacts

\* Of two services that hold different identities, one has passed the other's:
\* it was decided before.
LEMMA OneWasDecided ==
    ASSUME CoreInv, NEW w \in Workers, NEW x \in Workers, worker[w].at = "commit", worker[x].at = "commit",
           Held(worker[w]) # Held(worker[x])
    PROVE  Decided(Held(worker[w])) \/ Decided(Held(worker[x]))
  <1>0. TypeOK /\ DecisionsAreKept /\ \A v \in Workers : ProgressOf(worker[v])
    BY DEF CoreInv
  <1>1. ASSUME NEW a \in Workers, NEW b \in Workers, worker[a].at = "commit", worker[b].at = "commit",
               Transition(a) < Transition(b)
        PROVE  Decided(Held(worker[a]))
    <2>1. /\ Transition(a) \in Nat \ {0} /\ Transition(b) \in Nat \ {0} /\ Transition(b) \in worker[b].todo
          /\ \A t \in worker[b].todo : Transition(b) <= t
          /\ Held(worker[a]) = route_key(Route(a), Transition(a)) /\ Route(a) \in Routes
      BY <1>0, <1>1, HeldFacts
    <2>2. Transition(a) \in 1 .. Transition(b) /\ Transition(a) \notin worker[b].todo
      BY <1>1, <2>1
    <2>3. Transition(a) \in projected
      BY <1>0, <1>1, <2>1, <2>2 DEF ProgressOf, Projecting
    <2> QED
      BY <1>0, <2>1, <2>3 DEF DecisionsAreKept, Decided
  <1>2. ASSUME NEW a \in Workers, NEW b \in Workers, worker[a].at = "commit", worker[b].at = "commit",
               Transition(a) = Transition(b), Route(a) \in Routes \ worker[b].routes
        PROVE  Decided(Held(worker[a]))
    <2>1. Held(worker[a]) = route_key(Route(a), Min(worker[b].todo))
      BY <1>0, <1>2, HeldFacts
    <2>2. \A r \in Routes \ worker[b].routes : Decided(route_key(r, Min(worker[b].todo)))
      BY <1>0, <1>2 DEF ProgressOf, Projecting
    <2> QED
      BY <1>2, <2>1, <2>2
  <1>3. CASE Transition(w) = Transition(x)
    <2>1. Route(w) # Route(x)
      BY <1>0, <1>3, HeldFacts
    <2>2. Route(w) \in Routes \ worker[x].routes \/ Route(x) \in Routes \ worker[w].routes
      BY <1>0, <2>1, HeldFacts, OneIsAhead
    <2> QED
      BY <1>2, <1>3, <2>2
  <1>4. Transition(w) \in Nat /\ Transition(x) \in Nat
    BY <1>0, HeldFacts
  <1> QED
    BY <1>1, <1>3, <1>4

\* A decision is what create_decision's checks say when they are made.
LEMMA DecideHeld ==
    ASSUME CoreInv, NEW w \in Workers, Decide(w)
    PROVE  HeldOf(Deciding(w))
  <1> DEFINE r == Route(w)
             t == Transition(w)
             id == route_key(r, t)
             v == Deciding(w)
  <1>0. TypeOK
    BY DEF CoreInv
  <1>1. v.todo = worker[w].todo /\ v.routes = worker[w].routes /\ v.decision = Decision(r.policy, Channel(r), t)
    BY <1>0, DecideMove
  <1>2. Held(v) = id
    BY <1>1 DEF Held, Route, Transition
  <1>3. r \in Routes
    <2>1. worker[w].routes \subseteq Routes /\ worker[w].routes # {}
      BY <1>0 DEF TypeOK, WorkersOK, IsWorker, Decide
    <2> QED
      BY <2>1, FirstOf DEF Route
  <1>4. id.policy = r.policy /\ id.channel = Channel(r) /\ id.transition = t /\ id = identity_key(r.policy, Channel(r), t)
    BY <1>3, RouteFacts DEF route_key
  <1>5. PICK d : d = Decision(r.policy, Channel(r), t)
    OBVIOUS
  <1> HIDE DEF id, r, t, v
  <1>6. d = IF ~Wanted(id) THEN "policy"
            ELSE IF id \in DOMAIN notes THEN "duplicate"
            ELSE IF Suppressed(id) THEN "seen"
            ELSE IF Cools(id) THEN "cooldown"
            ELSE IF \E x \in Full(id.policy, id.channel) : x.key # <<"global">> THEN "rate_limit"
            ELSE IF Full(id.policy, id.channel) # {} THEN "global_limit"
            ELSE "insert"
    BY <1>4, <1>5 DEF Decision, Wanted, Cools
  <1>7. v.decision = d
    BY <1>1, <1>5
  <1>8. /\ d \in {"policy", "duplicate", "seen", "cooldown", "insert"} \cup Limits
        /\ d = "policy" => ~Wanted(id)
        /\ d = "duplicate" => id \in DOMAIN notes
        /\ d = "insert" => Wanted(id) /\ (Suppressed(id) => id \in DOMAIN notes)
        /\ d = "cooldown" => Cools(id)
        /\ d \in Limits => IsFull(id)
        /\ d = "insert" => ~Cools(id) /\ ~IsFull(id)
    BY <1>6 DEF Limits, IsFull
  <1>9. HeldOf(v)
    BY <1>2, <1>7, <1>8 DEF HeldOf
  <1> QED
    BY <1>9 DEF v

\* What a service holds is no identity retention has deleted.
LEMMA HeldIsNew ==
    ASSUME NEW v, IsWorker(v), v.at = "commit", NEW gone, \A id \in gone : id.transition \notin v.todo
    PROVE  Held(v) \notin gone
  <1>1. /\ v.routes \subseteq Routes /\ v.routes # {} /\ v.todo # {} /\ v.todo \subseteq Nat
    BY DEF IsWorker, Projecting
  <1>2. First(v.routes) \in Routes /\ Min(v.todo) \in v.todo
    BY <1>1, FirstOf, LeastOf
  <1>3. Held(v).transition = Min(v.todo)
    BY <1>2, RouteFacts DEF Held
  <1> QED
    BY <1>2, <1>3

LEMMA HeldIsNewNow ==
    ASSUME TypeOK, NoReplay, NEW w \in Workers, worker[w].at = "commit"
    PROVE  Held(worker[w]) \notin retired
  BY HeldIsNew DEF TypeOK, WorkersOK, NoReplay, Projecting

\* Rows of decisions are kept, or retired.
DecisionsKeptOrRetired ==
  /\ DOMAIN notes' \subseteq DOMAIN notes /\ suppressions' \subseteq suppressions
  /\ \A i \in DOMAIN notes \ DOMAIN notes' : i \in retired'
  /\ \A x \in suppressions \ suppressions' : x.id \in retired'
  /\ retired \subseteq retired'

\* The services that hold decisions when none of their views changes.
LEMMA HeldFrame ==
    ASSUME CoreInv, NoReplay', RowsKept, DecisionsKeptOrRetired,
           \A w \in Workers : HeldOf(worker[w]),
           \A w \in Workers : worker'[w] = worker[w] \/ worker'[w].at # "commit"
    PROVE  \A w \in Workers : HeldOf(worker[w])'
  <1> SUFFICES ASSUME NEW w \in Workers, worker'[w] = worker[w], worker[w].at = "commit" PROVE HeldOf(worker[w])'
    BY DEF HeldOf
  <1>0. TypeOK /\ RowsOK
    BY DEF CoreInv, TypeOK
  <1>1. PICK v : v = worker[w]
    OBVIOUS
  <1>2. HeldOf(v) /\ IsKey(Held(v)) /\ IsWorker(v) /\ v.at = "commit"
    BY <1>0, <1>1, HeldFacts DEF TypeOK, WorkersOK
  <1>3. PICK id : id = Held(v)
    OBVIOUS
  <1>4. id \notin retired' /\ id \notin retired
    <2>1. PICK gone : gone = retired'
      OBVIOUS
    <2>2. \A x \in gone : x.transition \notin v.todo
      BY <1>1, <1>2, <2>1 DEF NoReplay, Projecting
    <2>3. id \notin gone
      BY <1>2, <1>3, <2>2, HeldIsNew
    <2> QED
      BY <2>1, <2>3 DEF DecisionsKeptOrRetired
  <1>5. (id \in DOMAIN notes' <=> id \in DOMAIN notes) /\ (Suppressed(id)' <=> Suppressed(id))
    BY <1>4 DEF DecisionsKeptOrRetired, Suppressed
  <1>6. HeldOf(v)'
    BY <1>0, <1>2, <1>3, <1>4, <1>5, HeldKept
  <1> QED
    BY <1>1, <1>6

\* The three outcomes of a commit, and where the service goes.
CommitInsert(w) ==
  /\ worker[w].decision = "insert" /\ Held(worker[w]) \notin DOMAIN notes
  /\ notes' = With(notes, Held(worker[w]), Pending)
  /\ dedup' = Counted(Route(w).policy, Channel(Route(w)), Transition(w))
  /\ UNCHANGED suppressions
CommitNothing(w) == worker[w].decision = "seen" /\ UNCHANGED <<notes, dedup, suppressions>>
CommitSuppression(w) ==
  /\ worker[w].decision # "insert" \/ Held(worker[w]) \in DOMAIN notes
  /\ worker[w].decision # "seen"
  /\ \E reason : Suppress(Held(worker[w]), reason)
  /\ dedup' = Touched(Route(w).policy, Channel(Route(w)), Transition(w), worker[w].decision)
  /\ UNCHANGED notes

LEMMA CommitCases ==
    ASSUME CoreInv, NEW w \in Workers, create_decision(w)
    PROVE  /\ worker[w].at = "commit" /\ UNCHANGED retired
           /\ worker'[w].at # "commit" /\ \A x \in Workers : x # w => worker'[x] = worker[x]
           /\ CommitInsert(w) \/ CommitNothing(w) \/ CommitSuppression(w)
  <1>0. TypeOK /\ worker[w].at = "commit" /\ UNCHANGED retired /\ worker' = [worker EXCEPT ![w] = AfterRoute(w)]
    BY DEF CoreInv, create_decision
  <1>1. Held(worker[w]) = route_key(Route(w), Transition(w))
    BY <1>0, HeldFacts
  <1>2. AfterRoute(w).at # "commit"
    BY <1>0, AfterRouteIsWorker DEF TypeOK, WorkersOK
  <1>3. worker'[w].at # "commit" /\ \A x \in Workers : x # w => worker'[x] = worker[x]
    BY <1>0, <1>2, WorkerUpdate
  <1>4. CommitInsert(w) \/ CommitNothing(w) \/ CommitSuppression(w)
    BY <1>1 DEF create_decision, CommitInsert, CommitNothing, CommitSuppression
  <1> QED
    BY <1>0, <1>3, <1>4

\* What a service inserts was never decided, and nothing speaks against it.
LEMMA InsertIsFree ==
    ASSUME TypeOK, NoReplay, NEW w \in Workers, HeldOf(worker[w]), worker[w].at = "commit", CommitInsert(w)
    PROVE  LET id == Held(worker[w]) IN ~Decided(id) /\ ~Cools(id) /\ ~IsFull(id)
  BY HeldIsNewNow DEF HeldOf, CommitInsert, Decided

\* The other services' decisions after a notification was inserted.
LEMMA HeldAfterInsert ==
    ASSUME CoreInv, NoReplay, UNCHANGED retired, NEW w \in Workers, NEW x \in Workers, x # w,
           worker[w].at = "commit", worker[x].at = "commit",
           HeldOf(worker[w]), HeldOf(worker[x]), CommitInsert(w), worker'[x] = worker[x]
    PROVE  HeldOf(worker[x])'
  <1>1. PICK v : v = worker[x]
    OBVIOUS
  <1>2. PICK id : id = Held(v)
    OBVIOUS
  <1>3. PICK new : new = Held(worker[w])
    OBVIOUS
  <1>4. ~Decided(new)
    BY <1>3, InsertIsFree DEF CoreInv
  <1>5. DOMAIN notes' = DOMAIN notes \cup {new} /\ suppressions' = suppressions
    BY <1>3 DEF CommitInsert, With
  <1>6. Decided(id)' /\ (Suppressed(id)' <=> Suppressed(id))
    <2>1. id = new \/ Decided(id)
      BY <1>1, <1>2, <1>3, <1>4, OneWasDecided
    <2> QED
      BY <1>5, <2>1 DEF Decided, Suppressed
  <1>7. (Wanted(id)' <=> Wanted(id)) /\ Held(v)' = id
    <2>1. Wanted(id)' <=> Wanted(id)
      BY DEF Wanted, evaluate
    <2>2. Held(v)' = Held(v)
      BY Zenon DEF Held, route_key, identity_key, Channel, First, Before, Min
    <2> QED
      BY <1>2, <2>1, <2>2
  <1>8. HeldOf(v)'
    BY <1>1, <1>2, <1>5, <1>6, <1>7 DEF HeldOf
  <1> QED
    BY <1>1, <1>8

\* ... and after a suppression was recorded.
LEMMA HeldAfterSuppression ==
    ASSUME CoreInv, NoReplay, UNCHANGED retired, NEW w \in Workers, NEW x \in Workers, x # w,
           worker[w].at = "commit", worker[x].at = "commit",
           HeldOf(worker[w]), HeldOf(worker[x]), CommitSuppression(w), worker'[x] = worker[x], RowsKept
    PROVE  HeldOf(worker[x])'
  <1>0. TypeOK /\ RowsOK
    BY DEF CoreInv, TypeOK
  <1>1. PICK v : v = worker[x]
    OBVIOUS
  <1>2. PICK id : id = Held(v)
    OBVIOUS
  <1>3. PICK other : other = Held(worker[w])
    OBVIOUS
  <1>4. /\ notes' = notes /\ \A s \in suppressions' : s \in suppressions \/ s.id = other
        /\ suppressions \subseteq suppressions'
    BY <1>3, SuppressFacts DEF CommitSuppression
  <1>5. Suppressed(id)' => Suppressed(id) \/ id = other
    BY <1>4 DEF Suppressed
  <1>6. Decided(id) => Decided(id)'
    BY <1>4 DEF Decided, Suppressed
  <1>7. (Cools(id)' <=> Cools(id)) /\ (IsFull(id)' <=> IsFull(id))
    BY <1>0, <1>1, <1>2, HeldFacts, ViewKept
  <1>8. (Wanted(id)' <=> Wanted(id)) /\ Held(v)' = id
    <2>1. Wanted(id)' <=> Wanted(id)
      BY DEF Wanted, evaluate
    <2>2. Held(v)' = Held(v)
      BY Zenon DEF Held, route_key, identity_key, Channel, First, Before, Min
    <2> QED
      BY <1>2, <2>1, <2>2
  <1>9. v.decision = "insert" /\ id = other => id \in DOMAIN notes
    <2> SUFFICES ASSUME v.decision = "insert", id = other, id \notin DOMAIN notes PROVE FALSE
      OBVIOUS
    <2>1. Wanted(id) /\ ~Suppressed(id) /\ (~Decided(id) => ~Cools(id) /\ ~IsFull(id))
      BY <1>1, <1>2 DEF HeldOf
    <2>2. ~Decided(id)
      BY <1>0, <1>1, <1>2, <2>1, HeldIsNewNow DEF Decided
    <2> DEFINE d == worker[w].decision
    <2>3. /\ d \in {"policy", "duplicate", "seen", "cooldown", "insert"} \cup Limits
          /\ d = "policy" => ~Wanted(id)
          /\ d = "duplicate" => id \in DOMAIN notes
          /\ d = "cooldown" => Cools(id)
          /\ d \in Limits => IsFull(id)
      BY <1>3, <2>2 DEF HeldOf
    <2>4. d # "seen" /\ d # "insert"
      BY <1>3 DEF CommitSuppression
    <2> QED
      BY <2>1, <2>2, <2>3, <2>4
  <1>10. HeldOf(v)
    BY <1>1
  <1>11. HeldOf(v)'
    BY <1>2, <1>4, <1>5, <1>6, <1>7, <1>8, <1>9, <1>10 DEF HeldOf
  <1> QED
    BY <1>1, <1>11

LEMMA StormParts == StormInv <=> (\A w \in Workers : HeldOf(worker[w])) /\ CountersInv
  BY DEF StormInv, CountersInv

LEMMA CommitStorm ==
    ASSUME CoreInv, CoreInv', StormInv, NoReplay, NoReplay', NEW w \in Workers, create_decision(w)
    PROVE  StormInv'
  <1>0. TypeOK /\ TypeOK' /\ RowsOK /\ (\A x \in Workers : HeldOf(worker[x])) /\ CountersInv
    BY StormParts DEF CoreInv, TypeOK
  <1>1. /\ worker[w].at = "commit" /\ UNCHANGED retired
        /\ worker'[w].at # "commit" /\ \A x \in Workers : x # w => worker'[x] = worker[x]
        /\ CommitInsert(w) \/ CommitNothing(w) \/ CommitSuppression(w)
    BY CommitCases
  <1>2. \A x \in Workers : worker'[x] = worker[x] \/ worker'[x].at # "commit"
    BY <1>1
  <1>3. CASE CommitInsert(w)
    <2>1. CountersInv'
      <3>1. Route(w) \in Routes /\ Held(worker[w]) = route_key(Route(w), Transition(w))
        BY <1>0, <1>1, HeldFacts
      <3>2. ~Cools(Held(worker[w])) /\ ~IsFull(Held(worker[w]))
        BY <1>0, <1>1, <1>3, InsertIsFree
      <3> QED
        BY <1>0, <1>3, <3>1, <3>2, InsertCounters DEF CommitInsert
    <2>2. ASSUME NEW x \in Workers PROVE HeldOf(worker[x])'
      <3>1. CASE worker'[x].at # "commit"
        BY <3>1 DEF HeldOf
      <3>2. CASE worker'[x].at = "commit"
        <4>1. x # w /\ worker'[x] = worker[x] /\ worker[x].at = "commit"
          BY <1>1, <3>2
        <4> QED
          BY <1>0, <1>1, <1>3, <4>1, HeldAfterInsert
      <3> QED
        BY <3>1, <3>2
    <2> QED
      BY <2>1, <2>2, StormParts DEF StormInv, CountersInv
  <1>4. CASE CommitNothing(w)
    <2>1. RowsKept
      BY <1>0, <1>4, UnchangedRowsKept DEF CommitNothing
    <2>2. CountersInv'
      BY <1>0, <1>4, <2>1, CountersKept DEF CommitNothing, NotesKept
    <2>3. \A x \in Workers : HeldOf(worker[x])'
      BY <1>0, <1>1, <1>2, <1>4, <2>1, HeldFrame DEF CommitNothing, DecisionsKeptOrRetired
    <2> QED
      BY <2>2, <2>3 DEF StormInv, CountersInv
  <1>5. CASE CommitSuppression(w)
    <2>1. RowsKept
      <3>1. PICK f : f = Touched(Route(w).policy, Channel(Route(w)), Transition(w), worker[w].decision)
        OBVIOUS
      <3>2. SameRows(f) /\ dedup' = f
        BY <1>0, <1>5, <3>1, TouchedFacts DEF CommitSuppression
      <3> QED
        BY <3>2, SameRowsKept
    <2>2. CountersInv'
      BY <1>0, <1>5, <2>1, CountersKept DEF CommitSuppression, NotesKept
    <2>3. ASSUME NEW x \in Workers PROVE HeldOf(worker[x])'
      <3>1. CASE worker'[x].at # "commit"
        BY <3>1 DEF HeldOf
      <3>2. CASE worker'[x].at = "commit"
        <4>1. x # w /\ worker'[x] = worker[x] /\ worker[x].at = "commit"
          BY <1>1, <3>2
        <4> QED
          BY <1>0, <1>1, <1>5, <2>1, <4>1, HeldAfterSuppression
      <3> QED
        BY <3>1, <3>2
    <2> QED
      BY <2>2, <2>3 DEF StormInv, CountersInv
  <1> QED
    BY <1>1, <1>3, <1>4, <1>5

-----------------------------------------------------------------------------
(* No storm: every step.                                                     *)

\* The steps that count nothing and decide nothing.
LEMMA FrameStorm ==
    ASSUME CoreInv, CoreInv', StormInv, NoReplay', RowsKept, NotesKept, DecisionsKeptOrRetired,
           \A w \in Workers : worker'[w] = worker[w] \/ worker'[w].at # "commit"
    PROVE  StormInv'
  <1>0. TypeOK /\ TypeOK' /\ (\A w \in Workers : HeldOf(worker[w])) /\ CountersInv
    BY StormParts DEF CoreInv
  <1>1. CountersInv'
    BY <1>0, CountersKept
  <1>2. \A w \in Workers : HeldOf(worker[w])'
    BY <1>0, HeldFrame
  <1> QED
    BY <1>1, <1>2 DEF StormInv, CountersInv

\* A service writes its own state and does not arrive at a commit.
LEMMA MovesOn ==
    ASSUME TypeOK, NEW w \in Workers, NEW v, worker' = [worker EXCEPT ![w] = v], v.at # "commit"
    PROVE  \A x \in Workers : worker'[x] = worker[x] \/ worker'[x].at # "commit"
  BY WorkerUpdate

LEMMA BeginMovesOn == \A todo : Begin(todo).at # "commit"
  BY DEF Begin, Fresh

\* The services' steps outside a commit.
LEMMA LoopStorm ==
    ASSUME CoreInv, CoreInv', StormInv, NoReplay, NoReplay', NEW w \in Workers, Loop(w) \/ Crash(w)
    PROVE  StormInv'
  <1>0. TypeOK /\ RowsOK
    BY DEF CoreInv, TypeOK
  <1>1. CASE create_decision(w)
    BY <1>1, CommitStorm
  <1>2. CASE Decide(w)
    <2>1. RowsKept
      BY <1>0, <1>2, UnchangedRowsKept DEF Decide
    <2>2. CountersInv'
      BY <1>0, <1>2, <2>1, CountersKept, StormParts DEF Decide, CoreInv, NotesKept
    <2>3. PICK v : v = Deciding(w)
      OBVIOUS
    <2>4. HeldOf(v) /\ worker' = [worker EXCEPT ![w] = v] /\ IsWorker(v) /\ v.at = "commit"
      BY <1>0, <1>2, <2>3, DecideHeld, DecideMove
    <2>5. worker'[w] = v /\ \A x \in Workers : x # w => worker'[x] = worker[x]
      BY <1>0, <2>4, WorkerUpdate
    <2>6. DOMAIN notes' = DOMAIN notes /\ UNCHANGED <<suppressions, retired>>
      BY <1>2 DEF Decide
    <2>7. \A id : Suppressed(id)' <=> Suppressed(id)
      BY <2>6 DEF Suppressed
    <2>8. ASSUME NEW x \in Workers PROVE HeldOf(worker[x])'
      <3>1. PICK u : u = worker'[x]
        OBVIOUS
      <3>2. TypeOK' /\ (HeldOf(u) /\ (u.at = "commit" => IsKey(Held(u))))
        <4>1. CASE x = w
          <5>1. u = v
            BY <2>5, <3>1, <4>1
          <5>2. Held(v) = route_key(Route(w), Transition(w))
            BY <1>0, <1>2, <2>3, DecideMove DEF Held, Route, Transition
          <5>3. Route(w) \in Routes
            <6>1. worker[w].routes \subseteq Routes /\ worker[w].routes # {}
              BY <1>0, <1>2 DEF TypeOK, WorkersOK, IsWorker, Decide
            <6> QED
              BY <6>1, FirstOf DEF Route
          <5> QED
            BY <2>4, <5>1, <5>2, <5>3, RouteFacts DEF CoreInv
        <4>2. CASE x # w
          <5>1. u = worker[x] /\ HeldOf(worker[x])
            BY <2>5, <3>1, <4>2, StormParts
          <5> QED
            BY <1>0, <5>1, HeldFacts DEF CoreInv
        <4> QED
          BY <4>1, <4>2
      <3>3. HeldOf(u)'
        BY <1>0, <2>1, <2>6, <2>7, <3>2, HeldKept
      <3> QED
        BY <3>1, <3>3
    <2> QED
      BY <2>2, <2>8 DEF StormInv, CountersInv
  <1>3. CASE claim_due(w) \/ finish_delivery(w)
    <2>1. DOMAIN notes' = DOMAIN notes /\ \A i \in DOMAIN notes : notes'[i].age = notes[i].age
      BY <1>3, ClaimCore, FinishCore
    <2>2. UNCHANGED <<dedup, suppressions, retired>>
      BY <1>3 DEF claim_due, finish_delivery
    <2>3. \A x \in Workers : worker'[x] = worker[x] \/ worker'[x].at # "commit"
      <3>1. PICK v : worker' = [worker EXCEPT ![w] = v] /\ v.at # "commit"
        BY <1>3 DEF claim_due, finish_delivery, Fresh
      <3> QED
        BY <1>0, <3>1, MovesOn
    <2> QED
      BY <1>0, <2>1, <2>2, <2>3, UnchangedRowsKept, FrameStorm DEF NotesKept, DecisionsKeptOrRetired
  <1>4. ASSUME UNCHANGED <<notes, dedup, suppressions, retired>>,
               NEW v, worker' = [worker EXCEPT ![w] = v], v.at # "commit"
        PROVE  StormInv'
    <2>1. \A x \in Workers : worker'[x] = worker[x] \/ worker'[x].at # "commit"
      BY <1>0, <1>4, MovesOn
    <2> QED
      BY <1>0, <1>4, <2>1, UnchangedRowsKept, FrameStorm DEF NotesKept, DecisionsKeptOrRetired
  <1>5. CASE get_unprojected_transitions(w)
    BY <1>4, <1>5, BeginMovesOn DEF get_unprojected_transitions
  <1>6. CASE mark_projected(w)
    <2>1. AfterMark(w).at # "commit"
      BY BeginMovesOn DEF AfterMark, Fresh
    <2> QED
      BY <1>4, <1>6, <2>1 DEF mark_projected
  <1>7. CASE Pick(w)
    <2>1. Fresh.at # "commit" /\ \A i, d : [Fresh EXCEPT !.at = "claim", !.id = i, !.outcome = d].at # "commit"
      BY DEF Fresh
    <2>2. CASE worker' = [worker EXCEPT ![w] = Fresh]
      BY <1>4, <1>7, <2>1, <2>2 DEF Pick
    <2>3. ASSUME NEW i, worker' = [worker EXCEPT ![w] = [Fresh EXCEPT !.at = "claim", !.id = i,
                                                                      !.outcome = notes[i].delivery]]
          PROVE  StormInv'
      <3>1. PICK v : v = [Fresh EXCEPT !.at = "claim", !.id = i, !.outcome = notes[i].delivery]
        OBVIOUS
      <3>2. worker' = [worker EXCEPT ![w] = v] /\ v.at # "commit"
        BY <2>1, <2>3, <3>1
      <3>3. UNCHANGED <<notes, dedup, suppressions, retired>>
        BY <1>7 DEF Pick
      <3> QED
        BY <1>4, <3>2, <3>3
    <2> QED
      BY <1>7, <2>2, <2>3 DEF Pick
  <1>8. CASE send(w)
    <2>1. PICK o \in Outcomes : worker' = [worker EXCEPT ![w].at = "finish", ![w].outcome = o]
      BY <1>8 DEF send
    <2>2. worker' = [worker EXCEPT ![w] = [worker[w] EXCEPT !.at = "finish", !.outcome = o]]
      BY <1>0, <2>1 DEF TypeOK, WorkersOK
    <2>3. [worker[w] EXCEPT !.at = "finish", !.outcome = o].at # "commit"
      BY <1>0 DEF TypeOK, WorkersOK, IsWorker, WorkerFields
    <2> QED
      BY <1>4, <1>8, <2>2, <2>3 DEF send
  <1>9. CASE Crash(w)
    <2>1. Fresh.at # "commit"
      BY DEF Fresh
    <2> QED
      BY <1>4, <1>9, <2>1 DEF Crash
  <1> QED
    BY <1>1, <1>2, <1>3, <1>5, <1>6, <1>7, <1>8, <1>9 DEF Loop

\* Retention deletes what is too old to count.
LEMMA RetainStorm ==
    ASSUME CoreInv, CoreInv', StormInv, NoReplay', retain
    PROVE  StormInv'
  <1>1. PICK gone : gone = Retired
    OBVIOUS
  <1>2. PICK old : old = {s \in suppressions : s.age = Oldest /\ ~Kept(s.id)}
    OBVIOUS
  <1>3. PICK stale : stale = {k \in DOMAIN dedup : dedup[k].updated = Oldest}
    OBVIOUS
  <1>4. /\ notes' = [i \in DOMAIN notes \ gone |-> notes[i]]
        /\ suppressions' = suppressions \ old
        /\ dedup' = [k \in DOMAIN dedup \ stale |-> dedup[k]]
        /\ retired' = retired \cup gone \cup {s.id : s \in old}
        /\ UNCHANGED worker
    BY <1>1, <1>2, <1>3 DEF retain
  <1>5. \A i \in gone : i \in DOMAIN notes /\ notes[i].age = Oldest
    BY <1>1 DEF Retired
  <1>6. NotesKept
    BY <1>4, <1>5 DEF NotesKept
  <1>7. DecisionsKeptOrRetired
    BY <1>4 DEF DecisionsKeptOrRetired
  <1>8. RowsKept
    <2>1. \A k \in DOMAIN dedup : dedup[k].updated <= dedup[k].updated
      BY AgeFacts DEF CoreInv
    <2>2. DOMAIN dedup' = DOMAIN dedup \ stale /\ \A k \in DOMAIN dedup' : dedup'[k] = dedup[k]
      BY <1>4
    <2> QED
      BY <1>3, <2>1, <2>2 DEF RowsKept, State
  <1>9. \A w \in Workers : worker'[w] = worker[w]
    BY <1>4
  <1> QED
    BY <1>6, <1>7, <1>8, <1>9, FrameStorm

LEMMA InitStorm == Init => StormInv
  <1> SUFFICES ASSUME Init PROVE StormInv
    OBVIOUS
  <1>1. \A w \in Workers : HeldOf(worker[w])
    BY DEF Init, HeldOf, Fresh
  <1>2. DOMAIN notes = {} /\ DOMAIN dedup = {}
    BY DEF Init
  <1>3. RowsCover /\ CooldownInv
    BY <1>2 DEF RowsCover, CooldownInv
  <1>4. ASSUME NEW p \in DOMAIN Policies, NEW c \in DOMAIN Channels
        PROVE  ChannelInv(c, Policies[p].window_seconds, Policies[p].max_notifications)
    <2> DEFINE length == Policies[p].window_seconds
    <2>1. InWindow(c) = {} /\ AfterFirst(c) = {} /\ Preceding(c, length) = {}
      BY <1>2 DEF InWindow, AfterFirst, Preceding, Young
    <2>2. Count(c) = 0
      BY <1>2 DEF Count, State, NoState
    <2> QED
      BY <2>1, <2>2, SmallSets, LimitFacts DEF ChannelInv
  <1> QED
    BY <1>1, <1>3, <1>4 DEF StormInv

LEMMA NextStorm ==
    ASSUME CoreInv, CoreInv', StormInv, NoReplay, NoReplay', [Next]_vars
    PROVE  StormInv'
  <1>0. TypeOK /\ RowsOK
    BY DEF CoreInv, TypeOK
  <1>1. ASSUME UNCHANGED <<notes, dedup, suppressions, worker, retired>> PROVE StormInv'
    BY <1>0, <1>1, UnchangedRowsKept, FrameStorm DEF NotesKept, DecisionsKeptOrRetired
  <1>2. CASE UNCHANGED vars \/ Emit
    BY <1>1, <1>2 DEF vars, Emit
  <1>3. CASE Tick
    <2>1. CountersInv'
      BY <1>3, TickCounters, StormParts
    <2>2. \A w \in Workers : worker'[w].at # "commit"
      BY <1>3 DEF Tick
    <2>3. \A w \in Workers : HeldOf(worker[w])'
      BY <2>2 DEF HeldOf
    <2> QED
      BY <2>1, <2>3 DEF StormInv, CountersInv
  <1>4. CASE retain
    BY <1>4, RetainStorm
  <1>5. ASSUME NEW w \in Workers, Loop(w) \/ Crash(w) PROVE StormInv'
    BY <1>5, LoopStorm
  <1>6. ASSUME NEW o \in Operators, Operate(o) PROVE StormInv'
    <2>1. CASE ReadStatus(o)
      BY <1>1, <2>1 DEF ReadStatus
    <2>2. CASE retry_delivery(o) \/ reconcile_unknown(o)
      <3>1. DOMAIN notes' = DOMAIN notes /\ \A i \in DOMAIN notes : notes'[i].age = notes[i].age
        BY <2>2, RetryCore, ReconcileCore
      <3>2. UNCHANGED <<dedup, suppressions, worker, retired>>
        BY <2>2 DEF retry_delivery, reconcile_unknown
      <3> QED
        BY <1>0, <3>1, <3>2, UnchangedRowsKept, FrameStorm DEF NotesKept, DecisionsKeptOrRetired
    <2> QED
      BY <1>6, <2>1, <2>2 DEF Operate
  <1> QED
    BY <1>2, <1>3, <1>4, <1>5, <1>6 DEF Next

LEMMA StormHolds == Spec /\ []NoReplay => []StormInv
  <1>1. Init => StormInv
    BY InitStorm
  <1>2. CoreInv /\ CoreInv' /\ StormInv /\ NoReplay /\ NoReplay' /\ [Next]_vars => StormInv'
    BY NextStorm
  <1> QED
    BY <1>1, <1>2, CoreHolds, PTL DEF Spec

\* What the counters' invariant says of one channel.
LEMMA ChannelBound ==
    ASSUME TypeOK, NEW c, NEW length \in 1 .. RetentionSeconds, NEW max \in Nat \ {0}, ChannelInv(c, length, max)
    PROVE  Cardinality({i \in DOMAIN notes \ retired : i.channel = c /\ notes[i].age < length}) < 2 * max
  <1> DEFINE recent == {i \in DOMAIN notes \ retired : i.channel = c /\ notes[i].age < length}
             both == InWindow(c) \cup Preceding(c, length)
  <1>0. /\ NotesOK /\ RetentionSeconds \in Nat /\ Oldest = RetentionSeconds + 1
        /\ \A i \in DOMAIN notes : notes[i].age \in 0 .. Oldest
        /\ Start(c) \in 0 .. Oldest /\ Count(c) \in Nat
    BY AgeFacts DEF TypeOK
  <1>1. recent \subseteq both
    BY <1>0 DEF InWindow, Preceding, Young
  <1>2. InWindow(c) \subseteq DOMAIN notes /\ Preceding(c, length) \subseteq DOMAIN notes /\ both \subseteq DOMAIN notes
    BY DEF InWindow, Preceding, Young
  <1> HIDE DEF recent, both
  <1>3. /\ IsFiniteSet(InWindow(c)) /\ Cardinality(InWindow(c)) \in Nat
        /\ IsFiniteSet(Preceding(c, length)) /\ Cardinality(Preceding(c, length)) \in Nat
        /\ Cardinality(both) \in Nat /\ Cardinality(recent) \in Nat /\ Cardinality(recent) <= Cardinality(both)
    BY <1>0, <1>1, <1>2, FiniteParts
  <1>4. Cardinality(both) <= Cardinality(InWindow(c)) + Cardinality(Preceding(c, length))
    <2>1. /\ Cardinality(both) = Cardinality(InWindow(c)) + Cardinality(Preceding(c, length))
                                   - Cardinality(InWindow(c) \cap Preceding(c, length))
      BY <1>3, FS_Union DEF both
    <2>2. Cardinality(InWindow(c) \cap Preceding(c, length)) \in Nat
      BY <1>0, <1>2, FiniteParts
    <2> QED
      BY <1>3, <2>1, <2>2
  <1>5. Cardinality(InWindow(c)) <= max /\ Cardinality(Preceding(c, length)) < max
    BY <1>0, <1>3 DEF ChannelInv
  <1>6. Cardinality(recent) < 2 * max
    BY <1>3, <1>4, <1>5
  <1> QED
    BY <1>6 DEF recent

\* As long as no service replays a transition of which retention has deleted a
\* row (one that stayed unmarked for the whole retention period), no channel
\* gets twice its limit within a window and no two notifications of a scope are
\* closer than the cooldown, however many projectors act on what they read
\* before their transactions, crash, replay and find counters deleted
\* (create_decision, retain).
THEOREM StormBound == Spec /\ []NoReplay => []NoStorm
  <1>1. CoreInv /\ StormInv => NoStorm
    <2> SUFFICES ASSUME CoreInv, StormInv PROVE NoStorm
      OBVIOUS
    <2>1. ASSUME NEW p \in DOMAIN Policies, NEW c \in DOMAIN Channels, Agree(p, c)
          PROVE  Cardinality({i \in DOMAIN notes \ retired : i.channel = c /\ notes[i].age < Policies[p].window_seconds})
                   < 2 * Policies[p].max_notifications
      <3>1. ChannelInv(c, Policies[p].window_seconds, Policies[p].max_notifications)
        BY <2>1 DEF StormInv
      <3> QED
        BY <3>1, LimitFacts, ChannelBound DEF CoreInv
    <2>2. ASSUME NEW i \in DOMAIN notes \ retired, NEW j \in DOMAIN notes \ retired, i # j,
                 Scope(i.policy, i.channel, i.transition) = Scope(j.policy, j.channel, j.transition),
                 notes[i].age <= notes[j].age, notes[j].age < Oldest
          PROVE  notes[j].age - notes[i].age >= Policies[i.policy].cooldown_seconds
      BY <2>2 DEF StormInv, CooldownInv, ScopeOf
    <2> QED
      BY <2>1, <2>2 DEF NoStorm
  <1> QED
    BY <1>1, CoreHolds, StormHolds, PTL

-----------------------------------------------------------------------------
(* Without a crash in the middle of a pass, nothing is replayed.             *)

HasRow(t) ==
  \/ \E i \in DOMAIN notes : i.transition = t
  \/ \E s \in suppressions : s.id.transition = t
  \/ \E id \in retired : id.transition = t

NewRows(t) ==
  /\ \A i \in DOMAIN notes : i.transition = t => notes[i].age = 0
  /\ \A s \in suppressions : s.id.transition = t => s.age = 0
  /\ \A id \in retired : id.transition # t

Inside(t) == \E w \in Workers : Projecting(worker[w]) /\ t \in worker[w].todo

\* An unmarked transition with a decision is in some service's pass, and the
\* decisions of a transition in a pass were made in this instant.
PassInv == \A t : (HasRow(t) => t \in projected \/ Inside(t)) /\ (Inside(t) => NewRows(t))

Undisturbed == \A w \in Workers : ~(Crash(w) /\ Projecting(worker[w]))

\* The steps that write no decision and neither begin nor end a pass.
LEMMA PassFrame ==
    ASSUME PassInv, DOMAIN notes' = DOMAIN notes, \A i \in DOMAIN notes : notes'[i].age = notes[i].age,
           UNCHANGED <<suppressions, retired, projected>>,
           \A w \in Workers : /\ Projecting(worker'[w]) <=> Projecting(worker[w])
                              /\ Projecting(worker[w]) => worker'[w].todo = worker[w].todo
    PROVE  PassInv'
  <1> SUFFICES ASSUME NEW t PROVE (HasRow(t) => t \in projected \/ Inside(t))' /\ (Inside(t) => NewRows(t))'
    BY DEF PassInv
  <1>1. (HasRow(t)' <=> HasRow(t)) /\ (NewRows(t)' <=> NewRows(t))
    BY DEF HasRow, NewRows
  <1>2. Inside(t)' <=> Inside(t)
    BY DEF Inside, Projecting
  <1> QED
    BY <1>1, <1>2 DEF PassInv

\* A service outside a pass writes its own state and stays outside.
LEMMA StaysOut ==
    ASSUME TypeOK, NEW w \in Workers, NEW v, worker' = [worker EXCEPT ![w] = v],
           ~Projecting(worker[w]), ~Projecting(v)
    PROVE  \A x \in Workers : /\ Projecting(worker'[x]) <=> Projecting(worker[x])
                              /\ Projecting(worker[x]) => worker'[x].todo = worker[x].todo
  BY WorkerUpdate

LEMMA FetchPass ==
    ASSUME CoreInv, PassInv, NEW w \in Workers, get_unprojected_transitions(w)
    PROVE  PassInv'
  <1> SUFFICES ASSUME NEW t PROVE (HasRow(t) => t \in projected \/ Inside(t))' /\ (Inside(t) => NewRows(t))'
    BY DEF PassInv
  <1>0. TypeOK /\ ~Projecting(worker[w]) /\ UNCHANGED <<notes, suppressions, retired, projected>>
    BY DEF CoreInv, get_unprojected_transitions, Projecting
  <1>1. PICK todo : worker' = [worker EXCEPT ![w] = Begin(todo)] /\ \A u \in todo : u \notin projected
    BY DEF get_unprojected_transitions
  <1>2. Begin(todo).todo = todo
    BY DEF Begin, Fresh
  <1>3. worker'[w] = Begin(todo) /\ \A x \in Workers : x # w => worker'[x] = worker[x]
    BY <1>0, <1>1, WorkerUpdate
  <1>4. (HasRow(t)' <=> HasRow(t)) /\ (NewRows(t)' <=> NewRows(t))
    BY <1>0 DEF HasRow, NewRows
  <1>5. Inside(t) => Inside(t)'
    BY <1>0, <1>3 DEF Inside, Projecting
  <1>6. Inside(t)' => Inside(t) \/ t \notin projected
    BY <1>1, <1>2, <1>3 DEF Inside, Projecting
  <1>7. ~HasRow(t) => NewRows(t)
    BY DEF HasRow, NewRows
  <1> QED
    BY <1>0, <1>4, <1>5, <1>6, <1>7 DEF PassInv

LEMMA CommitPass ==
    ASSUME CoreInv, PassInv, NEW w \in Workers, create_decision(w)
    PROVE  PassInv'
  <1> SUFFICES ASSUME NEW t PROVE (HasRow(t) => t \in projected \/ Inside(t))' /\ (Inside(t) => NewRows(t))'
    BY DEF PassInv
  <1>0. TypeOK /\ IsWorker(worker[w]) /\ worker[w].at = "commit" /\ UNCHANGED <<retired, projected>>
    BY DEF CoreInv, TypeOK, WorkersOK, create_decision
  <1>1. PICK v : v = AfterRoute(w)
    OBVIOUS
  <1>2. worker' = [worker EXCEPT ![w] = v] /\ Projecting(v) /\ v.todo = worker[w].todo
    BY <1>0, <1>1, AfterRouteIsWorker DEF create_decision
  <1>3. worker'[w] = v /\ \A x \in Workers : x # w => worker'[x] = worker[x]
    BY <1>0, <1>2, WorkerUpdate
  <1>4. Inside(t)' <=> Inside(t)
    BY <1>0, <1>2, <1>3 DEF Inside, Projecting
  <1>5. PICK h : h = Held(worker[w])
    OBVIOUS
  <1>6. h.transition \in worker[w].todo
    <2>1. Transition(w) \in worker[w].todo /\ Route(w) \in Routes /\ h = route_key(Route(w), Transition(w))
      BY <1>0, <1>5, HeldFacts
    <2> QED
      BY <2>1, RouteFacts
  <1>7. Inside(h.transition)
    BY <1>0, <1>6 DEF Inside, Projecting
  <1>8. /\ \A i \in DOMAIN notes' : (i \in DOMAIN notes /\ notes'[i] = notes[i]) \/ (i = h /\ notes'[i].age = 0)
        /\ \A s \in suppressions' : s \in suppressions \/ (s.id = h /\ s.age = 0)
    <2>1. CASE CommitInsert(w)
      <3>1. \A i \in DOMAIN notes' : (i \in DOMAIN notes /\ notes'[i] = notes[i]) \/ (i = h /\ notes'[i] = Pending)
        BY <1>5, <2>1 DEF CommitInsert, With
      <3> QED
        BY <2>1, <3>1, PendingFacts DEF CommitInsert
    <2>2. CASE CommitNothing(w)
      BY <2>2 DEF CommitNothing
    <2>3. CASE CommitSuppression(w)
      <3>1. PICK reason : Suppress(h, reason)
        BY <1>5, <2>3 DEF CommitSuppression
      <3>2. \A s \in suppressions' : s \in suppressions \/ s = [id |-> h, reason |-> reason, age |-> 0]
        BY <3>1 DEF Suppress
      <3> QED
        BY <2>3, <3>2 DEF CommitSuppression
    <2> QED
      BY <2>1, <2>2, <2>3, CommitCases
  <1>9. HasRow(t)' => HasRow(t) \/ t = h.transition
    BY <1>0, <1>8 DEF HasRow
  <1>10. NewRows(t) => NewRows(t)'
    BY <1>0, <1>8 DEF NewRows
  <1> QED
    BY <1>0, <1>4, <1>7, <1>9, <1>10 DEF PassInv

LEMMA MarkPass ==
    ASSUME CoreInv, PassInv, NEW w \in Workers, mark_projected(w)
    PROVE  PassInv'
  <1> SUFFICES ASSUME NEW t PROVE (HasRow(t) => t \in projected \/ Inside(t))' /\ (Inside(t) => NewRows(t))'
    BY DEF PassInv
  <1>0. /\ TypeOK /\ IsWorker(worker[w]) /\ worker[w].at = "mark" /\ UNCHANGED <<notes, suppressions, retired>>
        /\ projected' = projected \cup {Transition(w)} /\ worker' = [worker EXCEPT ![w] = AfterMark(w)]
    BY DEF CoreInv, TypeOK, WorkersOK, mark_projected
  <1>1. PICK rest : rest = worker[w].todo \ {Transition(w)}
    OBVIOUS
  <1>2. PICK v : v = AfterMark(w)
    OBVIOUS
  <1>3. (\A u \in rest : Projecting(v) /\ u \in v.todo) /\ (Projecting(v) => v.todo \subseteq rest)
    <2>1. Begin(rest).todo = rest /\ Projecting(Begin(rest)) /\ ~Projecting([Fresh EXCEPT !.at = "pick"])
      BY DEF Begin, Fresh, Projecting
    <2> QED
      BY <1>1, <1>2, <2>1 DEF AfterMark
  <1>4. worker'[w] = v /\ \A x \in Workers : x # w => worker'[x] = worker[x]
    BY <1>0, <1>2, WorkerUpdate
  <1>5. (HasRow(t)' <=> HasRow(t)) /\ (NewRows(t)' <=> NewRows(t))
    BY <1>0 DEF HasRow, NewRows
  <1>6. Inside(t)' => Inside(t)
    BY <1>0, <1>1, <1>3, <1>4 DEF Inside, Projecting
  <1>7. Inside(t) => Inside(t)' \/ t \in projected'
    BY <1>0, <1>1, <1>3, <1>4 DEF Inside
  <1> QED
    BY <1>0, <1>5, <1>6, <1>7 DEF PassInv

LEMMA TickPass ==
    ASSUME CoreInv, PassInv, Tick
    PROVE  PassInv'
  <1> SUFFICES ASSUME NEW t PROVE (HasRow(t) => t \in projected \/ Inside(t))' /\ (Inside(t) => NewRows(t))'
    BY DEF PassInv
  <1>1. ~Inside(t) /\ ~Inside(t)' /\ UNCHANGED <<projected, retired>>
    BY DEF Tick, Inside, Projecting
  <1>2. DOMAIN notes' = DOMAIN notes
    BY TickWrites DEF TickResult
  <1>3. \A x \in suppressions' : \E s \in suppressions : x.id = s.id
    <2>1. suppressions' = {OlderSuppression(s) : s \in suppressions}
      BY DEF Tick, OlderSuppression
    <2>2. \A s \in suppressions : OlderSuppression(s).id = s.id
      BY DEF CoreInv, TypeOK, SuppressionsOK, OlderSuppression
    <2> QED
      BY <2>1, <2>2
  <1>4. HasRow(t)' => HasRow(t)
    BY <1>1, <1>2, <1>3 DEF HasRow
  <1> QED
    BY <1>1, <1>4 DEF PassInv

LEMMA RetainPass ==
    ASSUME CoreInv, PassInv, retain
    PROVE  PassInv'
  <1> SUFFICES ASSUME NEW t PROVE (HasRow(t) => t \in projected \/ Inside(t))' /\ (Inside(t) => NewRows(t))'
    BY DEF PassInv
  <1>0. Oldest # 0
    BY ConfigurationAssumption DEF Oldest
  <1>1. PICK gone : gone = Retired
    OBVIOUS
  <1>2. PICK old : old = {s \in suppressions : s.age = Oldest /\ ~Kept(s.id)}
    OBVIOUS
  <1>3. /\ notes' = [i \in DOMAIN notes \ gone |-> notes[i]]
        /\ suppressions' = suppressions \ old
        /\ retired' = retired \cup gone \cup {s.id : s \in old}
        /\ UNCHANGED <<worker, projected>>
    BY <1>1, <1>2 DEF retain
  <1>4. (\A i \in gone : i \in DOMAIN notes /\ notes[i].age = Oldest) /\ (\A s \in old : s \in suppressions /\ s.age = Oldest)
    BY <1>1, <1>2 DEF Retired
  <1>5. DOMAIN notes' \subseteq DOMAIN notes /\ \A i \in DOMAIN notes' : notes'[i] = notes[i]
    BY <1>3
  <1>6. HasRow(t)' => HasRow(t)
    BY <1>3, <1>4, <1>5 DEF HasRow
  <1>7. NewRows(t) => NewRows(t)'
    BY <1>0, <1>3, <1>4, <1>5 DEF NewRows
  <1>8. Inside(t)' <=> Inside(t)
    BY <1>3 DEF Inside
  <1> QED
    BY <1>3, <1>6, <1>7, <1>8 DEF PassInv

LEMMA NextPass ==
    ASSUME CoreInv, PassInv, [Next]_vars, [Undisturbed]_vars
    PROVE  PassInv'
  <1>0. TypeOK
    BY DEF CoreInv
  <1>1. ASSUME UNCHANGED <<notes, suppressions, worker, retired, projected>> PROVE PassInv'
    BY <1>1, PassFrame
  <1>2. CASE UNCHANGED vars \/ Emit
    BY <1>1, <1>2 DEF vars, Emit
  <1>3. CASE Tick
    BY <1>3, TickPass
  <1>4. CASE retain
    BY <1>4, RetainPass
  <1>5. ASSUME NEW w \in Workers, Loop(w) \/ Crash(w), ~UNCHANGED vars PROVE PassInv'
    <2>1. CASE get_unprojected_transitions(w) \/ create_decision(w) \/ mark_projected(w)
      BY <2>1, FetchPass, CommitPass, MarkPass
    <2>2. CASE Decide(w)
      <3>1. PICK v : v = Deciding(w)
        OBVIOUS
      <3>2. /\ worker' = [worker EXCEPT ![w] = v] /\ v.todo = worker[w].todo
            /\ Projecting(worker[w]) /\ Projecting(v)
        BY <1>0, <2>2, <3>1, DecideMove
      <3>3. worker'[w] = v /\ \A x \in Workers : x # w => worker'[x] = worker[x]
        BY <1>0, <3>2, WorkerUpdate
      <3> QED
        BY <2>2, <3>2, <3>3, PassFrame DEF Decide
    <2>3. ASSUME NEW v, worker' = [worker EXCEPT ![w] = v], ~Projecting(worker[w]), ~Projecting(v),
                 DOMAIN notes' = DOMAIN notes, \A i \in DOMAIN notes : notes'[i].age = notes[i].age,
                 UNCHANGED <<suppressions, retired, projected>>
          PROVE  PassInv'
      <3>1. \A x \in Workers : /\ Projecting(worker'[x]) <=> Projecting(worker[x])
                               /\ Projecting(worker[x]) => worker'[x].todo = worker[x].todo
        BY <1>0, <2>3, StaysOut
      <3> QED
        BY <2>3, <3>1, PassFrame
    <2>4. /\ ~Projecting(Fresh) /\ \A i, d : ~Projecting([Fresh EXCEPT !.at = "claim", !.id = i, !.outcome = d])
          /\ \A i, n : ~Projecting([Fresh EXCEPT !.at = "send", !.id = i, !.token = n])
      BY DEF Fresh, Projecting
    <2>5. CASE Pick(w)
      <3>1. ~Projecting(worker[w]) /\ UNCHANGED <<notes, suppressions, retired, projected>>
        BY <2>5 DEF Pick, Projecting
      <3>2. PICK v : worker' = [worker EXCEPT ![w] = v] /\ ~Projecting(v)
        <4>1. CASE worker' = [worker EXCEPT ![w] = Fresh]
          BY <2>4, <4>1
        <4>2. ASSUME NEW i, worker' = [worker EXCEPT ![w] = [Fresh EXCEPT !.at = "claim", !.id = i,
                                                                          !.outcome = notes[i].delivery]]
              PROVE  \E v : worker' = [worker EXCEPT ![w] = v] /\ ~Projecting(v)
          <5>1. PICK v : v = [Fresh EXCEPT !.at = "claim", !.id = i, !.outcome = notes[i].delivery]
            OBVIOUS
          <5> QED
            BY <2>4, <4>2, <5>1
        <4> QED
          BY <2>5, <4>1, <4>2 DEF Pick
      <3> QED
        BY <2>3, <3>1, <3>2
    <2>6. CASE claim_due(w)
      <3>1. ~Projecting(worker[w]) /\ UNCHANGED <<suppressions, retired, projected>>
        BY <2>6 DEF claim_due, Projecting
      <3>2. PICK v : worker' = [worker EXCEPT ![w] = v] /\ ~Projecting(v)
        BY <2>4, <2>6 DEF claim_due
      <3> QED
        BY <2>3, <2>6, <3>1, <3>2, ClaimCore
    <2>7. CASE send(w)
      <3>1. ~Projecting(worker[w]) /\ UNCHANGED <<notes, suppressions, retired, projected>>
        BY <2>7 DEF send, Projecting
      <3>2. PICK o \in Outcomes : worker' = [worker EXCEPT ![w].at = "finish", ![w].outcome = o]
        BY <2>7 DEF send
      <3>3. PICK v : v = [worker[w] EXCEPT !.at = "finish", !.outcome = o]
        OBVIOUS
      <3>4. worker' = [worker EXCEPT ![w] = v] /\ ~Projecting(v)
        BY <1>0, <3>2, <3>3 DEF TypeOK, WorkersOK, IsWorker, WorkerFields, Projecting
      <3> QED
        BY <2>3, <3>1, <3>4
    <2>8. CASE finish_delivery(w)
      <3>1. ~Projecting(worker[w]) /\ UNCHANGED <<suppressions, retired, projected>>
            /\ worker' = [worker EXCEPT ![w] = Fresh]
        BY <2>8 DEF finish_delivery, Projecting
      <3> QED
        BY <2>3, <2>4, <2>8, <3>1, FinishCore
    <2>9. CASE Crash(w)
      <3>1. ~Projecting(worker[w])
        BY <1>5, <2>9 DEF Undisturbed
      <3> QED
        BY <2>3, <2>4, <2>9, <3>1 DEF Crash
    <2> QED
      BY <1>5, <2>1, <2>2, <2>5, <2>6, <2>7, <2>8, <2>9 DEF Loop
  <1>6. ASSUME NEW o \in Operators, Operate(o) PROVE PassInv'
    <2>1. CASE ReadStatus(o)
      BY <1>1, <2>1 DEF ReadStatus
    <2>2. CASE retry_delivery(o) \/ reconcile_unknown(o)
      <3>1. DOMAIN notes' = DOMAIN notes /\ \A i \in DOMAIN notes : notes'[i].age = notes[i].age
        BY <2>2, RetryCore, ReconcileCore
      <3>2. UNCHANGED <<suppressions, worker, retired, projected>>
        BY <2>2 DEF retry_delivery, reconcile_unknown
      <3> QED
        BY <3>1, <3>2, PassFrame
    <2> QED
      BY <1>6, <2>1, <2>2 DEF Operate
  <1> QED
    BY <1>2, <1>3, <1>4, <1>5, <1>6 DEF Next

\* A run in which no service crashes between fetching transitions and marking
\* them replays nothing, so what a channel gets is bounded in all of it.
THEOREM UndisturbedStormBound == Spec /\ [][Undisturbed]_vars => []NoStorm
  <1>1. Init => PassInv
    BY DEF Init, PassInv, HasRow, Inside, Fresh, Projecting
  <1>2. CoreInv /\ PassInv /\ [Next]_vars /\ [Undisturbed]_vars => PassInv'
    BY NextPass
  <1>3. PassInv => NoReplay
    BY DEF PassInv, NoReplay, Inside, NewRows
  <1> QED
    BY <1>1, <1>2, <1>3, CoreHolds, StormBound, PTL DEF Spec
=============================================================================
