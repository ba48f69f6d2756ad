----------------------- MODULE EventPipeline_proofs -----------------------
(* Proofs for EventPipeline: however many runs, crashes, errors and commands  *)
(* there are and whatever retention deletes, only a recovery is ever applied  *)
(* twice, an opening is never lost but by an interruption, and the service    *)
(* alone keeps the order of the runs and a timeline without gaps.             *)
EXTENDS EventPipeline, FiniteSetTheorems, NaturalsInduction, WellFoundedInduction, TLAPS

-----------------------------------------------------------------------------
(* The inductive invariant.                                                  *)

IsSeq(s) == s \in Seq({s[i] : i \in DOMAIN s})
Different(s) == \A i, j \in DOMAIN s : s[i] = s[j] => i = j

\* What a run yields: only a recovery comes twice, the second time right after
\* an event that resolves the incident.
Derived(w) ==
  \A j, k \in DOMAIN w : j < k /\ w[j] = w[k] => w[j].type = "recovered" /\ _resolves_incident(w[k - 1])

ProcFields == {"at", "batch", "evs", "report", "what", "seen"}
ApplyStates == {"apply", "search", "write"}

IsProc(q) ==
  /\ q = [x \in ProcFields |-> q[x]]
  /\ q.at \in {"idle", "next", "commit"} \cup ApplyStates
  /\ q.at # "idle" => q.batch # {}
  /\ IsSeq(q.evs) /\ Derived(q.evs)
  /\ q.at \in {"search", "write"} => q.evs # << >>

TypeOK ==
  /\ kind \in Kinds /\ lastId \in Nat /\ afterId \in 0 .. lastId
  /\ DOMAIN runs \subseteq 1 .. lastId /\ marked \subseteq DOMAIN runs
  /\ \A e \in events : e = [run |-> e.run, event |-> e.event]
  /\ IsSeq(timeline)
  /\ incident = [x \in {"status", "severity"} |-> incident[x]]
  /\ procs = [p \in Procs |-> procs[p]]
  /\ \A p \in Procs : IsProc(procs[p]) /\ procs[p].batch \subseteq 1 .. lastId
  /\ budget = [x \in {"faults", "cli"} |-> budget[x]]
  /\ budget.cli \in 0 .. MaxCli[kind]

\* Events are only stored with their run's marker, which retention keeps.
EventsAreMarked == \A e \in events : e.run \in marked

\* The timeline refers to events that are stored, and leaves an incident.
TimelineSound ==
  /\ \A t \in DOMAIN timeline : timeline[t].event \in events
  /\ \A t \in DOMAIN timeline : timeline[t].to.status # "none"

Applying(p) == procs[p].at \in ApplyStates /\ procs[p].evs # << >>
EventOf(p, k) == [run |-> Current(p), event |-> procs[p].evs[k]]

\* What a processor has left to apply is stored, and only a recovery of it can
\* be in the timeline already.
ApplierSound(p) ==
  Applying(p) =>
    \A k \in DOMAIN procs[p].evs :
      /\ EventOf(p, k) \in events
      /\ Applied(EventOf(p, k)) => procs[p].evs[k].type = "recovered"

\* What a processor is about to write rests on a state the incident has had.
WriterSound(p) ==
  /\ procs[p].at = "search" => ~_resolves_incident(Head(procs[p].evs))
  /\ procs[p].at = "write" =>
       /\ procs[p].what = "opened" <=> procs[p].seen = NoIncident
       /\ procs[p].seen = NoIncident \/ \E s \in DOMAIN timeline : procs[p].seen = timeline[s].to
       /\ procs[p].what = "recovered" <=> _resolves_incident(Head(procs[p].evs))
       /\ procs[p].what = "recovered" => procs[p].seen.status = "open"

\* No two processors apply the events of one run, and the run being applied is
\* marked unless it was deleted.
AppliersApart ==
  /\ \A p, q \in Procs : p # q /\ Applying(p) /\ Applying(q) => Current(p) # Current(q)
  /\ \A p \in Procs : procs[p].at \in ApplyStates => Current(p) \notin DOMAIN runs \ marked

\* While the service is the only writer, what it has read is still so, and an
\* event it meets again finds the incident resolved.
AloneSound ==
  Applying("service") =>
    /\ \A t \in DOMAIN timeline : timeline[t].event.run <= Current("service")
    /\ procs["service"].at = "write" => procs["service"].seen = incident
    /\ Applied(EventOf("service", 1)) => incident.status # "open"
    /\ \A k \in DOMAIN procs["service"].evs :
         k > 1 /\ Applied(EventOf("service", k)) => _resolves_incident(procs["service"].evs[k - 1])

\* As long as no command has run, the service has processed every run before
\* those it has left.
ServiceInOrder ==
  NoCommandYet =>
    /\ procs["cli"].at = "idle"
    /\ \A q \in DOMAIN runs : q <= afterId => q \in marked
    /\ \A q \in DOMAIN runs, b \in procs["service"].batch :
         q < b => q \in procs["service"].batch \cup marked
    /\ AloneSound

IInv ==
  /\ TypeOK /\ EventsAreMarked /\ TimelineSound
  /\ \A p \in Procs : ApplierSound(p) /\ WriterSound(p)
  /\ AppliersApart /\ ServiceInOrder
  /\ AppliedOnce /\ OpeningsReachIncident /\ InRunOrder

-----------------------------------------------------------------------------
(* Sequences and minima.                                                     *)

\* The oldest of some runs.
LEMMA MinOf ==
    ASSUME NEW S, S \subseteq Nat, S # {}
    PROVE  Min(S) \in S /\ \A y \in S : Min(S) <= y
  <1> DEFINE R == {p \in Nat \X Nat : p[1] < p[2]}
  <1>1. IsWellFoundedOn(R, Nat)
    BY NatLessThanWellFounded DEF OpToRel
  <1>2. PICK x \in S : \A y \in S : <<y, x>> \notin R
    <2> HIDE DEF R
    <2> QED
      BY <1>1, WFMin
  <1>3. \A y \in S : ~(y < x)
    BY <1>2
  <1>4. \A y \in S : x <= y
    BY <1>3
  <1> QED
    BY <1>4 DEF Min

\* The length and the elements of a sequence.
LEMMA SeqFacts ==
    ASSUME NEW s, IsSeq(s)
    PROVE  Len(s) \in Nat /\ DOMAIN s = 1 .. Len(s) /\ (s = << >> <=> Len(s) = 0)
  BY DEF IsSeq

\* Any sequence is one of its own elements.
LEMMA SeqOfOwn ==
    ASSUME NEW S, NEW s \in Seq(S)
    PROVE  IsSeq(s)
  <1>1. s \in [1 .. Len(s) -> S] /\ Len(s) \in Nat
    OBVIOUS
  <1> DEFINE R == {s[i] : i \in DOMAIN s}
  <1>2. s \in [1 .. Len(s) -> R]
    BY <1>1
  <1> HIDE DEF R
  <1>3. s \in Seq(R)
    BY <1>1, <1>2
  <1> QED
    BY <1>3 DEF IsSeq, R

\* One sequence after another.
LEMMA ConcatFacts ==
    ASSUME NEW s, NEW t, IsSeq(s), IsSeq(t)
    PROVE  /\ IsSeq(s \o t) /\ Len(s \o t) = Len(s) + Len(t)
           /\ \A i \in 1 .. Len(s) : (s \o t)[i] = s[i]
           /\ \A i \in 1 .. Len(t) : (s \o t)[Len(s) + i] = t[i]
  <1> DEFINE R == {s[i] : i \in DOMAIN s} \cup {t[i] : i \in DOMAIN t}
  <1>1. s \in Seq(R) /\ t \in Seq(R)
    <2>1. s \in [1 .. Len(s) -> R] /\ t \in [1 .. Len(t) -> R] /\ Len(s) \in Nat /\ Len(t) \in Nat
      BY DEF IsSeq
    <2> HIDE DEF R
    <2> QED
      BY <2>1
  <1> HIDE DEF R
  <1>2. s \o t \in Seq(R) /\ Len(s \o t) = Len(s) + Len(t)
    BY <1>1
  <1>3. \A i \in 1 .. Len(s) : (s \o t)[i] = s[i]
    BY <1>1
  <1>4. ASSUME NEW i \in 1 .. Len(t)
        PROVE  (s \o t)[Len(s) + i] = t[i]
    <2>1. Len(s) \in Nat /\ Len(t) \in Nat
      BY <1>1
    <2>2. Len(s) + i \in Len(s) + 1 .. Len(s) + Len(t) /\ (Len(s) + i) - Len(s) = i
      BY <2>1
    <2> QED
      BY <1>1, <2>1, <2>2
  <1> QED
    BY <1>2, <1>3, <1>4, SeqOfOwn

\* One element more.
LEMMA AppendFacts ==
    ASSUME NEW s, NEW x, IsSeq(s)
    PROVE  /\ IsSeq(Append(s, x)) /\ Len(Append(s, x)) = Len(s) + 1
           /\ \A i \in 1 .. Len(s) : Append(s, x)[i] = s[i]
           /\ Append(s, x)[Len(s) + 1] = x
  <1> DEFINE R == {s[i] : i \in DOMAIN s} \cup {x}
  <1>1. s \in Seq(R)
    <2>1. s \in [1 .. Len(s) -> R] /\ Len(s) \in Nat
      BY DEF IsSeq
    <2> HIDE DEF R
    <2> QED
      BY <2>1
  <1>2. x \in R
    OBVIOUS
  <1> HIDE DEF R
  <1>3. Append(s, x) \in Seq(R) /\ Len(Append(s, x)) = Len(s) + 1 /\ Len(s) \in Nat
    BY <1>1, <1>2
  <1>4. \A i \in 1 .. Len(s) : Append(s, x)[i] = s[i]
    BY <1>1, <1>2
  <1>5. Append(s, x)[Len(s) + 1] = x
    BY <1>1, <1>2
  <1> QED
    BY <1>3, <1>4, <1>5, SeqOfOwn

\* All but the first.
LEMMA TailFacts ==
    ASSUME NEW s, IsSeq(s), s # << >>
    PROVE  /\ IsSeq(Tail(s)) /\ Len(Tail(s)) = Len(s) - 1 /\ Head(s) = s[1] /\ Len(s) \in Nat \ {0}
           /\ \A i \in 1 .. Len(s) - 1 : Tail(s)[i] = s[i + 1]
  <1> DEFINE R == {s[i] : i \in DOMAIN s}
  <1>1. s \in Seq(R)
    BY DEF IsSeq
  <1> HIDE DEF R
  <1>2. Tail(s) \in Seq(R) /\ Len(Tail(s)) = Len(s) - 1 /\ Head(s) = s[1] /\ Len(s) \in Nat \ {0}
    BY <1>1
  <1>3. \A i \in 1 .. Len(s) - 1 : Tail(s)[i] = s[i + 1]
    BY <1>1
  <1> QED
    BY <1>2, <1>3, SeqOfOwn

\* None or one event.
LEMMA WhenIsSeq ==
    ASSUME NEW c, NEW e
    PROVE  IsSeq(When(c, e))
  <1>1. IsSeq(<<e>>) /\ IsSeq(<< >>)
    <2>1. <<e>> \in Seq({e}) /\ << >> \in Seq({e})
      OBVIOUS
    <2> QED
      BY <2>1, SeqOfOwn
  <1> QED
    BY <1>1 DEF When

Elements(s) == {s[i] : i \in DOMAIN s}

\* A sequence of different elements, all of a given set.
Within(s, S) == IsSeq(s) /\ Different(s) /\ Elements(s) \subseteq S

\* At most one event.
LEMMA WhenWithin ==
    ASSUME NEW c, NEW e
    PROVE  Within(When(c, e), {e})
  <1>1. Different(When(c, e)) /\ Elements(When(c, e)) \subseteq {e}
    BY DEF When, Different, Elements
  <1> QED
    BY <1>1, WhenIsSeq DEF Within

\* Sequences without a common element, one after the other.
LEMMA JoinWithin ==
    ASSUME NEW s, NEW t, NEW S, NEW T, Within(s, S), Within(t, T), S \cap T = {}
    PROVE  Within(s \o t, S \cup T)
  <1> DEFINE n == Len(s)
             m == Len(t)
             u == s \o t
  <1>1. n \in Nat /\ m \in Nat /\ DOMAIN s = 1 .. n /\ DOMAIN t = 1 .. m
    BY SeqFacts DEF Within
  <1>2. /\ IsSeq(u) /\ Len(u) = n + m
        /\ \A i \in 1 .. n : u[i] = s[i]
        /\ \A i \in 1 .. m : u[n + i] = t[i]
    BY ConcatFacts DEF Within
  <1>3. DOMAIN u = 1 .. n + m
    BY <1>2, SeqFacts
  <1> HIDE DEF u
  <1>4. \A i \in 1 .. n : u[i] \in S
    BY <1>1, <1>2 DEF Within, Elements
  <1>5. \A i \in 1 .. m : u[n + i] \in T
    BY <1>1, <1>2 DEF Within, Elements
  <1> HIDE DEF n, m
  <1>6. \A i \in 1 .. n + m : i \in 1 .. n \/ \E k \in 1 .. m : i = n + k
    <2> SUFFICES ASSUME NEW i \in 1 .. n + m, i \notin 1 .. n
                 PROVE  \E k \in 1 .. m : i = n + k
      OBVIOUS
    <2>1. i - n \in 1 .. m /\ i = n + (i - n)
      BY <1>1
    <2> QED
      BY <2>1
  <1>7. Elements(u) \subseteq S \cup T
    BY <1>3, <1>4, <1>5, <1>6 DEF Elements
  <1>8. Different(u)
    <2> SUFFICES ASSUME NEW i \in 1 .. n + m, NEW j \in 1 .. n + m, u[i] = u[j]
                 PROVE  i = j
      BY <1>3 DEF Different
    <2>1. CASE i \in 1 .. n /\ j \in 1 .. n
      BY <1>1, <1>2, <2>1 DEF Within, Different
    <2>2. CASE (i \in 1 .. n) # (j \in 1 .. n)
      BY <1>4, <1>5, <1>6, <2>2
    <2>3. CASE i \notin 1 .. n /\ j \notin 1 .. n
      <3>1. PICK a \in 1 .. m, b \in 1 .. m : i = n + a /\ j = n + b
        BY <1>6, <2>3
      <3>2. t[a] = t[b]
        BY <1>2, <3>1
      <3>3. a = b
        BY <1>1, <3>2 DEF Within, Different
      <3> QED
        BY <3>1, <3>3
    <2> QED
      BY <2>1, <2>2, <2>3
  <1> QED
    BY <1>2, <1>7, <1>8 DEF Within, u

\* Events of different types or values are different.
LEMMA EventsDiffer ==
    ASSUME NEW a, NEW b, NEW c, NEW x, NEW y, NEW z, a # x \/ c # z
    PROVE  Event(a, b, c) # Event(x, y, z)
  <1>1. /\ Event(a, b, c).type = a /\ Event(x, y, z).type = x
        /\ Event(a, b, c).value = c /\ Event(x, y, z).value = z
    BY DEF Event
  <1> QED
    BY <1>1

\* A sequence without repetition is one a run may yield.
LEMMA DifferentIsDerived ==
    ASSUME NEW s, IsSeq(s), Different(s)
    PROVE  Derived(s)
  <1>1. \A j, k \in DOMAIN s : j < k => j # k
    BY SeqFacts
  <1> QED
    BY <1>1 DEF Different, Derived

\* The events of a container: the last may repeat an earlier recovery, and then
\* comes after the health change.
LEMMA ContainersAreDerived ==
    ASSUME NEW p, NEW c
    PROVE  IsSeq(_containers(p, c)) /\ Derived(_containers(p, c))
  <1> DEFINE e1 == Event("restarting", High, "restarting")
             e2 == Event("started", Info, "running")
             e3 == Event("stopped", High, "exited")
             e4 == Event("recovered", Info, c.state)
             e5 == Event("restarted", Warning, "count")
             e6 == Event("health_changed", IF c.health = "healthy" THEN Info ELSE Warning, c.health)
             w1 == When(p.state # "restarting" /\ c.state = "restarting", e1)
             w2 == When(p.state \notin {"running", "restarting"} /\ c.state = "running", e2)
             w3 == When(p.state \in {"running", "restarting"} /\ c.state = "exited", e3)
             w4 == When(p.state = "restarting" /\ c.state = "running", e4)
             w5 == When(c.restarts > p.restarts, e5)
             w6 == When(p.health # c.health, e6)
             w7 == When(p.health = "unhealthy" /\ c.health = "healthy", e4)
             first == w1 \o w2 \o w3 \o w4 \o w5
  <1>1. /\ Within(w1, {e1}) /\ Within(w2, {e2}) /\ Within(w3, {e3}) /\ Within(w4, {e4})
        /\ Within(w5, {e5}) /\ Within(w6, {e6})
    <2> HIDE DEF e1, e2, e3, e4, e5, e6
    <2> QED
      BY WhenWithin
  <1>2. /\ e1 # e2 /\ e1 # e3 /\ e1 # e4 /\ e1 # e5 /\ e1 # e6
        /\ e2 # e3 /\ e2 # e4 /\ e2 # e5 /\ e2 # e6
        /\ e3 # e4 /\ e3 # e5 /\ e3 # e6 /\ e4 # e5 /\ e4 # e6 /\ e5 # e6
    BY EventsDiffer
  <1>3. _containers(p, c) = first \o w6 \o w7
    BY DEF _containers
  <1>13. IsSeq(w6) /\ IsSeq(w7)
    BY WhenIsSeq
  <1>4. \/ w7 = << >>
        \/ w7 = <<e4>> /\ w6 = <<e6>> /\ _resolves_incident(e6) /\ e4.type = "recovered"
    BY DEF When, _resolves_incident, Event
  <1> HIDE DEF e1, e2, e3, e4, e5, e6, w1, w2, w3, w4, w5, w6, w7
  <1>5. Within(w1 \o w2, {e1} \cup {e2})
    BY <1>1, <1>2, JoinWithin
  <1>6. Within(w1 \o w2 \o w3, {e1} \cup {e2} \cup {e3})
    <2>1. ({e1} \cup {e2}) \cap {e3} = {}
      BY <1>2
    <2> QED
      BY <1>1, <1>5, <2>1, JoinWithin
  <1>7. Within(w1 \o w2 \o w3 \o w4, {e1} \cup {e2} \cup {e3} \cup {e4})
    <2>1. ({e1} \cup {e2} \cup {e3}) \cap {e4} = {}
      BY <1>2
    <2> QED
      BY <1>1, <1>6, <2>1, JoinWithin
  <1>8. Within(first, {e1} \cup {e2} \cup {e3} \cup {e4} \cup {e5})
    <2>1. ({e1} \cup {e2} \cup {e3} \cup {e4}) \cap {e5} = {}
      BY <1>2
    <2> QED
      BY <1>1, <1>7, <2>1, JoinWithin
  <1>9. Within(first \o w6, {e1} \cup {e2} \cup {e3} \cup {e4} \cup {e5} \cup {e6})
    <2>1. ({e1} \cup {e2} \cup {e3} \cup {e4} \cup {e5}) \cap {e6} = {}
      BY <1>2
    <2> QED
      BY <1>1, <1>8, <2>1, JoinWithin
  <1> HIDE DEF first
  <1> DEFINE a == first \o w6
             u == a \o w7
  <1>10. IsSeq(a) /\ Different(a) /\ IsSeq(first) /\ u = _containers(p, c)
    BY <1>3, <1>8, <1>9 DEF Within
  <1>14. /\ Len(a) = Len(first) + Len(w6)
         /\ \A i \in 1 .. Len(w6) : a[Len(first) + i] = w6[i]
    BY <1>10, <1>13, ConcatFacts
  <1>15. /\ IsSeq(u) /\ Len(u) = Len(a) + Len(w7)
         /\ \A i \in 1 .. Len(a) : u[i] = a[i]
         /\ \A i \in 1 .. Len(w7) : u[Len(a) + i] = w7[i]
    <2>1. IsSeq(a)
      BY <1>10
    <2> HIDE DEF a
    <2> QED
      BY <1>13, <2>1, ConcatFacts
  <1> HIDE DEF a, u
  <1>11. CASE w7 = << >>
    <2>1. IsSeq(<< >>) /\ Len(<< >>) = 0
      <3>1. << >> \in Seq({}) /\ Len(<< >>) = 0
        OBVIOUS
      <3> QED
        BY <3>1, SeqOfOwn
    <2>2. IsSeq(u) /\ Len(u) = Len(a) /\ \A i \in 1 .. Len(a) : u[i] = a[i]
      BY <1>10, <1>11, <1>15, <2>1, SeqFacts
    <2>3. Different(u)
      BY <1>10, <2>2, SeqFacts DEF Different
    <2> QED
      BY <1>10, <2>2, <2>3, DifferentIsDerived
  <1>12. CASE w7 = <<e4>> /\ w6 = <<e6>> /\ _resolves_incident(e6) /\ e4.type = "recovered"
    <2>1. /\ IsSeq(w6) /\ Len(w6) = 1 /\ w6[1] = e6
          /\ IsSeq(w7) /\ Len(w7) = 1 /\ w7[1] = e4
      <3>1. <<e4>> \in Seq({e4}) /\ <<e6>> \in Seq({e6})
        OBVIOUS
      <3> QED
        BY <1>12, <3>1, SeqOfOwn
    <2>2. Len(a) = Len(first) + 1 /\ a[Len(first) + 1] = e6 /\ Len(first) \in Nat
      <3>2. 1 \in 1 .. Len(w6)
        BY <2>1
      <3> QED
        BY <1>10, <1>14, <2>1, <3>2, SeqFacts
    <2>3. PICK n \in Nat : n = Len(a) /\ n >= 1 /\ a[n] = e6
      BY <2>2
    <2>4. /\ IsSeq(u) /\ Len(u) = n + 1 /\ u[n + 1] = e4
          /\ \A i \in 1 .. n : u[i] = a[i]
      <3>2. 1 \in 1 .. Len(w7)
        BY <2>1
      <3> QED
        BY <1>15, <2>1, <2>3, <3>2
    <2>5. DOMAIN u = 1 .. n + 1 /\ DOMAIN a = 1 .. n
      BY <1>10, <2>3, <2>4, SeqFacts
    <2>6. ASSUME NEW j \in DOMAIN u, NEW k \in DOMAIN u, j < k, u[j] = u[k]
          PROVE  u[j].type = "recovered" /\ _resolves_incident(u[k - 1])
      <3>1. CASE k = n + 1
        <4>1. u[k] = e4 /\ k - 1 = n /\ n \in 1 .. n
          BY <2>3, <2>4, <3>1
        <4>2. u[k - 1] = e6
          BY <2>3, <2>4, <4>1
        <4> QED
          BY <1>12, <2>6, <4>1, <4>2
      <3>2. CASE k # n + 1
        <4>1. j \in 1 .. n /\ k \in 1 .. n /\ j # k
          BY <2>5, <2>6, <3>2
        <4> QED
          BY <1>10, <2>4, <2>5, <2>6, <4>1 DEF Different
      <3> QED
        BY <3>1, <3>2
    <2>7. Derived(u)
      BY <2>6 DEF Derived
    <2> QED
      BY <1>10, <2>4, <2>7
  <1> QED
    BY <1>4, <1>11, <1>12

\* What a run's rows and reports yield.
LEMMA DeriveIsDerived ==
    ASSUME kind \in Kinds, NEW r, NEW report
    PROVE  IsSeq(derive(r, report)) /\ Derived(derive(r, report))
  <1>1. IsSeq(<< >>) /\ Derived(<< >>)
    <2>1. << >> \in Seq({}) /\ Different(<< >>)
      BY DEF Different
    <2> QED
      BY <2>1, SeqOfOwn, DifferentIsDerived
  <1>2. ASSUME NEW p, NEW c
        PROVE  /\ IsSeq(_projects(p, c)) /\ Derived(_projects(p, c))
               /\ IsSeq(_tunnel(p, c)) /\ Derived(_tunnel(p, c))
    BY WhenWithin, DifferentIsDerived DEF _projects, _tunnel, Within
  <1>3. ASSUME NEW p, NEW c
        PROVE  IsSeq(transition_events(p, c)) /\ Derived(transition_events(p, c))
    <2> DEFINE e1 == Event("health_state", _health_severity(c.state), c.state)
               e2 == Event("health_findings", c.top, "findings")
               w1 == When(p.state # c.state, e1)
               w2 == When(p.findings # c.findings, e2)
    <2>1. e1 # e2
      BY EventsDiffer
    <2>2. transition_events(p, c) = w1 \o w2
      BY DEF transition_events
    <2> HIDE DEF e1, e2
    <2>3. Within(w1, {e1}) /\ Within(w2, {e2})
      BY WhenWithin
    <2> HIDE DEF w1, w2
    <2>4. Within(w1 \o w2, {e1} \cup {e2})
      BY <2>1, <2>3, JoinWithin
    <2> QED
      BY <2>2, <2>4, DifferentIsDerived DEF Within
  <1>4. kind \in {"container", "project", "tunnel", "health"}
    BY ValuesAssumption
  <1> QED
    BY <1>1, <1>2, <1>3, <1>4, ContainersAreDerived DEF derive

-----------------------------------------------------------------------------
(* The processors.                                                           *)

\* The run a processor is at.
LEMMA CurrentRun ==
    ASSUME TypeOK, NEW p \in Procs, procs[p].at # "idle"
    PROVE  /\ Current(p) \in procs[p].batch /\ Current(p) \in 1 .. lastId
           /\ \A r \in procs[p].batch : Current(p) <= r
  <1>1. procs[p].batch \subseteq 1 .. lastId /\ procs[p].batch # {} /\ lastId \in Nat
    BY DEF TypeOK, IsProc
  <1>2. procs[p].batch \subseteq Nat
    BY <1>1
  <1>3. Min(procs[p].batch) \in procs[p].batch /\ \A r \in procs[p].batch : Min(procs[p].batch) <= r
    BY <1>1, <1>2, MinOf
  <1> QED
    BY <1>1, <1>3 DEF Current

\* One processor's state is replaced.
LEMMA ProcStep ==
    ASSUME TypeOK, NEW p \in Procs, NEW q, procs' = [procs EXCEPT ![p] = q], IsProc(q),
           lastId' \in Nat, lastId <= lastId', q.batch \subseteq 1 .. lastId'
    PROVE  /\ procs'[p] = q /\ \A o \in Procs \ {p} : procs'[o] = procs[o] /\ Current(o)' = Current(o)
           /\ procs' = [o \in Procs |-> procs'[o]]
           /\ \A o \in Procs : IsProc(procs'[o]) /\ procs'[o].batch \subseteq 1 .. lastId'
  <1>1. procs = [o \in Procs |-> procs[o]] /\ lastId \in Nat
    BY DEF TypeOK
  <1>2. procs'[p] = q /\ \A o \in Procs \ {p} : procs'[o] = procs[o]
    BY <1>1
  <1>3. procs' = [o \in Procs |-> procs'[o]]
    BY <1>1
  <1>4. 1 .. lastId \subseteq 1 .. lastId'
    BY <1>1
  <1>5. \A o \in Procs \ {p} : Current(o)' = Current(o)
    BY <1>2 DEF Current
  <1> QED
    BY <1>2, <1>3, <1>4, <1>5 DEF TypeOK


\* A processor that is not applying anything afterwards, in a step that leaves
\* the tables alone.
LEMMA ResetStep ==
    ASSUME IInv, NEW p \in Procs, NEW q, IsProc(q), q.at \notin ApplyStates, q.batch \subseteq 1 .. lastId,
           procs' = [procs EXCEPT ![p] = q],
           UNCHANGED <<kind, runs, lastId, marked, events, incident, timeline>>,
           afterId' \in 0 .. lastId,
           budget' = [x \in {"faults", "cli"} |-> budget'[x]],
           budget'.cli \in 0 .. MaxCli[kind],
           interrupted \cup Dropped(p) \subseteq interrupted',
           NoCommandYet' =>
             /\ NoCommandYet /\ p = "service"
             /\ \A r \in DOMAIN runs : r <= afterId' => r \in marked
             /\ \A r \in DOMAIN runs, b \in q.batch : r < b => r \in q.batch \cup marked
    PROVE  IInv'
  <1>1. /\ procs'[p] = q /\ \A o \in Procs \ {p} : procs'[o] = procs[o] /\ Current(o)' = Current(o)
        /\ procs' = [o \in Procs |-> procs'[o]]
        /\ \A o \in Procs : IsProc(procs'[o]) /\ procs'[o].batch \subseteq 1 .. lastId
        /\ TypeOK
    <2>1. TypeOK /\ lastId \in Nat /\ lastId <= lastId'
      BY DEF IInv, TypeOK
    <2> QED
      BY <2>1, ProcStep
  <1>2. TypeOK'
    BY <1>1 DEF IInv, TypeOK
  <1>3. EventsAreMarked' /\ TimelineSound'
    BY DEF IInv, EventsAreMarked, TimelineSound
  <1>4. ~Applying(p)' /\ \A o \in Procs \ {p} : Applying(o)' <=> Applying(o)
    BY <1>1 DEF Applying
  <1>10. \A e : Applied(e)' <=> Applied(e)
    BY DEF Applied
  <1>5. ASSUME NEW o \in Procs
        PROVE  ApplierSound(o)' /\ WriterSound(o)'
    <2>1. CASE o = p
      BY <1>1, <1>4, <2>1 DEF ApplierSound, WriterSound, ApplyStates
    <2>2. CASE o # p
      <3>1. \A k : EventOf(o, k)' = EventOf(o, k)
        BY <1>1, <2>2 DEF EventOf
      <3>2. ApplierSound(o) /\ WriterSound(o) /\ procs'[o] = procs[o] /\ (Applying(o)' <=> Applying(o))
        BY <1>1, <1>4, <2>2 DEF IInv
      <3>3. ApplierSound(o)'
        BY <1>10, <3>1, <3>2 DEF ApplierSound
      <3>4. WriterSound(o)'
        BY <3>2 DEF WriterSound
      <3> QED
        BY <3>3, <3>4
    <2> QED
      BY <2>1, <2>2
  <1>6. AppliersApart'
    <2>1. \A o, n \in Procs : o # n /\ Applying(o)' /\ Applying(n)' => Current(o)' # Current(n)'
      BY <1>1, <1>4 DEF IInv, AppliersApart
    <2>2. \A o \in Procs : procs'[o].at \in ApplyStates => Current(o)' \notin DOMAIN runs \ marked
      BY <1>1 DEF IInv, AppliersApart
    <2> QED
      BY <2>1, <2>2 DEF AppliersApart
  <1>7. ServiceInOrder'
    <2> SUFFICES ASSUME NoCommandYet'
                 PROVE  /\ procs'["cli"].at = "idle"
                        /\ \A r \in DOMAIN runs : r <= afterId' => r \in marked
                        /\ \A r \in DOMAIN runs, b \in procs'["service"].batch :
                             r < b => r \in procs'["service"].batch \cup marked
                        /\ ~Applying("service")'
      BY DEF ServiceInOrder, AloneSound
    <2>1. p = "service" /\ "cli" \in Procs \ {p} /\ procs'["cli"] = procs["cli"]
      BY <1>1 DEF Procs
    <2>2. procs["cli"].at = "idle"
      BY DEF IInv, ServiceInOrder
    <2> QED
      BY <1>1, <1>4, <2>1, <2>2
  <1>8. OpeningsReachIncident'
    <2> SUFFICES ASSUME NEW e \in events, _opens_incident(e.event), ~_resolves_incident(e.event)
                 PROVE  Applied(e)' \/ Pending(e)' \/ e.run \in interrupted'
      BY DEF OpeningsReachIncident
    <2>1. Applied(e) \/ Pending(e) \/ e.run \in interrupted
      BY DEF IInv, OpeningsReachIncident
    <2>2. CASE Pending(e)
      <3>1. PICK o \in Procs : e.run \in Dropped(o) /\ \E k \in DOMAIN procs[o].evs : e.event = procs[o].evs[k]
        BY <2>2 DEF Pending
      <3>2. CASE o = p
        BY <3>1, <3>2
      <3>3. CASE o # p
        <4>1. procs'[o] = procs[o] /\ Dropped(o)' = Dropped(o)
          BY <1>1, <3>3 DEF Dropped
        <4> QED
          BY <3>1, <4>1 DEF Pending
      <3> QED
        BY <3>2, <3>3
    <2> QED
      BY <1>10, <2>1, <2>2
  <1>9. InRunOrder' /\ AppliedOnce'
    <2>1. NoCommandYet' => NoCommandYet
      OBVIOUS
    <2>2. InRunOrder'
      BY <2>1 DEF IInv, InRunOrder
    <2>3. AppliedOnce'
      BY <2>1 DEF IInv, AppliedOnce
    <2> QED
      BY <2>2, <2>3
  <1> QED
    BY <1>2, <1>3, <1>5, <1>6, <1>7, <1>8, <1>9 DEF IInv

\* A processor with nothing in hand, and one with a batch.
LEMMA FreshProc ==
    /\ IsProc(Idle) /\ Idle.at = "idle" /\ Idle.batch = {}
    /\ \A b : b # {} =>
         LET q == [Idle EXCEPT !.at = "next", !.batch = b]
         IN IsProc(q) /\ q.at = "next" /\ q.batch = b
  <1>1. IsSeq(<< >>) /\ Derived(<< >>)
    <2>1. << >> \in Seq({})
      OBVIOUS
    <2>2. Derived(<< >>)
      BY DEF Derived
    <2> QED
      BY <2>1, <2>2, SeqOfOwn
  <1>2. IsProc(Idle) /\ Idle.at = "idle" /\ Idle.batch = {} /\ Idle.evs = << >>
    BY <1>1 DEF Idle, IsProc, ProcFields
  <1>3. ASSUME NEW b, b # {}
        PROVE  LET q == [Idle EXCEPT !.at = "next", !.batch = b]
               IN IsProc(q) /\ q.at = "next" /\ q.batch = b
    <2> DEFINE q == [Idle EXCEPT !.at = "next", !.batch = b]
    <2>1. Idle = [x \in ProcFields |-> Idle[x]]
      BY <1>2 DEF IsProc
    <2>2. q = [x \in ProcFields |-> q[x]] /\ q.at = "next" /\ q.batch = b /\ q.evs = Idle.evs
      BY <2>1 DEF ProcFields
    <2> HIDE DEF q
    <2>3. IsProc(q)
      BY <1>1, <1>2, <1>3, <2>2 DEF IsProc
    <2> QED
      BY <2>2, <2>3 DEF q
  <1> QED
    BY <1>2, <1>3

\* process_run has returned: the processor stops or takes the next run.
LEMMA ReturnedStep ==
    ASSUME IInv, NEW p \in Procs, procs[p].at # "idle", NEW ok \in BOOLEAN, Returned(p, ok),
           ok => Current(p) \notin DOMAIN runs \ marked,
           UNCHANGED <<kind, runs, lastId, marked, events, incident, timeline>>,
           budget' = [x \in {"faults", "cli"} |-> budget'[x]], budget'.cli = budget.cli,
           interrupted \cup Dropped(p) \subseteq interrupted'
    PROVE  IInv'
  <1> DEFINE rest == procs[p].batch \ {Current(p)}
             stop == rest = {} \/ (p = "service" /\ ~ok)
             q == IF stop THEN Idle ELSE [Idle EXCEPT !.at = "next", !.batch = rest]
  <1>1. /\ procs' = [procs EXCEPT ![p] = q]
        /\ afterId' = IF p = "service" /\ ok THEN Current(p) ELSE afterId
    BY DEF Returned
  <1>2. /\ TypeOK /\ Current(p) \in procs[p].batch /\ Current(p) \in 1 .. lastId
        /\ \A r \in procs[p].batch : Current(p) <= r
    BY CurrentRun DEF IInv
  <1>3. IsProc(q) /\ q.at \notin ApplyStates /\ q.batch = IF stop THEN {} ELSE rest
    BY FreshProc DEF ApplyStates
  <1>4. q.batch \subseteq 1 .. lastId /\ afterId' \in 0 .. lastId /\ budget'.cli \in 0 .. MaxCli[kind]
    BY <1>1, <1>2, <1>3 DEF TypeOK
  <1>5. ASSUME NoCommandYet
        PROVE  /\ p = "service"
               /\ \A r \in DOMAIN runs : r <= afterId' => r \in marked
               /\ \A r \in DOMAIN runs, b \in q.batch : r < b => r \in q.batch \cup marked
    <2>1. p = "service"
      BY <1>5 DEF IInv, ServiceInOrder, Procs
    <2>2. /\ \A r \in DOMAIN runs : r <= afterId => r \in marked
          /\ \A r \in DOMAIN runs, b \in procs[p].batch : r < b => r \in procs[p].batch \cup marked
      BY <1>5, <2>1 DEF IInv, ServiceInOrder
    <2>3. DOMAIN runs \subseteq Nat /\ procs[p].batch \subseteq Nat
      BY <1>2 DEF TypeOK
    <2>4. CASE ~ok
      BY <1>1, <1>3, <2>1, <2>2, <2>4
    <2>5. CASE ok
      <3>1. \A r \in DOMAIN runs : r <= Current(p) => r \in marked
        <4> SUFFICES ASSUME NEW r \in DOMAIN runs, r <= Current(p), r # Current(p)
                     PROVE  r \in marked
          BY <2>5
        <4>1. r < Current(p)
          BY <1>2, <2>3
        <4>2. r \notin procs[p].batch
          BY <1>2, <2>3, <4>1
        <4> QED
          BY <1>2, <2>2, <4>1, <4>2
      <3>2. \A r \in DOMAIN runs, b \in q.batch : r < b => r \in q.batch \cup marked
        BY <1>2, <1>3, <2>2, <2>5
      <3> QED
        BY <1>1, <2>1, <2>5, <3>1, <3>2
    <2> QED
      BY <2>1, <2>4, <2>5
  <1> HIDE DEF q
  <1> QED
    BY <1>1, <1>3, <1>4, <1>5, ResetStep DEF NoCommandYet, ApplyStates

\* What is asked for next is the oldest of the newer runs.
LEMMA OldestFirst ==
    ASSUME TypeOK, NEW after \in Nat, NEW limit \in Nat
    PROVE  /\ get_runs(after, limit) \subseteq DOMAIN runs
           /\ \A q \in DOMAIN runs, r \in get_runs(after, limit) :
                q > after /\ q < r => q \in get_runs(after, limit)
  <1> DEFINE older(x) == {q \in DOMAIN runs : after < q /\ q < x}
  <1>1. ASSUME NEW q \in DOMAIN runs, NEW r \in get_runs(after, limit), q > after, q < r
        PROVE  q \in get_runs(after, limit)
    <2>1. r \in DOMAIN runs /\ Cardinality(older(r)) < limit
      BY <1>1 DEF get_runs
    <2>2. q \in Nat /\ r \in Nat /\ lastId \in Nat /\ DOMAIN runs \subseteq 1 .. lastId
      BY <2>1 DEF TypeOK
    <2>3. older(q) \subseteq older(r) /\ older(r) \subseteq 1 .. lastId
      BY <1>1, <2>2
    <2>4. IsFiniteSet(older(r))
      <3>1. IsFiniteSet(1 .. lastId)
        BY <2>2, FS_Interval
      <3> HIDE DEF older
      <3> QED
        BY <2>3, <3>1, FS_Subset
    <2>5. IsFiniteSet(older(q)) /\ Cardinality(older(q)) <= Cardinality(older(r))
      <3> HIDE DEF older
      <3> QED
        BY <2>3, <2>4, FS_Subset
    <2>6. Cardinality(older(q)) \in Nat /\ Cardinality(older(r)) \in Nat
      BY <2>4, <2>5, FS_CardinalityType
    <2>7. Cardinality(older(q)) < limit
      BY <2>1, <2>5, <2>6
    <2> QED
      BY <1>1, <2>7 DEF get_runs
  <1> QED
    BY <1>1 DEF get_runs

\* The service polls.
LEMMA PollStep ==
    ASSUME IInv, Poll
    PROVE  IInv'
  <1> DEFINE b == get_runs(afterId, ServiceLimit)
             q == [Idle EXCEPT !.at = "next", !.batch = b]
  <1>1. /\ procs["service"].at = "idle" /\ b # {} /\ procs' = [procs EXCEPT !["service"] = q]
        /\ UNCHANGED <<kind, runs, lastId, marked, events, incident, timeline, afterId, interrupted, budget>>
        /\ TypeOK /\ "service" \in Procs
    BY DEF Poll, IInv, Procs
  <1>2. b \subseteq DOMAIN runs /\ \A r \in DOMAIN runs, x \in b : r < x => r \in b \/ r <= afterId
    <2>1. afterId \in Nat /\ DOMAIN runs \subseteq Nat
      BY <1>1 DEF TypeOK
    <2> QED
      BY <1>1, <2>1, OldestFirst, ValuesAssumption
  <1> HIDE DEF b
  <1>3. IsProc(q) /\ q.at = "next" /\ q.batch = b
    BY <1>1, FreshProc
  <1> HIDE DEF q
  <1>4. Dropped("service") = {}
    BY <1>1 DEF Dropped
  <1>5. NoCommandYet => \A r \in DOMAIN runs : r <= afterId => r \in marked
    BY DEF IInv, ServiceInOrder
  <1>6. /\ b \subseteq 1 .. lastId /\ afterId' \in 0 .. lastId /\ budget'.cli \in 0 .. MaxCli[kind]
        /\ budget' = [x \in {"faults", "cli"} |-> budget'[x]]
    BY <1>1, <1>2 DEF TypeOK
  <1> QED
    BY <1>1, <1>2, <1>3, <1>4, <1>5, <1>6, ResetStep DEF NoCommandYet, ApplyStates

\* The command starts.
LEMMA CommandStep ==
    ASSUME IInv, Command
    PROVE  IInv'
  <1>1. PICK b : /\ b \subseteq DOMAIN runs /\ b # {}
                 /\ procs' = [procs EXCEPT !["cli"] = [Idle EXCEPT !.at = "next", !.batch = b]]
    BY DEF Command, get_runs
  <1> DEFINE q == [Idle EXCEPT !.at = "next", !.batch = b]
  <1>2. /\ procs["cli"].at = "idle" /\ budget.cli > 0 /\ budget' = [budget EXCEPT !.cli = budget.cli - 1]
        /\ UNCHANGED <<kind, runs, lastId, marked, events, incident, timeline, afterId, interrupted>>
        /\ TypeOK /\ "cli" \in Procs
    BY DEF Command, IInv, Procs
  <1>3. IsProc(q) /\ q.at = "next" /\ q.batch = b
    BY <1>1, FreshProc
  <1>4. procs' = [procs EXCEPT !["cli"] = q]
    BY <1>1
  <1> HIDE DEF q
  <1>5. Dropped("cli") = {}
    BY <1>2 DEF Dropped
  <1>6. MaxCli[kind] \in Nat
    BY <1>2, ValuesAssumption DEF TypeOK
  <1>7. /\ budget'.cli = budget.cli - 1
        /\ budget' = [x \in {"faults", "cli"} |-> budget'[x]]
    BY <1>2 DEF TypeOK
  <1>8. budget'.cli \in 0 .. MaxCli[kind] /\ budget'.cli # MaxCli[kind]
    BY <1>2, <1>6, <1>7 DEF TypeOK
  <1>9. b \subseteq 1 .. lastId /\ afterId' \in 0 .. lastId
    BY <1>1, <1>2 DEF TypeOK
  <1> QED
    BY <1>2, <1>3, <1>4, <1>5, <1>7, <1>8, <1>9, ResetStep DEF NoCommandYet, ApplyStates

\* The service or the command fails or dies.
LEMMA FaultStep ==
    ASSUME IInv, NEW p \in Procs, Fail(p) \/ Crash(p)
    PROVE  IInv'
  <1>1. /\ procs[p].at # "idle" /\ budget' = [budget EXCEPT !.faults = budget.faults - 1]
        /\ UNCHANGED <<kind, runs, lastId, marked, events, incident, timeline>>
        /\ interrupted' = interrupted \cup Dropped(p) /\ TypeOK
    BY DEF Fail, Crash, IInv
  <1>2. budget'.cli = budget.cli /\ budget' = [x \in {"faults", "cli"} |-> budget'[x]]
    BY <1>1 DEF TypeOK
  <1>3. CASE Fail(p)
    BY <1>1, <1>2, <1>3, ReturnedStep DEF Fail
  <1>4. CASE Crash(p)
    <2>1. procs' = [procs EXCEPT ![p] = Idle] /\ afterId' = IF p = "service" THEN 0 ELSE afterId
      BY <1>4 DEF Crash
    <2>2. NoCommandYet => p = "service"
      BY <1>1 DEF IInv, ServiceInOrder, Procs
    <2>3. \A r \in DOMAIN runs : ~(r <= 0)
      BY <1>1 DEF TypeOK
    <2>4. afterId' \in 0 .. lastId /\ budget'.cli \in 0 .. MaxCli[kind]
      BY <1>1, <1>2, <2>1 DEF TypeOK
    <2> QED
      BY <1>1, <1>2, <2>1, <2>2, <2>3, <2>4, FreshProc, ResetStep DEF NoCommandYet, ApplyStates
  <1> QED
    BY <1>3, <1>4

\* A processor reads its run.
LEMMA ReadStep ==
    ASSUME IInv, NEW p \in Procs, Read(p)
    PROVE  IInv'
  <1>1. /\ procs[p].at = "next" /\ TypeOK
        /\ UNCHANGED <<kind, runs, lastId, marked, events, incident, timeline, interrupted, budget>>
        /\ budget' = [x \in {"faults", "cli"} |-> budget'[x]]
        /\ Dropped(p) = {}
    BY DEF Read, IInv, TypeOK, Dropped
  <1>2. CASE Current(p) \in marked /\ Returned(p, TRUE)
    BY <1>1, <1>2, ReturnedStep
  <1>3. CASE Returned(p, FALSE)
    BY <1>1, <1>3, ReturnedStep
  <1>4. ASSUME NEW report, UNCHANGED afterId,
               procs' = [procs EXCEPT ![p].at = "commit", ![p].report = report,
                                      ![p].evs = derive(Current(p), report)]
        PROVE  IInv'
    <2> DEFINE evs == derive(Current(p), report)
               q == [procs[p] EXCEPT !.at = "commit", !.report = report, !.evs = evs]
    <2>1. IsSeq(evs) /\ Derived(evs)
      BY <1>1, DeriveIsDerived DEF TypeOK
    <2> HIDE DEF evs
    <2>2. procs' = [procs EXCEPT ![p] = q]
      BY <1>1, <1>4 DEF TypeOK, evs
    <2>3. IsProc(procs[p])
      BY <1>1 DEF TypeOK
    <2>4. /\ q = [x \in ProcFields |-> q[x]] /\ q.at = "commit" /\ q.batch = procs[p].batch
          /\ q.evs = evs
      BY <2>3 DEF IsProc, ProcFields
    <2> HIDE DEF q
    <2>5. IsProc(q)
      BY <1>1, <2>1, <2>3, <2>4 DEF IsProc
    <2>6. q.batch \subseteq 1 .. lastId /\ afterId' \in 0 .. lastId /\ budget'.cli \in 0 .. MaxCli[kind]
      BY <1>1, <1>4, <2>4 DEF TypeOK
    <2>7. ASSUME NoCommandYet
          PROVE  /\ p = "service"
                 /\ \A r \in DOMAIN runs : r <= afterId => r \in marked
                 /\ \A r \in DOMAIN runs, b \in q.batch : r < b => r \in q.batch \cup marked
      BY <1>1, <2>4, <2>7 DEF IInv, ServiceInOrder, Procs
    <2> QED
      BY <1>1, <1>4, <2>2, <2>4, <2>5, <2>6, <2>7, ResetStep DEF NoCommandYet, ApplyStates
  <1> QED
    BY <1>2, <1>3, <1>4 DEF Read

-----------------------------------------------------------------------------
(* The runs come and go.                                                     *)

\* Runs are added at the end or deleted, those with events excepted.
LEMMA RunsStep ==
    ASSUME IInv, UNCHANGED <<kind, events, incident, timeline, procs, afterId, interrupted, budget>>,
           lastId' \in Nat, lastId <= lastId', DOMAIN runs' \subseteq DOMAIN runs \cup (lastId + 1 .. lastId'),
           marked' = marked \cap DOMAIN runs', \A e \in events : e.run \in DOMAIN runs'
    PROVE  IInv'
  <1>1. /\ TypeOK /\ lastId \in Nat /\ 1 .. lastId \subseteq 1 .. lastId'
        /\ 0 .. lastId \subseteq 0 .. lastId' /\ lastId + 1 .. lastId' \subseteq 1 .. lastId'
    BY DEF IInv, TypeOK
  <1>2. TypeOK'
    BY <1>1 DEF TypeOK
  <1>3. EventsAreMarked' /\ TimelineSound'
    BY DEF IInv, EventsAreMarked, TimelineSound
  <1>4. \A p \in Procs : Current(p)' = Current(p) /\ (Applying(p)' <=> Applying(p))
    BY DEF Current, Applying
  <1>5. \A p \in Procs : ApplierSound(p)' /\ WriterSound(p)'
    <2>1. \A p \in Procs : ApplierSound(p)'
      BY <1>4 DEF IInv, ApplierSound, EventOf, Applied
    <2>2. \A p \in Procs : WriterSound(p)'
      BY DEF IInv, WriterSound
    <2> QED
      BY <2>1, <2>2
  <1>6. \A r \in DOMAIN runs' : r \in 1 .. lastId => r \in DOMAIN runs /\ (r \in marked => r \in marked')
    BY <1>1
  <1>7. AppliersApart'
    <2>1. ASSUME NEW p \in Procs, procs[p].at \in ApplyStates
          PROVE  Current(p) \notin DOMAIN runs' \ marked'
      <3>1. Current(p) \in 1 .. lastId /\ Current(p) \notin DOMAIN runs \ marked
        BY <1>1, <2>1, CurrentRun DEF IInv, AppliersApart, ApplyStates
      <3> QED
        BY <1>6, <3>1
    <2>2. \A p, q \in Procs : p # q /\ Applying(p) /\ Applying(q) => Current(p) # Current(q)
      BY DEF IInv, AppliersApart
    <2> QED
      BY <1>4, <2>1, <2>2 DEF AppliersApart
  <1>8. ServiceInOrder'
    <2> SUFFICES ASSUME NoCommandYet
                 PROVE  /\ procs["cli"].at = "idle"
                        /\ \A r \in DOMAIN runs' : r <= afterId => r \in marked'
                        /\ \A r \in DOMAIN runs', b \in procs["service"].batch :
                             r < b => r \in procs["service"].batch \cup marked'
      <3>1. NoCommandYet' <=> NoCommandYet
        BY DEF NoCommandYet
      <3>2. NoCommandYet => AloneSound'
        BY <1>4 DEF IInv, ServiceInOrder, AloneSound, Procs, EventOf, Applied
      <3> QED
        BY <3>1, <3>2 DEF ServiceInOrder
    <2>1. /\ procs["cli"].at = "idle"
          /\ \A r \in DOMAIN runs : r <= afterId => r \in marked
          /\ \A r \in DOMAIN runs, b \in procs["service"].batch :
               r < b => r \in procs["service"].batch \cup marked
      BY DEF IInv, ServiceInOrder
    <2>2. ASSUME NEW r \in DOMAIN runs', r <= afterId
          PROVE  r \in marked'
      <3>1. r \in 1 .. lastId
        BY <1>1, <1>2, <2>2 DEF TypeOK
      <3> QED
        BY <1>6, <2>1, <2>2, <3>1
    <2>3. ASSUME NEW r \in DOMAIN runs', NEW b \in procs["service"].batch, r < b
          PROVE  r \in procs["service"].batch \cup marked'
      <3>1. b \in 1 .. lastId /\ r \in 1 .. lastId'
        BY <1>1, <1>2 DEF TypeOK, Procs
      <3>2. r \in 1 .. lastId
        BY <1>1, <2>3, <3>1
      <3> QED
        BY <1>6, <2>1, <2>3, <3>2
    <2> QED
      BY <2>1, <2>2, <2>3
  <1>9. OpeningsReachIncident'
    <2>1. \A e : (Applied(e)' <=> Applied(e)) /\ (Pending(e)' <=> Pending(e))
      BY DEF Applied, Pending, Dropped, Current
    <2> QED
      BY <2>1 DEF IInv, OpeningsReachIncident
  <1>11. AppliedOnce'
    BY DEF IInv, AppliedOnce, NoCommandYet
  <1>10. InRunOrder'
    <2>1. ASSUME NoCommandYet, NEW q \in DOMAIN runs', NEW r \in DOMAIN runs', q < r,
                 r \in marked'
          PROVE  q \in marked'
      <3>1. r \in marked /\ r \in DOMAIN runs /\ r \in 1 .. lastId /\ q \in 1 .. lastId'
        BY <1>1, <1>2, <2>1 DEF TypeOK
      <3>2. q \in 1 .. lastId
        BY <1>1, <2>1, <3>1
      <3>3. q \in DOMAIN runs
        BY <1>6, <3>2
      <3>4. q \in marked
        BY <2>1, <3>1, <3>3 DEF IInv, InRunOrder
      <3> QED
        BY <1>6, <3>2, <3>4
    <2>2. NoCommandYet' <=> NoCommandYet
      BY DEF NoCommandYet
    <2> QED
      BY <2>1, <2>2 DEF IInv, InRunOrder
  <1> QED
    BY <1>2, <1>3, <1>5, <1>7, <1>8, <1>9, <1>10, <1>11 DEF IInv

\* The sampler commits a run.
LEMMA SampleStep ==
    ASSUME IInv, save_sample
    PROVE  IInv'
  <1>1. PICK v : runs' = [q \in DOMAIN runs \cup {lastId + 1} |-> IF q \in DOMAIN runs THEN runs[q] ELSE v]
    BY DEF save_sample
  <1>2. /\ lastId' = lastId + 1 /\ TypeOK
        /\ UNCHANGED <<kind, marked, events, incident, timeline, procs, afterId, interrupted, budget>>
    BY DEF save_sample, IInv
  <1>3. DOMAIN runs' = DOMAIN runs \cup {lastId + 1}
    BY <1>1
  <1>4. /\ lastId' \in Nat /\ lastId <= lastId' /\ lastId + 1 \in lastId + 1 .. lastId'
        /\ marked' = marked \cap DOMAIN runs' /\ \A e \in events : e.run \in DOMAIN runs'
    BY <1>2, <1>3 DEF TypeOK, IInv, EventsAreMarked
  <1> QED
    BY <1>2, <1>3, <1>4, RunsStep

\* Retention deletes sample rows.
LEMMA DeleteRowsStep ==
    ASSUME IInv, DeleteRows
    PROVE  IInv'
  <1>1. UNCHANGED <<kind, runs, lastId, marked, events, incident, timeline, procs, afterId, interrupted, budget>>
    BY DEF DeleteRows
  <1>2. /\ lastId' \in Nat /\ lastId <= lastId' /\ marked' = marked \cap DOMAIN runs'
        /\ \A e \in events : e.run \in DOMAIN runs'
    BY <1>1 DEF IInv, TypeOK, EventsAreMarked
  <1> QED
    BY <1>1, <1>2, RunsStep

\* Retention deletes runs.
LEMMA DeleteRunsStep ==
    ASSUME IInv, DeleteRuns
    PROVE  IInv'
  <1> DEFINE kept == {r \in DOMAIN runs : r > cutoff \/ \E e \in events : e.run = r}
  <1>1. /\ runs' = [r \in kept |-> runs[r]] /\ marked' = marked \cap kept /\ TypeOK
        /\ UNCHANGED <<kind, lastId, events, incident, timeline, procs, afterId, interrupted, budget>>
    BY DEF DeleteRuns, IInv
  <1>2. \A e \in events : e.run \in kept
    BY DEF IInv, EventsAreMarked, TypeOK
  <1>3. kept \subseteq DOMAIN runs
    OBVIOUS
  <1> HIDE DEF kept
  <1>4. lastId' \in Nat /\ lastId <= lastId' /\ DOMAIN runs' = kept
    BY <1>1 DEF TypeOK
  <1> QED
    BY <1>1, <1>2, <1>3, <1>4, RunsStep

-----------------------------------------------------------------------------
(* The events are stored, then applied.                                      *)

\* The events of a run are stored with its marker.
LEMMA StoreStep ==
    ASSUME IInv, NEW p \in Procs, procs[p].at = "commit", Current(p) \in DOMAIN runs \ marked,
           marked' = marked \cup {Current(p)},
           events' = Stored(Current(p), procs[p].evs),
           procs' = [procs EXCEPT ![p].at = "apply"],
           UNCHANGED <<kind, runs, lastId, incident, timeline, afterId, interrupted, budget>>
    PROVE  IInv'
  <1> DEFINE r == Current(p)
             evs == procs[p].evs
             q == [procs[p] EXCEPT !.at = "apply"]
  <1>1. /\ TypeOK /\ r \in procs[p].batch /\ r \in 1 .. lastId
        /\ \A b \in procs[p].batch : r <= b
    BY CurrentRun DEF IInv
  <1>2. IsProc(procs[p])
    BY <1>1 DEF TypeOK
  <1>3. /\ events \subseteq events'
        /\ \A i \in DOMAIN evs : [run |-> r, event |-> evs[i]] \in events'
        /\ \A e \in events' \ events : \E i \in DOMAIN evs : e = [run |-> r, event |-> evs[i]]
    BY DEF Stored
  <1>4. \A e \in events : e.run \in marked /\ e.run # r
    BY DEF IInv, EventsAreMarked
  <1>5. ASSUME NEW e, e.run = r
        PROVE  ~Applied(e)
    BY <1>4, <1>5 DEF Applied, IInv, TimelineSound
  <1>6. procs' = [procs EXCEPT ![p] = q]
    BY <1>1 DEF TypeOK
  <1>7. /\ q = [x \in ProcFields |-> q[x]] /\ q.at = "apply" /\ q.batch = procs[p].batch
        /\ q.evs = evs
    BY <1>2 DEF IsProc, ProcFields
  <1> HIDE DEF q
  <1>8. IsProc(q) /\ q.batch \subseteq 1 .. lastId
    BY <1>1, <1>2, <1>7 DEF IsProc, TypeOK, ApplyStates
  <1>9. /\ procs'[p] = q /\ \A o \in Procs \ {p} : procs'[o] = procs[o] /\ Current(o)' = Current(o)
        /\ procs' = [o \in Procs |-> procs'[o]] /\ Current(p)' = r
        /\ \A o \in Procs : IsProc(procs'[o]) /\ procs'[o].batch \subseteq 1 .. lastId
    <2>1. lastId' \in Nat /\ lastId <= lastId' /\ lastId' = lastId
      BY <1>1 DEF TypeOK
    <2>2. /\ procs'[p] = q /\ \A o \in Procs \ {p} : procs'[o] = procs[o] /\ Current(o)' = Current(o)
          /\ procs' = [o \in Procs |-> procs'[o]]
          /\ \A o \in Procs : IsProc(procs'[o]) /\ procs'[o].batch \subseteq 1 .. lastId
      BY <1>1, <1>6, <1>8, <2>1, ProcStep
    <2>3. Current(p)' = r
      BY <1>7, <2>2 DEF Current
    <2> QED
      BY <2>2, <2>3
  <1>10. \A o \in Procs \ {p} : (Applying(o)' <=> Applying(o)) /\ (procs[o].at \in ApplyStates => Current(o) # r)
    BY <1>9 DEF Applying, IInv, AppliersApart
  <1>11. \A e : Applied(e)' <=> Applied(e)
    BY DEF Applied
  <1>12. TypeOK'
    <2>1. \A e \in events' : e = [run |-> e.run, event |-> e.event]
      <3> SUFFICES ASSUME NEW e \in events'
                   PROVE  e = [run |-> e.run, event |-> e.event]
        OBVIOUS
      <3>1. CASE e \in events
        BY <1>1, <3>1 DEF TypeOK
      <3>2. CASE e \notin events
        BY <1>3, <3>2
      <3> QED
        BY <3>1, <3>2
    <2> QED
      BY <1>1, <1>9, <2>1 DEF TypeOK
  <1>13. EventsAreMarked' /\ TimelineSound'
    <2>1. ASSUME NEW e \in events'
          PROVE  e.run \in marked \cup {r}
      <3>1. CASE e \in events
        BY <1>4, <3>1
      <3>2. CASE e \notin events
        BY <1>3, <3>2
      <3> QED
        BY <3>1, <3>2
    <2>2. TimelineSound'
      BY <1>3 DEF IInv, TimelineSound
    <2> QED
      BY <2>1, <2>2 DEF EventsAreMarked
  <1>14. ASSUME NEW o \in Procs
         PROVE  ApplierSound(o)' /\ WriterSound(o)'
    <2>1. CASE o = p
      <3>1. \A k : EventOf(p, k)' = [run |-> r, event |-> evs[k]]
        BY <1>7, <1>9 DEF EventOf
      <3>2. ASSUME NEW k \in DOMAIN evs
            PROVE  EventOf(p, k)' \in events' /\ ~Applied(EventOf(p, k))'
        <4>1. EventOf(p, k)' = [run |-> r, event |-> evs[k]] /\ [run |-> r, event |-> evs[k]].run = r
          BY <3>1
        <4>2. ~Applied([run |-> r, event |-> evs[k]])
          BY <1>5, <4>1
        <4>3. Applied(EventOf(p, k))' <=> Applied([run |-> r, event |-> evs[k]])
          BY <4>1 DEF Applied
        <4> QED
          BY <1>3, <4>1, <4>2, <4>3
      <3>3. procs'[p].evs = evs /\ procs'[p].at = "apply"
        BY <1>7, <1>9
      <3> QED
        BY <2>1, <3>2, <3>3 DEF ApplierSound, WriterSound
    <2>2. CASE o # p
      <3>1. \A k : EventOf(o, k)' = EventOf(o, k)
        BY <1>9, <2>2 DEF EventOf
      <3>2. ApplierSound(o) /\ WriterSound(o) /\ procs'[o] = procs[o] /\ (Applying(o)' <=> Applying(o))
        BY <1>9, <1>10, <2>2 DEF IInv
      <3>3. ApplierSound(o)'
        BY <1>3, <1>11, <3>1, <3>2 DEF ApplierSound
      <3>4. WriterSound(o)'
        BY <3>2 DEF WriterSound
      <3> QED
        BY <3>3, <3>4
    <2> QED
      BY <2>1, <2>2
  <1>15. AppliersApart'
    <2>1. \A o, u \in Procs : o # u /\ Applying(o)' /\ Applying(u)' => Current(o)' # Current(u)'
      <3> SUFFICES ASSUME NEW o \in Procs, NEW u \in Procs, o # u, Applying(o)', Applying(u)'
                   PROVE  Current(o)' # Current(u)'
        OBVIOUS
      <3>1. CASE o = p
        BY <1>9, <1>10, <3>1 DEF Applying
      <3>2. CASE u = p
        BY <1>9, <1>10, <3>2 DEF Applying
      <3>3. CASE o # p /\ u # p
        BY <1>9, <1>10, <3>3 DEF IInv, AppliersApart
      <3> QED
        BY <3>1, <3>2, <3>3
    <2>2. \A o \in Procs : procs'[o].at \in ApplyStates => Current(o)' \notin DOMAIN runs \ (marked \cup {r})
      BY <1>9 DEF IInv, AppliersApart
    <2> QED
      BY <2>1, <2>2 DEF AppliersApart
  <1>16. NoCommandYet' <=> NoCommandYet
    BY DEF NoCommandYet
  <1>17. ServiceInOrder' /\ (NoCommandYet => \A x, y \in DOMAIN runs : x < y /\ y \in marked' => x \in marked')
    <2> SUFFICES ASSUME NoCommandYet
                 PROVE  /\ procs'["cli"].at = "idle"
                        /\ \A x \in DOMAIN runs : x <= afterId => x \in marked'
                        /\ \A x \in DOMAIN runs, b \in procs'["service"].batch :
                             x < b => x \in procs'["service"].batch \cup marked'
                        /\ AloneSound'
                        /\ \A x, y \in DOMAIN runs : x < y /\ y \in marked' => x \in marked'
      BY <1>16 DEF ServiceInOrder
    <2>1. /\ procs["cli"].at = "idle" /\ \A x \in DOMAIN runs : x <= afterId => x \in marked
          /\ \A x \in DOMAIN runs, b \in procs["service"].batch :
               x < b => x \in procs["service"].batch \cup marked
      BY DEF IInv, ServiceInOrder
    <2>2. p = "service" /\ "cli" \in Procs \ {p}
      BY <2>1 DEF Procs
    <2>3. procs'["cli"].at = "idle" /\ procs'["service"] = q
      BY <1>9, <2>1, <2>2
    <2>4. ASSUME NEW x \in DOMAIN runs, NEW y \in DOMAIN runs, x < y, y \in marked'
          PROVE  x \in marked'
      <3>1. CASE y \in marked
        BY <2>4, <3>1 DEF IInv, InRunOrder
      <3>2. CASE y = r
        <4>1. x \in Nat /\ r \in Nat
          BY <1>1 DEF TypeOK
        <4>2. x \notin procs[p].batch
          BY <1>1, <2>4, <3>2, <4>1
        <4> QED
          BY <1>1, <2>1, <2>2, <2>4, <3>2, <4>2
      <3> QED
        BY <2>4, <3>1, <3>2
    <2>5. ASSUME NEW t \in DOMAIN timeline
          PROVE  timeline[t].event.run <= r
      <3> DEFINE z == timeline[t].event.run
      <3>1. z \in marked /\ z \in DOMAIN runs /\ z \in Nat /\ r \in Nat
        BY <1>1, <1>4 DEF IInv, TimelineSound, TypeOK
      <3>2. ~(r < z)
        BY <3>1 DEF IInv, InRunOrder
      <3> QED
        BY <3>1, <3>2
    <2>6. ASSUME NEW k \in DOMAIN evs
          PROVE  ~Applied(EventOf("service", k))'
      <3>1. EventOf("service", k)' = [run |-> r, event |-> evs[k]] /\ [run |-> r, event |-> evs[k]].run = r
        BY <1>7, <1>9, <2>2 DEF EventOf
      <3>2. ~Applied([run |-> r, event |-> evs[k]])
        BY <1>5, <3>1
      <3> QED
        BY <3>1, <3>2 DEF Applied
    <2>7. AloneSound'
      <3> SUFFICES ASSUME Applying("service")'
                   PROVE  /\ \A t \in DOMAIN timeline : timeline[t].event.run <= Current("service")'
                          /\ procs'["service"].at # "write"
                          /\ ~Applied(EventOf("service", 1))'
                          /\ \A k \in DOMAIN procs'["service"].evs : ~Applied(EventOf("service", k))'
        BY DEF AloneSound
      <3>1. procs'["service"].evs = evs /\ procs'["service"].at = "apply" /\ Current("service")' = r
        BY <1>7, <1>9, <2>2
      <3>2. evs # << >> /\ IsSeq(evs)
        BY <1>2, <3>1 DEF Applying, IsProc
      <3>3. 1 \in DOMAIN evs
        BY <3>2, SeqFacts
      <3> QED
        BY <2>5, <2>6, <3>1, <3>3
    <2> QED
      BY <1>7, <2>1, <2>2, <2>3, <2>4, <2>7
  <1>18. OpeningsReachIncident'
    <2> SUFFICES ASSUME NEW e \in events', _opens_incident(e.event), ~_resolves_incident(e.event)
                 PROVE  Applied(e)' \/ Pending(e)' \/ e.run \in interrupted'
      BY DEF OpeningsReachIncident
    <2>1. CASE e \in events
      <3>1. Applied(e) \/ Pending(e) \/ e.run \in interrupted
        BY <2>1 DEF IInv, OpeningsReachIncident
      <3>2. CASE Pending(e)
        <4>1. PICK o \in Procs : e.run \in Dropped(o) /\ \E k \in DOMAIN procs[o].evs : e.event = procs[o].evs[k]
          BY <3>2 DEF Pending
        <4>2. o # p
          BY <4>1 DEF Dropped
        <4>3. procs'[o] = procs[o] /\ Dropped(o)' = Dropped(o)
          BY <1>9, <4>2 DEF Dropped
        <4> QED
          BY <4>1, <4>3 DEF Pending
      <3> QED
        BY <1>11, <3>1, <3>2
    <2>2. CASE e \notin events
      <3>1. PICK i \in DOMAIN evs : e = [run |-> r, event |-> evs[i]]
        BY <1>3, <2>2
      <3>2. e.run = r /\ e.event = evs[i] /\ procs'[p].evs = evs /\ procs'[p].at = "apply"
        BY <1>7, <1>9, <3>1
      <3>3. evs # << >>
        BY <1>2, <3>1, SeqFacts DEF IsProc
      <3>4. Dropped(p)' = {r}
        BY <1>9, <3>2, <3>3 DEF Dropped
      <3> QED
        BY <3>2, <3>4 DEF Pending
    <2> QED
      BY <2>1, <2>2
  <1>19. InRunOrder' /\ AppliedOnce'
    <2>1. InRunOrder'
      BY <1>16, <1>17 DEF IInv, InRunOrder
    <2>2. AppliedOnce'
      BY <1>16 DEF IInv, AppliedOnce
    <2> QED
      BY <2>1, <2>2
  <1> QED
    BY <1>12, <1>13, <1>14, <1>15, <1>17, <1>18, <1>19 DEF IInv

\* A processor commits its run.
LEMMA SaveStep ==
    ASSUME IInv, NEW p \in Procs, save_processed_run(p)
    PROVE  IInv'
  <1>1. /\ procs[p].at = "commit" /\ Dropped(p) = {}
        /\ UNCHANGED <<kind, runs, lastId, incident, timeline, interrupted, budget>>
        /\ budget' = [x \in {"faults", "cli"} |-> budget'[x]]
    BY DEF save_processed_run, Dropped, IInv, TypeOK
  <1>2. CASE Current(p) \in marked /\ Returned(p, TRUE) /\ UNCHANGED <<obs, marked, events>>
    BY <1>1, <1>2, ReturnedStep
  <1>3. CASE Returned(p, FALSE) /\ UNCHANGED <<obs, marked, events>>
    BY <1>1, <1>3, ReturnedStep
  <1>4. CASE /\ Current(p) \in DOMAIN runs \ marked /\ marked' = marked \cup {Current(p)}
             /\ events' = Stored(Current(p), procs[p].evs)
             /\ procs' = [procs EXCEPT ![p].at = "apply"] /\ UNCHANGED afterId
    BY <1>1, <1>4, StoreStep
  <1> QED
    BY <1>2, <1>3, <1>4 DEF save_processed_run

\* The incident is what the last transition left.
LEMMA IncidentHasBeen ==
    ASSUME IInv
    PROVE  /\ incident = NoIncident <=> timeline = << >>
           /\ incident = NoIncident \/ \E s \in DOMAIN timeline : incident = timeline[s].to
  <1>1. IsSeq(timeline) /\ incident = IF timeline = << >> THEN NoIncident ELSE Last(timeline).to
    BY DEF IInv, TypeOK, InRunOrder
  <1>2. CASE timeline = << >>
    BY <1>1, <1>2
  <1>3. CASE timeline # << >>
    <2>1. Len(timeline) \in DOMAIN timeline
      BY <1>1, <1>3, SeqFacts
    <2>2. incident = timeline[Len(timeline)].to
      BY <1>1, <1>3 DEF Last
    <2>3. incident.status # "none"
      BY <2>1, <2>2 DEF IInv, TimelineSound
    <2> QED
      BY <1>3, <2>1, <2>2, <2>3 DEF NoIncident
  <1> QED
    BY <1>2, <1>3

\* apply_event has read the incident.
LEMMA LookStep ==
    ASSUME IInv, NEW p \in Procs, Applying(p), NEW q, IsProc(q), procs' = [procs EXCEPT ![p] = q],
           q.batch = procs[p].batch, q.evs = procs[p].evs, q.at \in {"search", "write"},
           q.at = "search" => ~_resolves_incident(Head(q.evs)),
           q.at = "write" =>
             /\ q.seen = incident
             /\ q.what = "opened" <=> incident = NoIncident
             /\ q.what = "recovered" <=> _resolves_incident(Head(q.evs))
             /\ q.what = "recovered" => incident.status = "open",
           UNCHANGED <<kind, runs, lastId, marked, events, incident, timeline, afterId, interrupted, budget>>
    PROVE  IInv'
  <1>1. TypeOK /\ q.batch \subseteq 1 .. lastId
    BY DEF IInv, TypeOK
  <1>2. /\ procs'[p] = q /\ \A o \in Procs \ {p} : procs'[o] = procs[o]
        /\ procs' = [o \in Procs |-> procs'[o]]
        /\ \A o \in Procs : IsProc(procs'[o]) /\ procs'[o].batch \subseteq 1 .. lastId
    <2>1. lastId' \in Nat /\ lastId <= lastId' /\ lastId' = lastId
      BY <1>1 DEF TypeOK
    <2> QED
      BY <1>1, <2>1, ProcStep
  <1>3. \A o \in Procs : procs'[o].batch = procs[o].batch /\ procs'[o].evs = procs[o].evs
    BY <1>2
  <1>4. \A o \in Procs : Current(o)' = Current(o) /\ \A k : EventOf(o, k)' = EventOf(o, k)
    BY <1>3 DEF Current, EventOf
  <1>5. \A o \in Procs : Applying(o)' <=> Applying(o)
    BY <1>2, <1>3 DEF Applying, ApplyStates
  <1>6. \A e : Applied(e)' <=> Applied(e)
    BY DEF Applied
  <1>7. TypeOK'
    BY <1>1, <1>2 DEF TypeOK
  <1>8. EventsAreMarked' /\ TimelineSound'
    BY DEF IInv, EventsAreMarked, TimelineSound
  <1>9. ASSUME NEW o \in Procs
        PROVE  ApplierSound(o)' /\ WriterSound(o)'
    <2>1. ApplierSound(o)'
      BY <1>3, <1>4, <1>5, <1>6 DEF IInv, ApplierSound
    <2>2. WriterSound(o)'
      <3>1. CASE o = p
        BY <1>2, <3>1, IncidentHasBeen DEF WriterSound
      <3>2. CASE o # p
        BY <1>2, <3>2 DEF IInv, WriterSound
      <3> QED
        BY <3>1, <3>2
    <2> QED
      BY <2>1, <2>2
  <1>10. AppliersApart'
    <2>1. procs[p].at \in ApplyStates
      BY DEF Applying
    <2>2. \A o \in Procs : procs'[o].at \in ApplyStates => procs[o].at \in ApplyStates
      BY <1>2, <2>1
    <2> QED
      BY <1>4, <1>5, <2>2 DEF IInv, AppliersApart
  <1>11. NoCommandYet' <=> NoCommandYet
    BY DEF NoCommandYet
  <1>12. ServiceInOrder'
    <2> SUFFICES ASSUME NoCommandYet
                 PROVE  procs'["cli"].at = "idle" /\ AloneSound'
      BY <1>3, <1>11 DEF IInv, ServiceInOrder, Procs
    <2>1. procs["cli"].at = "idle" /\ AloneSound
      BY DEF IInv, ServiceInOrder
    <2>2. p = "service" /\ "cli" \in Procs \ {p}
      BY <2>1 DEF Procs, Applying, ApplyStates
    <2>3. \A k : Applied(EventOf("service", k))' <=> Applied(EventOf("service", k))
      BY <1>4, <2>2 DEF Applied
    <2> QED
      BY <1>2, <1>3, <1>4, <1>5, <2>1, <2>2, <2>3 DEF AloneSound
  <1>13. OpeningsReachIncident'
    <2>1. \A o \in Procs : Dropped(o)' = Dropped(o)
      BY <1>4, <1>5 DEF Dropped, Applying, ApplyStates
    <2>2. \A e : Pending(e)' <=> Pending(e)
      BY <1>3, <2>1 DEF Pending
    <2> QED
      BY <1>6, <2>2 DEF IInv, OpeningsReachIncident
  <1>14. InRunOrder' /\ AppliedOnce'
    <2>1. InRunOrder'
      BY <1>11 DEF IInv, InRunOrder
    <2>2. AppliedOnce'
      BY <1>11 DEF IInv, AppliedOnce
    <2> QED
      BY <2>1, <2>2
  <1> QED
    BY <1>7, <1>8, <1>9, <1>10, <1>12, <1>13, <1>14 DEF IInv

\* A processor is done with its event: the timeline is as it was or has one
\* transition more, for that event.
LEMMA AdvanceStep ==
    ASSUME IInv, NEW p \in Procs, Applying(p), procs' = [procs EXCEPT ![p] = NextEvent(procs[p])],
           IsSeq(timeline'), incident' = [x \in {"status", "severity"} |-> incident'[x]],
           \A s \in DOMAIN timeline : s \in DOMAIN timeline' /\ timeline'[s] = timeline[s],
           \A s \in DOMAIN timeline' \ DOMAIN timeline : timeline'[s].event = Key(p),
           _resolves_incident(Head(procs[p].evs)) => incident'.status # "open",
           _opens_incident(Head(procs[p].evs)) /\ ~_resolves_incident(Head(procs[p].evs))
             => \E t \in DOMAIN timeline' : timeline'[t].event = Key(p),
           TimelineSound', AppliedOnce', InRunOrder',
           UNCHANGED <<kind, runs, lastId, marked, events, afterId, interrupted, budget>>
    PROVE  IInv'
  <1> DEFINE q == NextEvent(procs[p])
             w == procs[p].evs
             n == Len(w)
  <1>1. TypeOK /\ IsProc(procs[p]) /\ procs[p].batch \subseteq 1 .. lastId /\ w # << >> /\ procs[p].at \in ApplyStates
    BY DEF IInv, TypeOK, Applying
  <1>2. /\ IsSeq(w) /\ Derived(w) /\ n \in Nat \ {0} /\ DOMAIN w = 1 .. n /\ Head(w) = w[1]
        /\ IsSeq(Tail(w)) /\ DOMAIN Tail(w) = 1 .. n - 1 /\ (Tail(w) # << >> <=> n # 1)
        /\ \A i \in 1 .. n - 1 : Tail(w)[i] = w[i + 1]
    <2>1. IsSeq(w) /\ Derived(w)
      BY <1>1 DEF IsProc
    <2>2. /\ IsSeq(Tail(w)) /\ Len(Tail(w)) = n - 1 /\ Head(w) = w[1] /\ n \in Nat \ {0}
          /\ \A i \in 1 .. n - 1 : Tail(w)[i] = w[i + 1]
      BY <1>1, <2>1, TailFacts
    <2>3. DOMAIN Tail(w) = 1 .. n - 1 /\ (Tail(w) = << >> <=> n - 1 = 0)
      BY <2>2, SeqFacts
    <2>4. DOMAIN w = 1 .. n
      BY <2>1, SeqFacts
    <2> QED
      BY <2>1, <2>2, <2>3, <2>4
  <1>3. /\ q = [x \in ProcFields |-> q[x]] /\ q.at = "apply" /\ q.batch = procs[p].batch
        /\ q.evs = Tail(w)
    BY <1>1 DEF IsProc, NextEvent, ProcFields
  <1>4. procs' = [procs EXCEPT ![p] = q]
    OBVIOUS
  <1> HIDE DEF q
  <1>5. Derived(Tail(w))
    <2> SUFFICES ASSUME NEW j \in DOMAIN Tail(w), NEW k \in DOMAIN Tail(w), j < k, Tail(w)[j] = Tail(w)[k]
                 PROVE  Tail(w)[j].type = "recovered" /\ _resolves_incident(Tail(w)[k - 1])
      BY DEF Derived
    <2>1. j \in 1 .. n - 1 /\ k \in 1 .. n - 1 /\ n \in Nat
      BY <1>2
    <2>2. /\ j + 1 \in 1 .. n /\ k + 1 \in 1 .. n /\ j + 1 < k + 1
          /\ k - 1 \in 1 .. n - 1 /\ (k + 1) - 1 = (k - 1) + 1
      <3> HIDE DEF n, w
      <3> QED
        BY <2>1
    <2>3. w[j + 1] = w[k + 1] /\ Tail(w)[j] = w[j + 1] /\ Tail(w)[k - 1] = w[(k - 1) + 1]
      BY <1>2, <2>1, <2>2
    <2>4. w[j + 1].type = "recovered" /\ _resolves_incident(w[(k + 1) - 1])
      BY <1>2, <2>2, <2>3 DEF Derived
    <2> QED
      BY <2>2, <2>3, <2>4
  <1>6. IsProc(q) /\ q.batch \subseteq 1 .. lastId
    BY <1>1, <1>2, <1>3, <1>5 DEF IsProc, ApplyStates
  <1>7. /\ procs'[p] = q /\ \A o \in Procs \ {p} : procs'[o] = procs[o] /\ Current(o)' = Current(o)
        /\ procs' = [o \in Procs |-> procs'[o]]
        /\ \A o \in Procs : IsProc(procs'[o]) /\ procs'[o].batch \subseteq 1 .. lastId
    <2>1. lastId' \in Nat /\ lastId <= lastId' /\ lastId' = lastId
      BY <1>1 DEF TypeOK
    <2> QED
      BY <1>1, <1>4, <1>6, <2>1, ProcStep
  <1>8. Current(p)' = Current(p) /\ \A k \in 1 .. n - 1 : EventOf(p, k)' = EventOf(p, k + 1)
    BY <1>2, <1>3, <1>7 DEF Current, EventOf
  <1>9. \A o \in Procs \ {p} : (Applying(o)' <=> Applying(o)) /\ \A k : EventOf(o, k)' = EventOf(o, k)
    BY <1>7 DEF Applying, EventOf
  <1>10. Key(p) = EventOf(p, 1) /\ (Applying(p)' <=> n # 1)
    BY <1>2, <1>3, <1>7 DEF Key, EventOf, Applying, ApplyStates
  <1>11. ASSUME NEW e, \E t \in DOMAIN timeline' : timeline'[t].event = e
         PROVE  Applied(e) \/ e = Key(p)
    BY <1>11 DEF Applied
  <1>12. ASSUME NEW e, Applied(e)
         PROVE  \E t \in DOMAIN timeline' : timeline'[t].event = e
    BY <1>12 DEF Applied
  \* An event further on that is in the timeline now was there or is this one.
  <1>13. ASSUME NEW k \in 1 .. n - 1, Applied(EventOf(p, k))'
         PROVE  Applied(EventOf(p, k + 1)) \/ (w[1] = w[k + 1] /\ w[1].type = "recovered" /\ _resolves_incident(w[k]))
    <2>1. Applied(EventOf(p, k + 1)) \/ EventOf(p, k + 1) = Key(p)
      BY <1>8, <1>11, <1>13 DEF Applied
    <2>2. CASE EventOf(p, k + 1) = Key(p)
      <3>1. EventOf(p, k + 1).event = w[k + 1] /\ EventOf(p, 1).event = w[1]
        BY DEF EventOf
      <3>2. w[1] = w[k + 1]
        BY <1>10, <2>2, <3>1
      <3>3. 1 \in 1 .. n /\ k + 1 \in 1 .. n /\ 1 < k + 1 /\ (k + 1) - 1 = k
        BY <1>2
      <3>4. w[1].type = "recovered" /\ _resolves_incident(w[(k + 1) - 1])
        BY <1>2, <3>2, <3>3 DEF Derived
      <3> QED
        BY <3>2, <3>3, <3>4
    <2> QED
      BY <2>1, <2>2
  <1>14. TypeOK'
    BY <1>1, <1>7 DEF TypeOK
  <1>15. EventsAreMarked'
    BY DEF IInv, EventsAreMarked
  <1>16. ASSUME NEW o \in Procs
         PROVE  ApplierSound(o)' /\ WriterSound(o)'
    <2>1. CASE o = p
      <3>1. ASSUME NEW k \in 1 .. n - 1
            PROVE  /\ EventOf(p, k)' \in events
                   /\ Applied(EventOf(p, k))' => w[k + 1].type = "recovered"
        <4>1. k + 1 \in 1 .. n
          BY <1>2
        <4>2. EventOf(p, k + 1) \in events /\ (Applied(EventOf(p, k + 1)) => w[k + 1].type = "recovered")
          BY <1>2, <4>1 DEF IInv, ApplierSound
        <4> QED
          BY <1>8, <1>13, <4>2
      <3>2. \A k \in 1 .. n - 1 : procs'[p].evs[k] = w[k + 1]
        BY <1>2, <1>3, <1>7
      <3>3. DOMAIN procs'[p].evs = 1 .. n - 1 /\ procs'[p].at = "apply"
        BY <1>2, <1>3, <1>7
      <3>4. ApplierSound(p)'
        BY <3>1, <3>2, <3>3 DEF ApplierSound
      <3>5. WriterSound(p)'
        BY <3>3 DEF WriterSound
      <3> QED
        BY <2>1, <3>4, <3>5
    <2>2. CASE o # p
      <3>1. procs'[o] = procs[o] /\ ApplierSound(o) /\ WriterSound(o)
        BY <1>7, <2>2 DEF IInv
      <3>2. ASSUME Applying(o), NEW k, Applied(EventOf(o, k))'
            PROVE  Applied(EventOf(o, k))
        <4>1. Applied(EventOf(o, k)) \/ EventOf(o, k) = Key(p)
          BY <1>9, <1>11, <2>2, <3>2 DEF Applied
        <4>2. EventOf(o, k).run = Current(o) /\ Key(p).run = Current(p)
          BY DEF EventOf, Key
        <4>3. Current(o) # Current(p)
          BY <2>2, <3>2 DEF IInv, AppliersApart
        <4> QED
          BY <4>1, <4>2, <4>3
      <3>3. ApplierSound(o)'
        BY <1>9, <2>2, <3>1, <3>2 DEF ApplierSound
      <3>4. WriterSound(o)'
        BY <3>1 DEF WriterSound
      <3> QED
        BY <3>3, <3>4
    <2> QED
      BY <2>1, <2>2
  <1>17. AppliersApart'
    <2>1. \A o \in Procs : Current(o)' = Current(o) /\ (Applying(o)' => Applying(o))
      BY <1>7, <1>8, <1>9
    <2>2. \A o \in Procs : procs'[o].at \in ApplyStates => procs[o].at \in ApplyStates
      BY <1>1, <1>7
    <2> QED
      BY <2>1, <2>2 DEF IInv, AppliersApart
  <1>18. ServiceInOrder'
    <2>1. \A o \in Procs : procs'[o].batch = procs[o].batch
      BY <1>3, <1>7
    <2>2. NoCommandYet' <=> NoCommandYet
      BY DEF NoCommandYet
    <2> SUFFICES ASSUME NoCommandYet
                 PROVE  procs'["cli"].at = "idle" /\ AloneSound'
      BY <2>1, <2>2 DEF IInv, ServiceInOrder, Procs
    <2>3. procs["cli"].at = "idle" /\ AloneSound
      BY DEF IInv, ServiceInOrder
    <2>4. p = "service" /\ "cli" \in Procs \ {p}
      BY <1>1, <2>3 DEF Procs, ApplyStates
    <2>5. procs'["cli"].at = "idle"
      BY <1>7, <2>3, <2>4
    <2>6. AloneSound'
      <3> SUFFICES ASSUME Applying("service")'
                   PROVE  /\ \A t \in DOMAIN timeline' : timeline'[t].event.run <= Current("service")'
                          /\ procs'["service"].at # "write"
                          /\ Applied(EventOf("service", 1))' => incident'.status # "open"
                          /\ \A k \in DOMAIN procs'["service"].evs :
                               k > 1 /\ Applied(EventOf("service", k))' => _resolves_incident(procs'["service"].evs[k - 1])
        BY DEF AloneSound
      <3>1. n # 1 /\ Current("service")' = Current(p) /\ procs'["service"].at = "apply" /\ procs'["service"].evs = Tail(w)
        BY <1>3, <1>7, <1>8, <1>10, <2>4
      <3>2. ASSUME NEW t \in DOMAIN timeline'
            PROVE  timeline'[t].event.run <= Current(p)
        <4>1. CASE t \in DOMAIN timeline
          BY <2>3, <2>4, <4>1 DEF AloneSound
        <4>2. CASE t \notin DOMAIN timeline
          <5>1. timeline'[t].event.run = Current(p)
            BY <4>2 DEF Key
          <5>2. Current(p) \in 1 .. lastId
            BY <1>1, CurrentRun DEF ApplyStates
          <5> QED
            BY <5>1, <5>2
        <4> QED
          BY <4>1, <4>2
      <3>3. ASSUME Applied(EventOf("service", 1))'
            PROVE  incident'.status # "open"
        <4>1. 1 \in 1 .. n - 1 /\ 1 + 1 = 2 /\ 2 \in 1 .. n /\ 2 > 1 /\ 2 - 1 = 1
          BY <1>2, <3>1
        <4>2. Applied(EventOf(p, 1 + 1)) \/ _resolves_incident(w[1])
          BY <1>13, <2>4, <3>3, <4>1
        <4>3. Applied(EventOf(p, 2)) => _resolves_incident(w[2 - 1])
          BY <1>2, <2>3, <2>4, <4>1 DEF AloneSound
        <4>4. _resolves_incident(Head(w))
          BY <1>2, <4>1, <4>2, <4>3
        <4> QED
          BY <4>4
      <3>4. ASSUME NEW k \in 1 .. n - 1, k > 1, Applied(EventOf("service", k))'
            PROVE  _resolves_incident(Tail(w)[k - 1])
        <4>1. k + 1 \in 1 .. n /\ k + 1 > 1 /\ (k + 1) - 1 = k /\ k - 1 \in 1 .. n - 1 /\ (k - 1) + 1 = k
          <5>1. n \in Nat /\ k > 1 /\ k \in 1 .. n - 1
            BY <1>2, <3>4
          <5> HIDE DEF n, w
          <5> QED
            BY <5>1
        <4>2. Applied(EventOf(p, k + 1)) \/ _resolves_incident(w[k])
          BY <1>13, <2>4, <3>4
        <4>3. Applied(EventOf(p, k + 1)) => _resolves_incident(w[(k + 1) - 1])
          BY <1>2, <2>3, <2>4, <4>1 DEF AloneSound
        <4>4. Tail(w)[k - 1] = w[(k - 1) + 1]
          BY <1>2, <4>1
        <4> QED
          BY <4>1, <4>2, <4>3, <4>4
      <3> QED
        BY <1>2, <3>1, <3>2, <3>3, <3>4
    <2> QED
      BY <2>5, <2>6
  <1>19. OpeningsReachIncident'
    <2> SUFFICES ASSUME NEW e \in events, _opens_incident(e.event), ~_resolves_incident(e.event)
                 PROVE  Applied(e)' \/ Pending(e)' \/ e.run \in interrupted
      BY DEF OpeningsReachIncident
    <2>1. Applied(e) \/ Pending(e) \/ e.run \in interrupted
      BY DEF IInv, OpeningsReachIncident
    <2>2. CASE Applied(e)
      BY <1>12, <2>2 DEF Applied
    <2>3. CASE Pending(e)
      <3>1. PICK o \in Procs : e.run \in Dropped(o) /\ \E k \in DOMAIN procs[o].evs : e.event = procs[o].evs[k]
        BY <2>3 DEF Pending
      <3>2. CASE o # p
        <4>1. procs'[o] = procs[o] /\ Dropped(o)' = Dropped(o)
          BY <1>7, <3>2 DEF Dropped
        <4> QED
          BY <3>1, <4>1 DEF Pending
      <3>3. CASE o = p
        <4>1. PICK k \in 1 .. n : e.event = w[k]
          BY <1>2, <3>1, <3>3
        <4>2. e.run = Current(p)
          BY <3>1, <3>3 DEF Dropped
        <4>3. CASE k = 1
          <5>1. e = [run |-> Current(p), event |-> Head(w)]
            BY <1>1, <1>2, <4>1, <4>2, <4>3 DEF TypeOK
          <5>2. e = Key(p) /\ e.event = Head(w)
            BY <1>2, <4>1, <4>3, <5>1 DEF Key
          <5> QED
            BY <5>2 DEF Applied
        <4>4. CASE k # 1
          <5>1. k - 1 \in 1 .. n - 1 /\ (k - 1) + 1 = k /\ n # 1
            BY <1>2, <4>4
          <5>2. Tail(w)[k - 1] = w[(k - 1) + 1] /\ k - 1 \in DOMAIN Tail(w)
            BY <1>2, <5>1
          <5>3. procs'[p].evs = Tail(w) /\ procs'[p].at = "apply" /\ Tail(w) # << >>
            BY <1>2, <1>3, <1>7, <5>1
          <5>4. Dropped(p)' = {Current(p)}
            BY <1>8, <5>3 DEF Dropped
          <5> QED
            BY <4>1, <4>2, <5>1, <5>2, <5>3, <5>4 DEF Pending
        <4> QED
          BY <4>3, <4>4
      <3> QED
        BY <3>2, <3>3
    <2> QED
      BY <2>1, <2>2, <2>3
  <1> QED
    BY <1>14, <1>15, <1>16, <1>17, <1>18, <1>19 DEF IInv

\* What apply_event does with an event, by the incident it finds.
LEMMA BranchFacts ==
    ASSUME NEW e
    PROVE  /\ Branch(e) = "none" => /\ _resolves_incident(e) => incident.status # "open"
                                    /\ ~(_opens_incident(e) /\ ~_resolves_incident(e))
           /\ Branch(e) = "search" => ~_resolves_incident(e)
           /\ Branch(e) \notin {"none", "search"} =>
                /\ incident.status = "open" /\ Branch(e) # "opened"
                /\ Branch(e) = "recovered" <=> _resolves_incident(e)
  <1>1. CASE _resolves_incident(e) /\ incident.status = "open"
    <2>1. Branch(e) = "recovered"
      BY <1>1 DEF Branch
    <2> QED
      BY <1>1, <2>1
  <1>2. CASE ~_resolves_incident(e) /\ _opens_incident(e)
    <2>1. Branch(e) = IF incident.status # "open" THEN "search"
                      ELSE IF _max_severity(incident.severity, e.severity) # incident.severity THEN "escalated" ELSE "updated"
      BY <1>2 DEF Branch
    <2> QED
      BY <1>2, <2>1
  <1>3. CASE /\ ~(_resolves_incident(e) /\ incident.status = "open")
             /\ ~(~_resolves_incident(e) /\ _opens_incident(e))
    <2>1. Branch(e) = "none"
      BY <1>3 DEF Branch
    <2> QED
      BY <1>3, <2>1
  <1> QED
    BY <1>1, <1>2, <1>3

\* apply_event's first query.
LEMMA ApplyStep ==
    ASSUME IInv, NEW p \in Procs, Apply(p)
    PROVE  IInv'
  <1> DEFINE e == Head(procs[p].evs)
  <1>1. /\ procs[p].at = "apply" /\ TypeOK /\ IsProc(procs[p])
        /\ UNCHANGED <<kind, runs, lastId, marked, events, incident, timeline, interrupted, budget>>
        /\ budget' = [x \in {"faults", "cli"} |-> budget'[x]]
    BY DEF Apply, IInv, TypeOK
  <1>2. CASE procs[p].evs = << >>
    <2>1. Returned(p, TRUE)
      BY <1>2 DEF Apply
    <2>2. Current(p) \notin DOMAIN runs \ marked /\ Dropped(p) = {}
      BY <1>1, <1>2 DEF IInv, AppliersApart, ApplyStates, Dropped
    <2> QED
      BY <1>1, <2>1, <2>2, ReturnedStep
  <1>3. CASE procs[p].evs # << >>
    <2>1. /\ procs' = [procs EXCEPT ![p] =
                         CASE Branch(e) = "none" -> NextEvent(procs[p])
                           [] Branch(e) = "search" -> [procs[p] EXCEPT !.at = "search"]
                           [] OTHER -> [procs[p] EXCEPT !.at = "write", !.what = Branch(e), !.seen = incident]]
          /\ UNCHANGED afterId /\ Applying(p)
      BY <1>1, <1>3 DEF Apply, Applying, ApplyStates
    <2>2. CASE Branch(e) = "none"
      <3>1. procs' = [procs EXCEPT ![p] = NextEvent(procs[p])]
        BY <2>1, <2>2
      <3>2. /\ _resolves_incident(e) => incident'.status # "open"
            /\ ~(_opens_incident(e) /\ ~_resolves_incident(e))
        BY <1>1, <2>2, BranchFacts
      <3>3. IsSeq(timeline') /\ incident' = [x \in {"status", "severity"} |-> incident'[x]]
        BY <1>1 DEF TypeOK
      <3>4. TimelineSound' /\ AppliedOnce' /\ InRunOrder'
        BY <1>1 DEF IInv, TimelineSound, AppliedOnce, InRunOrder, NoCommandYet
      <3> QED
        BY <1>1, <2>1, <3>1, <3>2, <3>3, <3>4, AdvanceStep
    <2>3. CASE Branch(e) = "search"
      <3> DEFINE q == [procs[p] EXCEPT !.at = "search"]
      <3>1. procs' = [procs EXCEPT ![p] = q]
        BY <2>1, <2>3
      <3>2. /\ q = [x \in ProcFields |-> q[x]] /\ q.at = "search" /\ q.batch = procs[p].batch
            /\ q.evs = procs[p].evs
        BY <1>1 DEF IsProc, ProcFields
      <3> HIDE DEF q
      <3>3. IsProc(q) /\ ~_resolves_incident(Head(q.evs))
        BY <1>1, <1>3, <2>3, <3>2, BranchFacts DEF IsProc, ApplyStates
      <3> QED
        BY <1>1, <2>1, <3>1, <3>2, <3>3, LookStep
    <2>4. CASE Branch(e) \notin {"none", "search"}
      <3> DEFINE q == [procs[p] EXCEPT !.at = "write", !.what = Branch(e), !.seen = incident]
      <3>1. procs' = [procs EXCEPT ![p] = q]
        BY <2>1, <2>4
      <3>2. /\ q = [x \in ProcFields |-> q[x]] /\ q.at = "write" /\ q.batch = procs[p].batch
            /\ q.evs = procs[p].evs /\ q.what = Branch(e) /\ q.seen = incident
        BY <1>1 DEF IsProc, ProcFields
      <3> HIDE DEF q
      <3>3. /\ incident.status = "open" /\ q.what # "opened" /\ incident # NoIncident
            /\ q.what = "recovered" <=> _resolves_incident(Head(q.evs))
        BY <2>4, <3>2, BranchFacts DEF NoIncident
      <3>4. IsProc(q)
        BY <1>1, <1>3, <3>2 DEF IsProc, ApplyStates
      <3> QED
        BY <1>1, <2>1, <3>1, <3>2, <3>3, <3>4, LookStep
    <2> QED
      BY <2>2, <2>3, <2>4
  <1> QED
    BY <1>2, <1>3

\* apply_event's second query.
LEMMA SearchStep ==
    ASSUME IInv, NEW p \in Procs, Search(p)
    PROVE  IInv'
  <1> DEFINE what == IF incident = NoIncident THEN "opened" ELSE "reopened"
             q == [procs[p] EXCEPT !.at = "write", !.seen = incident, !.what = what]
  <1>1. /\ procs[p].at = "search" /\ TypeOK /\ IsProc(procs[p])
        /\ UNCHANGED <<kind, runs, lastId, marked, events, incident, timeline, afterId, interrupted, budget>>
    BY DEF Search, IInv, TypeOK
  <1>2. procs' = [procs EXCEPT ![p] = q]
    BY <1>1 DEF Search, TypeOK
  <1>3. /\ q = [x \in ProcFields |-> q[x]] /\ q.at = "write" /\ q.batch = procs[p].batch
        /\ q.evs = procs[p].evs /\ q.what = what /\ q.seen = incident
    BY <1>1 DEF IsProc, ProcFields
  <1> HIDE DEF q
  <1>4. procs[p].evs # << >> /\ Applying(p) /\ IsProc(q)
    BY <1>1, <1>3 DEF IsProc, Applying, ApplyStates
  <1>5. ~_resolves_incident(Head(q.evs))
    BY <1>1, <1>3 DEF IInv, WriterSound
  <1>6. q.what # "recovered" /\ (q.what = "opened" <=> incident = NoIncident)
    BY <1>3
  <1> QED
    BY <1>1, <1>2, <1>3, <1>4, <1>5, <1>6, LookStep

\* apply_event's transaction.
LEMMA WriteStep ==
    ASSUME IInv, NEW p \in Procs, Write(p)
    PROVE  IInv'
  <1> DEFINE q == procs[p]
             e == Head(q.evs)
             new == Written(q.what, q.seen, e)
             row == [what |-> q.what, from |-> q.seen, to |-> new, event |-> Key(p)]
             n == Len(timeline)
  <1>1. /\ q.at = "write" /\ TypeOK /\ IsProc(q) /\ q.evs # << >> /\ Applying(p)
        /\ UNCHANGED <<kind, runs, lastId, marked, events, budget>>
        /\ budget' = [x \in {"faults", "cli"} |-> budget'[x]]
    <2>1. q.at = "write" /\ TypeOK /\ IsProc(q) /\ UNCHANGED <<kind, runs, lastId, marked, events, budget>>
      BY DEF Write, IInv, TypeOK
    <2>2. q.evs # << >> /\ Applying(p) /\ budget' = [x \in {"faults", "cli"} |-> budget'[x]]
      BY <2>1 DEF IsProc, TypeOK, Applying, ApplyStates
    <2> QED
      BY <2>1, <2>2
  <1>2. CASE q.what = "opened" /\ incident # NoIncident
    <2>1. /\ Returned(p, FALSE) /\ interrupted' = interrupted \cup Dropped(p)
          /\ UNCHANGED <<incident, timeline>>
      BY <1>2 DEF Write
    <2> QED
      BY <1>1, <2>1, ReturnedStep
  <1>3. CASE ~(q.what = "opened" /\ incident # NoIncident)
    <2>1. /\ incident' = new /\ timeline' = Append(timeline, row)
          /\ procs' = [procs EXCEPT ![p] = NextEvent(procs[p])]
          /\ UNCHANGED <<afterId, interrupted>>
      BY <1>3 DEF Write
    <2>2. n \in Nat /\ DOMAIN timeline = 1 .. n /\ (timeline = << >> <=> n = 0) /\ IsSeq(timeline)
      BY <1>1, SeqFacts DEF TypeOK
    <2>3. /\ IsSeq(timeline') /\ Len(timeline') = n + 1 /\ DOMAIN timeline' = 1 .. n + 1 /\ timeline' # << >>
          /\ \A i \in 1 .. n : timeline'[i] = timeline[i]
          /\ timeline'[n + 1] = row
      <3>1. /\ IsSeq(timeline') /\ Len(timeline') = n + 1
            /\ \A i \in 1 .. n : timeline'[i] = timeline[i]
            /\ timeline'[n + 1] = row
        BY <2>1, <2>2, AppendFacts
      <3> QED
        BY <2>2, <3>1, SeqFacts
    <2>4. row.what = q.what /\ row.from = q.seen /\ row.to = new /\ row.event = Key(p)
      OBVIOUS
    <2>5. /\ new = [x \in {"status", "severity"} |-> new[x]] /\ new.status # "none"
          /\ q.what = "recovered" => new.status = "resolved"
      BY <1>1 DEF TypeOK, Written
    <2> HIDE DEF new, row
    <2>6. /\ q.what = "opened" <=> q.seen = NoIncident
          /\ q.seen = NoIncident \/ \E s \in DOMAIN timeline : q.seen = timeline[s].to
          /\ q.what = "recovered" <=> _resolves_incident(e)
          /\ q.what = "recovered" => q.seen.status = "open"
      BY <1>1 DEF IInv, WriterSound
    <2>7. /\ Key(p) = EventOf(p, 1) /\ Key(p) \in events /\ Key(p).run = Current(p) /\ Key(p).event = e
          /\ Applied(Key(p)) => e.type = "recovered"
      <3>1. Head(q.evs) = q.evs[1] /\ 1 \in DOMAIN q.evs
        BY <1>1, TailFacts, SeqFacts DEF IsProc
      <3>2. Key(p) = EventOf(p, 1) /\ Key(p).run = Current(p) /\ Key(p).event = e
        BY <3>1 DEF Key, EventOf
      <3>3. EventOf(p, 1) \in events /\ (Applied(EventOf(p, 1)) => q.evs[1].type = "recovered")
        BY <1>1, <3>1 DEF IInv, ApplierSound
      <3> QED
        BY <3>1, <3>2, <3>3
    <2>8. NoCommandYet' <=> NoCommandYet
      BY <1>1 DEF NoCommandYet
    <2>9. NoCommandYet => /\ \A t \in DOMAIN timeline : timeline[t].event.run <= Current(p)
                          /\ q.seen = incident
                          /\ Applied(Key(p)) => incident.status # "open"
      <3> SUFFICES ASSUME NoCommandYet
                   PROVE  /\ \A t \in DOMAIN timeline : timeline[t].event.run <= Current(p)
                          /\ q.seen = incident
                          /\ Applied(Key(p)) => incident.status # "open"
        OBVIOUS
      <3>1. procs["cli"].at = "idle" /\ AloneSound
        BY DEF IInv, ServiceInOrder
      <3>2. p = "service"
        BY <1>1, <3>1 DEF Procs
      <3> QED
        BY <1>1, <2>7, <3>1, <3>2 DEF AloneSound
    <2>10. TimelineSound'
      BY <1>1, <2>2, <2>3, <2>4, <2>5, <2>7 DEF IInv, TimelineSound
    <2>11. AppliedOnce'
      <3>1. ASSUME NEW s \in 1 .. n, timeline[s].event = Key(p)
            PROVE  e.type = "recovered" /\ ~NoCommandYet
        <4>1. Applied(Key(p)) /\ e.type = "recovered"
          BY <2>2, <2>7, <3>1 DEF Applied
        <4>2. q.seen.status = "open"
          BY <2>6, <4>1 DEF _resolves_incident
        <4> QED
          BY <2>9, <4>1, <4>2
      <3>2. ASSUME NEW s \in 1 .. n + 1, NEW t \in 1 .. n + 1, s # t, timeline'[s].event = timeline'[t].event
            PROVE  timeline'[s].event.event.type = "recovered" /\ ~NoCommandYet
        <4>1. CASE s \in 1 .. n /\ t \in 1 .. n
          BY <2>2, <2>3, <3>2, <4>1 DEF IInv, AppliedOnce
        <4>2. CASE s = n + 1
          <5>1. t \in 1 .. n
            BY <2>2, <3>2, <4>2
          <5> QED
            BY <2>3, <2>4, <2>7, <3>1, <3>2, <4>2, <5>1
        <4>3. CASE t = n + 1
          <5>1. s \in 1 .. n
            BY <2>2, <3>2, <4>3
          <5> QED
            BY <2>3, <2>4, <2>7, <3>1, <3>2, <4>3, <5>1
        <4>4. s \in 1 .. n \/ s = n + 1
          BY <2>2
        <4>5. t \in 1 .. n \/ t = n + 1
          BY <2>2
        <4> QED
          BY <4>1, <4>2, <4>3, <4>4, <4>5
      <3>3. ASSUME NEW t \in 1 .. n + 1
            PROVE  timeline'[t].what = "opened" <=> t = 1
        <4>1. CASE t \in 1 .. n
          BY <2>2, <2>3, <4>1 DEF IInv, AppliedOnce
        <4>2. CASE t = n + 1
          <5>1. q.what = "opened" => n = 0
            BY <1>3, <2>2, IncidentHasBeen
          <5>2. n = 0 => q.what = "opened"
            BY <2>2, <2>6
          <5>3. n + 1 = 1 <=> n = 0
            BY <2>2
          <5> QED
            BY <2>3, <2>4, <4>2, <5>1, <5>2, <5>3
        <4>3. t \in 1 .. n \/ t = n + 1
          BY <2>2
        <4> QED
          BY <4>1, <4>2, <4>3
      <3> QED
        BY <2>3, <2>8, <3>2, <3>3 DEF AppliedOnce
    <2>12. InRunOrder'
      <3>1. Last(timeline') = row
        BY <2>3 DEF Last
      <3>2. ASSUME NEW t \in 1 .. n + 1
            PROVE  timeline'[t].from = NoIncident \/ \E s \in 1 .. t - 1 : timeline'[t].from = timeline'[s].to
        <4>1. CASE t \in 1 .. n
          <5>1. timeline[t].from = NoIncident \/ \E s \in 1 .. t - 1 : timeline[t].from = timeline[s].to
            BY <2>2, <4>1 DEF IInv, InRunOrder
          <5>2. \A s \in 1 .. t - 1 : s \in 1 .. n
            BY <2>2, <4>1
          <5> QED
            BY <2>3, <4>1, <5>1, <5>2
        <4>2. CASE t = n + 1
          <5>1. t - 1 = n
            BY <2>2, <4>2
          <5> QED
            BY <2>2, <2>3, <2>4, <2>6, <4>2, <5>1
        <4>3. t \in 1 .. n \/ t = n + 1
          BY <2>2
        <4> QED
          BY <4>1, <4>2, <4>3
      <3>3. ASSUME NoCommandYet, NEW s \in 1 .. n + 1, NEW t \in 1 .. n + 1, s < t
            PROVE  timeline'[s].event.run <= timeline'[t].event.run
        <4>1. s \in 1 .. n /\ (t \in 1 .. n \/ t = n + 1)
          BY <2>2, <3>3
        <4>2. CASE t \in 1 .. n
          BY <2>2, <2>3, <3>3, <4>1, <4>2 DEF IInv, InRunOrder
        <4>3. CASE t = n + 1
          BY <2>2, <2>3, <2>4, <2>7, <2>9, <3>3, <4>1, <4>3
        <4> QED
          BY <4>1, <4>2, <4>3
      <3>4. ASSUME NoCommandYet, NEW t \in 1 .. n + 1
            PROVE  timeline'[t].from = IF t = 1 THEN NoIncident ELSE timeline'[t - 1].to
        <4>1. t \in 1 .. n \/ t = n + 1
          BY <2>2
        <4>2. CASE t \in 1 .. n
          <5>1. timeline[t].from = IF t = 1 THEN NoIncident ELSE timeline[t - 1].to
            BY <2>2, <3>4, <4>2 DEF IInv, InRunOrder
          <5>2. t # 1 => t - 1 \in 1 .. n
            BY <2>2, <4>2
          <5> QED
            BY <2>3, <4>2, <5>1, <5>2
        <4>3. CASE t = n + 1
          <5>1. t - 1 = n /\ (t = 1 <=> n = 0) /\ (n # 0 => n \in 1 .. n)
            BY <2>2, <4>3
          <5>2. incident = IF n = 0 THEN NoIncident ELSE timeline[n].to
            BY <2>2 DEF IInv, InRunOrder, Last
          <5>3. timeline'[t].from = incident
            BY <2>3, <2>4, <2>9, <3>4, <4>3
          <5> QED
            BY <2>3, <5>1, <5>2, <5>3
        <4> QED
          BY <4>1, <4>2, <4>3
      <3>5. NoCommandYet => \A x, r \in DOMAIN runs : x < r /\ r \in marked => x \in marked
        BY DEF IInv, InRunOrder
      <3>6. incident' = IF timeline' = << >> THEN NoIncident ELSE Last(timeline').to
        BY <2>1, <2>3, <2>4, <3>1
      <3> QED
        BY <1>1, <2>3, <2>8, <3>2, <3>3, <3>4, <3>5, <3>6 DEF InRunOrder
    <2>13. \A s \in DOMAIN timeline : s \in DOMAIN timeline' /\ timeline'[s] = timeline[s]
      BY <2>2, <2>3
    <2>14. \A s \in DOMAIN timeline' \ DOMAIN timeline : timeline'[s].event = Key(p)
      <3>1. \A s \in 1 .. n + 1 : s \notin 1 .. n => s = n + 1
        BY <2>2
      <3> QED
        BY <2>2, <2>3, <2>4, <3>1
    <2>15. \E t \in DOMAIN timeline' : timeline'[t].event = Key(p)
      <3>1. n + 1 \in 1 .. n + 1
        BY <2>2
      <3> QED
        BY <2>3, <2>4, <3>1
    <2>16. _resolves_incident(e) => incident'.status # "open"
      BY <2>1, <2>5, <2>6
    <2>17. IsSeq(timeline') /\ incident' = [x \in {"status", "severity"} |-> incident'[x]]
      BY <2>1, <2>3, <2>5
    <2> QED
      BY <1>1, <2>1, <2>10, <2>11, <2>12, <2>13, <2>14, <2>15, <2>16, <2>17, AdvanceStep
  <1> QED
    BY <1>2, <1>3

-----------------------------------------------------------------------------
(* The invariant and what follows from it.                                   *)

\* It holds at the start.
LEMMA InitIInv ==
    ASSUME Init
    PROVE  IInv
  <1>1. IsSeq(<< >>) /\ Len(<< >>) = 0
    <2>1. << >> \in Seq({}) /\ Len(<< >>) = 0
      OBVIOUS
    <2> QED
      BY <2>1, SeqOfOwn
  <1>2. DOMAIN << >> = {}
    BY <1>1, SeqFacts
  <1>3. procs = [p \in Procs |-> procs[p]] /\ \A p \in Procs : procs[p] = Idle
    BY DEF Init
  <1>4. MaxCli[kind] \in Nat /\ budget.cli = MaxCli[kind]
    BY ValuesAssumption DEF Init
  <1>5. TypeOK
    <2>1. /\ kind \in Kinds /\ lastId = 0 /\ afterId = 0 /\ DOMAIN runs = {} /\ marked = {} /\ events = {}
          /\ incident = [x \in {"status", "severity"} |-> incident[x]]
      BY <1>2 DEF Init, NoIncident
    <2>2. IsSeq(timeline)
      BY <1>1 DEF Init
    <2>3. \A p \in Procs : IsProc(procs[p]) /\ procs[p].batch = {}
      BY <1>3, FreshProc
    <2>4. budget = [x \in {"faults", "cli"} |-> budget[x]] /\ budget.cli \in 0 .. MaxCli[kind]
      BY <1>4 DEF Init
    <2>5. afterId \in 0 .. lastId /\ lastId \in Nat
      BY <2>1
    <2> QED
      BY <1>3, <2>1, <2>2, <2>3, <2>4, <2>5 DEF TypeOK
  <1>6. \A p \in Procs : ~Applying(p) /\ procs[p].at = "idle" /\ procs[p].batch = {}
    BY <1>3, FreshProc DEF Applying, ApplyStates
  <1>7. EventsAreMarked /\ TimelineSound /\ OpeningsReachIncident /\ AppliedOnce
    BY <1>2 DEF Init, EventsAreMarked, TimelineSound, OpeningsReachIncident, AppliedOnce
  <1>8. (\A p \in Procs : ApplierSound(p) /\ WriterSound(p)) /\ AppliersApart
    BY <1>6 DEF ApplierSound, WriterSound, AppliersApart, ApplyStates
  <1>9. ServiceInOrder
    BY <1>2, <1>6 DEF Init, ServiceInOrder, AloneSound, Procs
  <1>10. InRunOrder
    BY <1>2 DEF Init, InRunOrder
  <1> QED
    BY <1>5, <1>7, <1>8, <1>9, <1>10 DEF IInv

\* Every step keeps it.
LEMMA NextIInv ==
    ASSUME IInv, [Next]_vars
    PROVE  IInv'
  <1>1. ASSUME NEW p \in Procs, Step(p)
        PROVE  IInv'
    BY <1>1, ReadStep, SaveStep, ApplyStep, SearchStep, WriteStep DEF Step
  <1>2. ASSUME NEW p \in Procs, Fail(p) \/ Crash(p)
        PROVE  IInv'
    BY <1>2, FaultStep
  <1>3. CASE UNCHANGED vars
    <2>1. UNCHANGED <<kind, runs, lastId, marked, events, incident, timeline, procs, afterId,
                      interrupted, budget>>
      BY <1>3 DEF vars
    <2>2. /\ lastId' \in Nat /\ lastId <= lastId' /\ marked' = marked \cap DOMAIN runs'
          /\ \A e \in events : e.run \in DOMAIN runs'
      BY <2>1 DEF IInv, TypeOK, EventsAreMarked
    <2> QED
      BY <2>1, <2>2, RunsStep
  <1> QED
    BY <1>1, <1>2, <1>3, SampleStep, DeleteRowsStep, DeleteRunsStep, PollStep, CommandStep DEF Next

\* The invariant holds throughout: what is stored, what a processor has read
\* and has left to apply and what is in the timeline fit together
\* (EventProcessor, IncidentEngine).
THEOREM EventInvariance == Spec => []IInv
  <1>1. Init => IInv
    BY InitIInv
  <1>2. IInv /\ [Next]_vars => IInv'
    BY NextIInv
  <1> QED
    BY <1>1, <1>2, PTL DEF Spec

\* No event but a recovery beside the command is applied to the incidents twice,
\* and only the first transition opens the incident, whatever crashes, is
\* retried, deleted or run beside the service (process_run, save_processed_run,
\* apply_event).
THEOREM EventsAreAppliedOnce == Spec => []AppliedOnce
  <1>1. IInv => AppliedOnce
    BY DEF IInv
  <1> QED
    BY <1>1, EventInvariance, PTL

\* An opening reaches the timeline unless its processor is still at it or was
\* stopped between the commit and the incidents (IncidentEngine.apply).
THEOREM OpeningsAreNotLost == Spec => []OpeningsReachIncident
  <1>1. IInv => OpeningsReachIncident
    BY DEF IInv
  <1> QED
    BY <1>1, EventInvariance, PTL

\* As long as no command runs, the incidents see the events in the order of the
\* runs and the timeline has no gap; beside it a transition still starts from a
\* state the incident has had (EventRunner.run, apply_event).
THEOREM IncidentsFollowTheRuns == Spec => []InRunOrder
  <1>1. IInv => InRunOrder
    BY DEF IInv
  <1> QED
    BY <1>1, EventInvariance, PTL
=============================================================================
