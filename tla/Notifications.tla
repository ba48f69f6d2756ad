---------------------------- MODULE Notifications ----------------------------
(***************************************************************************)
(* From incident transitions to messages at a provider.  Each notification *)
(* service runs one loop: project the transitions that carry no marker     *)
(* into notifications (one decision per policy and channel, each in its    *)
(* own transaction, the marker last), then deliver one due notification    *)
(* (lease, send outside any transaction, record the outcome).  Two         *)
(* services may run, as during a restart, and either can crash anywhere.   *)
(* The repository reads before it opens its write transaction, so a        *)
(* decision, a claim and an operator's command act on what they read.      *)
(*                                                                         *)
(* Timestamps are kept relative to now: as an age, up to the age at which  *)
(* retention takes the row, or as the time left.                           *)
(***************************************************************************)
EXTENDS Integers, Sequences, FiniteSets, FiniteSetsExt

CONSTANTS Workers, Operators,
          Transitions, Policies,   \* records, in table and in configuration order
          Channels,                \* channel -> settings
          GlobalMax, GlobalWindow, LeaseSeconds, RetentionSeconds, BackoffCap,
          ProjectLimit,            \* transitions a pass asks for
          Budgets                  \* bounds: transitions, faults and commands of a behaviour

VARIABLES
  emitted,      \* how many incident transitions exist
  projected,    \* notification_projection_runs
  notes,        \* notifications and their deliveries, by identity
  suppressions, \* notification_suppressions
  dedup,        \* notification_dedup, by scope
  attempts,     \* notification_attempts: the delivery, the number stored, the claim that stored it
  worker,       \* the services' local state
  command,      \* the operators' command in progress
  retired,      \* history: identities whose rows retention deleted
  left          \* transitions, faults and operator commands left

vars == <<emitted, projected, notes, suppressions, dedup, attempts, worker, command,
          retired, left>>

Oldest == RetentionSeconds + 1
Older(age) == IF age < Oldest THEN age + 1 ELSE Oldest

\* What the configuration's validation requires; and retention is counted in
\* days, windows and cooldowns in seconds.
ASSUME ConfigurationAssumption ==
  /\ DOMAIN Policies \subseteq Nat /\ Len(Transitions) \in Nat
  /\ \A p \in DOMAIN Policies :
       /\ DOMAIN Policies[p].channels \subseteq Nat
       /\ Policies[p].window_seconds \in 1 .. RetentionSeconds
       /\ Policies[p].cooldown_seconds \in 0 .. RetentionSeconds
       /\ Policies[p].max_notifications \in Nat \ {0}
  /\ \A c \in DOMAIN Channels : Channels[c].max_attempts \in Nat \ {0}
  /\ GlobalWindow \in 0 .. RetentionSeconds /\ GlobalMax \in Nat
  /\ RetentionSeconds \in Nat /\ LeaseSeconds \in Nat /\ ProjectLimit \in Nat \ {0}

ASSUME BudgetsAssumption ==
  Budgets \subseteq [transitions : 0 .. Len(Transitions), faults : Nat, commands : Nat]

(* ------------------------------- policies ------------------------------ *)

identity_key(p, c, t) == [policy |-> p, channel |-> c, transition |-> t]

\* The projector's nested loops: a policy and a place in its list of channels;
\* a channel that is not configured is skipped.
Routes ==
  UNION {{[policy |-> p, place |-> i] :
            i \in {j \in DOMAIN Policies[p].channels : Policies[p].channels[j] \in DOMAIN Channels}} :
         p \in DOMAIN Policies}

Channel(r) == Policies[r.policy].channels[r.place]
route_key(r, t) == identity_key(r.policy, Channel(r), t)

\* The order of the loops.
Before(r, s) == r.policy < s.policy \/ (r.policy = s.policy /\ r.place <= s.place)
First(routes) == CHOOSE r \in routes : \A s \in routes : Before(r, s)

\* What the policy makes of a transition; the filters on event type, resource
\* type and project are one set of kinds, empty when nothing is filtered.
evaluate(p, t) ==
  LET policy == Policies[p]
      tr == Transitions[t]
  IN /\ policy.enabled
     /\ tr.trigger \in policy.transitions
     /\ tr.trigger = "recovered" => policy.notify_recovery
     /\ tr.trigger = "acknowledged" => policy.notify_acknowledgement
     /\ tr.trigger = "updated" => policy.notify_updates
     /\ tr.severity >= policy.minimum_severity
     /\ policy.kinds = {} \/ tr.kind \in policy.kinds

(* ------------------------------ decisions ------------------------------ *)

Scope(p, c, t) ==
  <<IF Transitions[t].trigger = "recovered" THEN "recovery" ELSE "incident", p, c, Transitions[t].incident>>

NoState == [last |-> Oldest, start |-> Oldest, count |-> 0, updated |-> 0]
State(key) == IF key \in DOMAIN dedup THEN dedup[key] ELSE NoState
With(f, k, v) == [j \in DOMAIN f \cup {k} |-> IF j = k THEN v ELSE f[j]]

\* The windows a decision is counted in, with their length and limit.
Windows(p, c) ==
  {[key |-> <<"channel", c>>, length |-> Policies[p].window_seconds, max |-> Policies[p].max_notifications]}
  \cup IF GlobalWindow > 0 /\ GlobalMax > 0
       THEN {[key |-> <<"global">>, length |-> GlobalWindow, max |-> GlobalMax]} ELSE {}

Current(w) == State(w.key).start < w.length
WindowCount(w) == IF Current(w) THEN State(w.key).count ELSE 0

\* Mutant of Cooling: the cooldown ends a second early.
CoolingShort(p, c, t) == State(Scope(p, c, t)).last + 1 < Policies[p].cooldown_seconds
Cooling(p, c, t) == State(Scope(p, c, t)).last < Policies[p].cooldown_seconds

Suppressed(id) == \E s \in suppressions : s.id = id
Suppress(id, reason) ==
  suppressions' = suppressions \cup IF \E s \in suppressions : s.id = id /\ s.reason = reason
                                    THEN {} ELSE {[id |-> id, reason |-> reason, age |-> 0]}

\* The windows that are full.
Full(p, c) == {w \in Windows(p, c) : WindowCount(w) >= w.max}

\* evaluate and the checks of create_decision, made before its first write; the
\* channel's window is looked at before the global one.
Decision(p, c, t) ==
  LET id == identity_key(p, c, t)
  IN IF ~(evaluate(p, t) /\ Channels[c].enabled) THEN "policy"
     ELSE IF id \in DOMAIN notes THEN "duplicate"
     ELSE IF Suppressed(id) THEN "seen"
     ELSE IF Cooling(p, c, t) THEN "cooldown"
     ELSE IF \E w \in Full(p, c) : w.key # <<"global">> THEN "rate_limit"
     ELSE IF Full(p, c) # {} THEN "global_limit"
     ELSE "insert"

Pending == [note |-> "pending", delivery |-> "pending", age |-> 0, wait |-> 0, attempts |-> 0,
            expiries |-> 0, manual |-> 0, lease |-> -1, token |-> 0]

\* The dedup rows after a notification, from the rows as they are in the
\* transaction.
Counted(p, c, t) ==
  LET touched == {w.key : w \in Windows(p, c)}
      window(k) == CHOOSE w \in Windows(p, c) : w.key = k
  IN [k \in DOMAIN dedup \cup touched \cup {Scope(p, c, t)} |->
        IF k \in touched
        THEN [State(k) EXCEPT !.start = IF Current(window(k)) THEN @ ELSE 0,
                              !.count = WindowCount(window(k)) + 1, !.updated = 0]
        ELSE IF k = Scope(p, c, t) THEN [State(k) EXCEPT !.last = 0, !.updated = 0] ELSE dedup[k]]

\* A suppression keeps the row of the scope that caused it from retention.
Touched(p, c, t, d) ==
  CASE d = "cooldown" -> With(dedup, Scope(p, c, t), [State(Scope(p, c, t)) EXCEPT !.updated = 0])
    [] d = "rate_limit" -> With(dedup, <<"channel", c>>, [State(<<"channel", c>>) EXCEPT !.updated = 0])
    [] d = "global_limit" -> With(dedup, <<"global">>, [State(<<"global">>) EXCEPT !.updated = 0])
    [] OTHER -> dedup

(* ------------------------------ projector ------------------------------ *)

Fresh == [at |-> "fetch", todo |-> {}, routes |-> {}, decision |-> "none", id |-> << >>, token |-> 0, outcome |-> "none"]

\* Mutant of AfterRoute: the first decision marks the transition.
EarlyAfterRoute(w) == [worker[w] EXCEPT !.at = "mark", !.decision = "none"]

\* The transition and the route the projector is at.
Transition(w) == Min(worker[w].todo)
Route(w) == First(worker[w].routes)

\* A transition's loops, which may have nothing to visit.
Begin(todo) == [Fresh EXCEPT !.at = IF Routes = {} THEN "mark" ELSE "decide", !.todo = todo, !.routes = Routes]

\* Where the projector goes after a decision and after a marker.
AfterRoute(w) ==
  LET rest == worker[w].routes \ {Route(w)}
  IN [worker[w] EXCEPT !.at = IF rest = {} THEN "mark" ELSE "decide", !.decision = "none", !.routes = rest]
AfterMark(w) ==
  LET rest == worker[w].todo \ {Transition(w)}
  IN IF rest = {} THEN [Fresh EXCEPT !.at = "pick"] ELSE Begin(rest)

get_unprojected_transitions(w) ==
  LET open == (1 .. emitted) \ projected
      first == {t \in open : Cardinality({u \in open : u < t}) < ProjectLimit}
  IN /\ worker[w].at = "fetch"
     /\ open # {}
     /\ worker' = [worker EXCEPT ![w] = Begin(first)]
     /\ UNCHANGED <<emitted, projected, notes, suppressions, dedup, attempts, command, retired, left>>

Decide(w) ==
  LET r == Route(w)
  IN /\ worker[w].at = "decide"
     /\ worker' = [worker EXCEPT ![w].at = "commit", ![w].decision = Decision(r.policy, Channel(r), Transition(w))]
     /\ UNCHANGED <<emitted, projected, notes, suppressions, dedup, attempts, command, retired, left>>

\* record_suppression, or create_decision from its first write on: the unique
\* identity decides between two services that both found none.
create_decision(w) ==
  LET r == Route(w)
      t == Transition(w)
      id == route_key(r, t)
      d == worker[w].decision
  IN
  /\ worker[w].at = "commit"
  /\ \/ /\ d = "insert" /\ id \notin DOMAIN notes
        /\ notes' = With(notes, id, Pending)
        /\ dedup' = Counted(r.policy, Channel(r), t)
        /\ UNCHANGED suppressions
     \/ /\ d = "seen"
        /\ UNCHANGED <<notes, dedup, suppressions>>
     \/ /\ d \notin {"insert", "seen"} \/ (d = "insert" /\ id \in DOMAIN notes)
        /\ Suppress(id, CASE d = "insert" -> "duplicate" [] d = "global_limit" -> "rate_limit" [] OTHER -> d)
        /\ dedup' = Touched(r.policy, Channel(r), t, d)
        /\ UNCHANGED <<notes>>
  /\ worker' = [worker EXCEPT ![w] = AfterRoute(w)]
  /\ UNCHANGED <<emitted, projected, attempts, command, retired, left>>

mark_projected(w) ==
  /\ worker[w].at = "mark"
  /\ projected' = projected \cup {Transition(w)}
  /\ worker' = [worker EXCEPT ![w] = AfterMark(w)]
  /\ UNCHANGED <<emitted, notes, suppressions, dedup, attempts, command, retired, left>>

(* ------------------------------- delivery ------------------------------ *)

\* Mutant of Expired: a message that was being sent is left alone.
NeverExpired(n) == FALSE
Expired(n) == n.delivery = "sending" /\ n.note = "sending" /\ n.lease < 0
Due(n) == n.wait = 0 /\ (Expired(n) \/ (n.delivery = "pending" /\ n.note = "pending"))

\* claim_due's query, after a projection pass or when there is nothing to
\* project; which due row comes first is left open.
Pick(w) ==
  LET due == {i \in DOMAIN notes : Due(notes[i])}
  IN
  /\ \/ worker[w].at = "pick"
     \/ worker[w].at = "fetch" /\ 1 .. emitted \subseteq projected /\ due # {}
  /\ \/ /\ due = {}
        /\ worker' = [worker EXCEPT ![w] = Fresh]
     \/ \E i \in due :
          worker' = [worker EXCEPT ![w] = [Fresh EXCEPT !.at = "claim", !.id = i, !.outcome = notes[i].delivery]]
  /\ UNCHANGED <<emitted, projected, notes, suppressions, dedup, attempts, command, retired, left>>

\* claim_due's updates: the status that was read must still be there.
claim_due(w) ==
  LET i == worker[w].id
      n == notes[i]
      expired == worker[w].outcome = "sending"
      claimable == i \in DOMAIN notes /\ n.delivery = worker[w].outcome /\ (expired => n.lease < 0)
  IN
  /\ worker[w].at = "claim"
  /\ \/ /\ ~claimable
        /\ worker' = [worker EXCEPT ![w] = Fresh]
        /\ UNCHANGED notes
     \/ /\ claimable
        /\ notes' = [notes EXCEPT ![i] = [n EXCEPT !.delivery = "sending",
                                                   !.note = IF @ \in {"pending", "sending"} THEN "sending" ELSE @,
                                                   !.lease = LeaseSeconds, !.attempts = @ + 1, !.token = n.attempts + 1,
                                                   !.expiries = @ + IF expired THEN 1 ELSE 0]]
        /\ worker' = [worker EXCEPT ![w] = [Fresh EXCEPT !.at = "send", !.id = i, !.token = n.attempts + 1]]
  /\ UNCHANGED <<emitted, projected, suppressions, dedup, attempts, command, retired, left>>

\* The adapter's answer: sent; a failure worth a retry (5xx, or an exception);
\* a final failure (4xx, no destination, channel disabled meanwhile); unknown
\* (the network gave no answer).
Outcomes == {"sent", "retry", "failed", "unknown"}
send(w) ==
  /\ worker[w].at = "send"
  /\ \E o \in Outcomes :
       worker' = [worker EXCEPT ![w].at = "finish", ![w].outcome = o]
  /\ UNCHANGED <<emitted, projected, notes, suppressions, dedup, attempts, command, retired, left>>

Backoff(n) == Min({BackoffCap, 2 ^ (n - 1)})

Exhausted(n, id) == n.attempts >= Channels[id.channel].max_attempts

\* Mutant of Owned: any service may record the outcome.
AnyOwned(w, n) == n.delivery = "sending"
Owned(w, n) == n.delivery = "sending" /\ n.token = worker[w].token

\* The attempt's number is the delivery's, not the caller's.
finish_delivery(w) ==
  LET i == worker[w].id
      n == notes[i]
      o == worker[w].outcome
      again == o = "retry" /\ ~Exhausted(n, i)
      status == CASE again -> "pending" [] o = "retry" -> "failed" [] OTHER -> o
  IN
  /\ worker[w].at = "finish"
  /\ worker' = [worker EXCEPT ![w] = Fresh]
  /\ IF i \in DOMAIN notes /\ Owned(w, n)
     THEN /\ notes' = [notes EXCEPT ![i] = [n EXCEPT !.delivery = status, !.note = status, !.lease = -1, !.token = 0,
                                                     !.wait = IF again THEN Backoff(n.attempts) ELSE 0]]
          /\ attempts' = attempts \cup {[id |-> i, number |-> n.attempts, claim |-> worker[w].token]}
     ELSE UNCHANGED <<notes, attempts>>
  /\ UNCHANGED <<emitted, projected, suppressions, dedup, command, retired, left>>

(* ----------------------- operators and retention ----------------------- *)

NoCommand == [what |-> "none", id |-> << >>]

\* "notifications retry" and "notifications reconcile": what they read ...
ReadStatus(o) ==
  /\ left.commands > 0
  /\ command[o] = NoCommand
  /\ \E i \in DOMAIN notes, what \in {"retry", "delivered", "not_delivered"} :
       /\ IF what = "retry" THEN notes[i].note = "failed" /\ notes[i].manual < 3 ELSE notes[i].note = "unknown"
       /\ command' = [command EXCEPT ![o] = [what |-> what, id |-> i]]
  /\ left' = [left EXCEPT !.commands = @ - 1]
  /\ UNCHANGED <<emitted, projected, notes, suppressions, dedup, attempts, worker, retired>>

\* ... and what they write.  A row deleted meanwhile fails the command.
retry_delivery(o) ==
  LET i == command[o].id
      n == notes[i]
  IN
  /\ command[o].what = "retry"
  /\ notes' = IF i \notin DOMAIN notes THEN notes
              ELSE [notes EXCEPT ![i] =
                     IF n.delivery \in {"failed", "unknown"}
                     THEN [n EXCEPT !.delivery = "pending", !.note = "pending", !.wait = 0, !.lease = -1, !.manual = @ + 1]
                     ELSE [n EXCEPT !.note = "pending", !.manual = @ + 1]]
  /\ command' = [command EXCEPT ![o] = NoCommand]
  /\ UNCHANGED <<emitted, projected, suppressions, dedup, attempts, worker, retired, left>>

reconcile_unknown(o) ==
  LET i == command[o].id
      status == IF command[o].what = "delivered" THEN "sent" ELSE "failed"
  IN
  /\ command[o].what \in {"delivered", "not_delivered"}
  /\ notes' = IF i \notin DOMAIN notes THEN notes
              ELSE [notes EXCEPT ![i] = [@ EXCEPT !.delivery = status, !.note = status, !.lease = -1, !.wait = 0]]
  /\ command' = [command EXCEPT ![o] = NoCommand]
  /\ UNCHANGED <<emitted, projected, suppressions, dedup, attempts, worker, retired, left>>

\* An incident is live until its last transition so far is a recovery.
IncidentLive(i) ==
  \E t \in 1 .. emitted :
    /\ Transitions[t].incident = i /\ Transitions[t].trigger # "recovered"
    /\ \A u \in t + 1 .. emitted : Transitions[u].incident # i

Kept(id) == IncidentLive(Transitions[id.transition].incident)

Retired == {i \in DOMAIN notes : notes[i].age = Oldest /\ notes[i].note \notin {"pending", "sending", "unknown"} /\ ~Kept(i)}

\* retain, from the service's hourly pass or the command line: one transaction.
retain ==
  LET gone == Retired
      old == {s \in suppressions : s.age = Oldest /\ ~Kept(s.id)}
      stale == {k \in DOMAIN dedup : dedup[k].updated = Oldest}
  IN
  /\ gone # {} \/ old # {} \/ stale # {}
  /\ notes' = [i \in DOMAIN notes \ gone |-> notes[i]]
  /\ attempts' = {a \in attempts : a.id \notin gone}
  /\ suppressions' = suppressions \ old
  /\ dedup' = [k \in DOMAIN dedup \ stale |-> dedup[k]]
  /\ retired' = retired \cup gone \cup {s.id : s \in old}
  /\ UNCHANGED <<emitted, projected, worker, command, left>>

(* ------------------------------ the system ----------------------------- *)

\* The incident engine adds a transition.
Emit ==
  /\ left.transitions > 0
  /\ emitted' = emitted + 1
  /\ left' = [left EXCEPT !.transitions = @ - 1]
  /\ UNCHANGED <<projected, notes, suppressions, dedup, attempts, worker, command, retired>>

\* Time passes while a message is sent, while a service is down and between two
\* passes; a projection pass and a repository call are short beside the windows.
\* A send outlives its lease only as a fault: leases are longer than timeouts.
Sending(w) == worker[w].at \in {"send", "finish"} /\ worker[w].id \in DOMAIN notes /\ notes[worker[w].id].token = worker[w].token
Lapsing(w) == Sending(w) /\ notes[worker[w].id].lease = 0

Tick ==
  /\ LET lapses == Cardinality({w \in Workers : Lapsing(w)})
     IN lapses <= left.faults /\ left' = [left EXCEPT !.faults = @ - lapses]
  /\ \A w \in Workers : worker[w].at \in {"fetch", "pick", "send", "finish"}
  /\ \A o \in Operators : command[o] = NoCommand
  /\ notes' = [i \in DOMAIN notes |-> [notes[i] EXCEPT !.age = Older(@), !.wait = IF @ > 0 THEN @ - 1 ELSE 0,
                                                       !.lease = IF @ >= 0 THEN @ - 1 ELSE @]]
  /\ suppressions' = {[s EXCEPT !.age = Older(@)] : s \in suppressions}
  /\ dedup' = [k \in DOMAIN dedup |-> [dedup[k] EXCEPT !.last = Older(@), !.start = Older(@), !.updated = Older(@)]]
  /\ UNCHANGED <<emitted, projected, attempts, worker, command, retired>>

Crash(w) ==
  /\ left.faults > 0
  /\ worker[w].at # "fetch"
  /\ worker' = [worker EXCEPT ![w] = Fresh]
  /\ left' = [left EXCEPT !.faults = @ - 1]
  /\ UNCHANGED <<emitted, projected, notes, suppressions, dedup, attempts, command, retired>>

Init ==
  /\ emitted = 0 /\ projected = {} /\ notes = << >> /\ suppressions = {} /\ dedup = << >> /\ attempts = {}
  /\ worker = [w \in Workers |-> Fresh]
  /\ command = [o \in Operators |-> NoCommand]
  /\ retired = {}
  /\ left \in Budgets

Loop(w) ==
  \/ get_unprojected_transitions(w) \/ Decide(w) \/ create_decision(w) \/ mark_projected(w)
  \/ Pick(w) \/ claim_due(w) \/ send(w) \/ finish_delivery(w)
Operate(o) == ReadStatus(o) \/ retry_delivery(o) \/ reconcile_unknown(o)

Next ==
  \/ Emit \/ Tick \/ retain
  \/ \E w \in Workers : Loop(w) \/ Crash(w)
  \/ \E o \in Operators : Operate(o)

\* The services loop and are restarted, and time passes.
Spec == Init /\ [][Next]_vars /\ WF_vars(Tick) /\ \A w \in Workers : WF_vars(Loop(w))
        /\ \A o \in Operators : WF_vars(retry_delivery(o) \/ reconcile_unknown(o))

(* ------------------------------ properties ----------------------------- *)

\* Every outcome stored for an attempt is what the send of that very claim met,
\* though leases expire, owners finish late and the number is read from the
\* delivery when the outcome is stored (finish_delivery, claim_due); a message
\* that is being sent has no outcome under its number yet, so that the unique
\* number refuses none; and a delivery is claimed at most max_attempts times,
\* plus once for every lease that expired and every retry an operator asked for
\* (retry_delivery).
AttemptsAreTruthful ==
  /\ \A a \in attempts : a.number = a.claim
  /\ \A a \in attempts :
       a.id \in DOMAIN notes /\ (notes[a.id].delivery = "sending" => a.number < notes[a.id].attempts)
  /\ \A i \in DOMAIN notes :
       notes[i].attempts <= Channels[i.channel].max_attempts + notes[i].expiries + notes[i].manual

\* The policies that send to a channel share its counter; each brings a length
\* and a limit of its own.  Their promise is clear when they agree.
Agree(p, c) ==
  \A q \in DOMAIN Policies :
    c \in {Policies[q].channels[i] : i \in DOMAIN Policies[q].channels} =>
      /\ Policies[q].window_seconds = Policies[p].window_seconds
      /\ Policies[q].max_notifications = Policies[p].max_notifications

\* No storm: over any stretch of window_seconds a channel gets fewer than twice
\* max_notifications, and two notifications of one policy for one incident's
\* openings, or for its recoveries, are at least the cooldown apart, with two
\* projectors, replays after a crash and retention of the counters; apart from
\* notifications retention had already deleted (create_decision).
NoStorm ==
  /\ \A p \in DOMAIN Policies, c \in DOMAIN Channels :
       Agree(p, c) =>
         Cardinality({i \in DOMAIN notes \ retired : i.channel = c /\ notes[i].age < Policies[p].window_seconds})
           < 2 * Policies[p].max_notifications
  /\ \A i, j \in DOMAIN notes \ retired :
       /\ i # j
       /\ Scope(i.policy, i.channel, i.transition) = Scope(j.policy, j.channel, j.transition)
       /\ notes[i].age <= notes[j].age /\ notes[j].age < Oldest
       => notes[j].age - notes[i].age >= Policies[i.policy].cooldown_seconds

\* Each marked transition has, for every policy and channel, a notification or a
\* suppression that says why not, until retention removes them: a crash or a
\* second service never makes a decision disappear (project_once).
DecisionsAreKept ==
  \A t \in projected, r \in Routes :
    LET id == route_key(r, t)
    IN id \in DOMAIN notes \/ Suppressed(id) \/ id \in retired

\* Again and again there is nothing left to do: every transition so far is
\* projected and every notification is sent, failed, or unknown and left to the
\* operator, through crashes and expired leases (NotificationRunner.run,
\* claim_due).
EverythingSettles ==
  []<>(/\ 1 .. emitted \subseteq projected
       /\ \A i \in DOMAIN notes : notes[i].delivery \in {"sent", "failed", "unknown"})
=============================================================================
