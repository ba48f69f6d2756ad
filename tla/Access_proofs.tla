--------------------------- MODULE Access_proofs ---------------------------
(* Proofs for Access: its safety properties hold for any number of requests, *)
(* command-line processes, sessions, registrations and restarts.             *)
EXTENDS Access, FiniteSetTheorems, SequenceTheorems, TLAPS

-----------------------------------------------------------------------------
(* The inductive invariant.                                                  *)

Positive == Nat \ {0}

Sessions ==
    {NoSession} \cup [epoch : Positive, left : Nat, idle : Nat, revoked : BOOLEAN]

\* A sequence, whatever its elements.
IsSeq(s) == Len(s) \in Nat /\ s = [i \in 1 .. Len(s) |-> s[i]]

IsDatabase(d) ==
    /\ d = [sess |-> d.sess, regs |-> d.regs, ledger |-> d.ledger]
    /\ d.sess \in [Sids -> Sessions]
    /\ d.regs \in [Rids -> {"ABSENT", "REGISTERED", "REVOKED"}]
    /\ IsSeq(d.ledger)

\* The cooldown is a power of two, for which the provers have no theory: its
\* type is left out.
IsAuth(a) ==
    /\ a = [failures |-> a.failures, cooldown |-> a.cooldown, locked |-> a.locked,
            epoch |-> a.epoch]
    /\ a.failures \in Nat /\ a.locked \in Nat /\ a.epoch \in Positive

\* What the requests of a kind can have left to do.
Accepted == {AfterAccepted, <<"session_created", "create">>, <<"create">>}

LoginTodos ==
    Accepted \cup {LoginRoute, <<"authenticate">>, <<"authentication_failure">>}

UseStages ==
    {"session", "csrf", "body", "evidence", "kill_switch_changed"}
LogoutStages == {"csrf", "closing", "session_revoked", "revoke"}
RotationStages == {"rotate_auth", "rotate_store", "revoke_all", "credential_epoch_rotated"}

Stages == UseStages \cup LogoutStages \cup RotationStages \cup AppendStages
              \cup {"authenticate", "create"}

Todos(kind) ==
    IF kind = "login" THEN LoginTodos
    ELSE IF kind \in Uses THEN Seq(UseStages)
    ELSE IF kind = "logout" THEN Seq(LogoutStages)
    ELSE IF kind = "rotate" THEN Seq(RotationStages)
    ELSE {<<>>}

Kinds == {"idle", "login", "logout", "rotate"} \cup Uses

Requests == [kind : Kinds, todo : Seq(Stages), at : {"select", "touch", "expire"},
             sid : Sids \cup {None}, epoch : Nat, late : BOOLEAN]

TypeOK ==
    /\ IsDatabase(db)
    /\ open = <<>> \/ (open = <<open[1]>> /\ IsDatabase(open[1]))
    /\ IsAuth(auth)
    /\ epoch \in Nat /\ faults \in Nat
    /\ loop \in Handlers \cup {None}
    /\ h \in [Handlers -> Requests]
    /\ cli \in [Clis -> [kind : {"idle", "revoke"}, rid : Rids \cup {None}]]
    /\ ended \subseteq Sids
    /\ guesses \in Seq(0 .. Lockout)

\* The authenticator counts the guesses, and what it no longer counts is
\* older than a lockout.
GuessesCounted ==
    /\ Len(guesses) <= MaxFailures
    /\ auth.failures < MaxFailures => Len(guesses) <= auth.failures
    /\ auth.failures >= MaxFailures =>
          \A i \in DOMAIN guesses : guesses[i] + auth.locked >= Lockout
    /\ auth.failures >= MaxFailures /\ auth.locked = 0 => guesses = <<>>

\* A session whose end was reported is revoked, also as the service sees it,
\* and a transaction left open has registered nothing.
EndsHold ==
    /\ \A s \in ended : db.sess[s].revoked /\ View.sess[s].revoked
    /\ View.regs = db.regs

\* A request has its kind's stages left, an existing session, and was let in
\* by a lookup only when its session had not ended.  A login that was accepted
\* holds the loop and a new token, and records the creation before the row.
RequestSound(r) ==
    /\ h[r].todo \in Todos(h[r].kind)
    /\ h[r].kind \in Uses \cup {"logout"} =>
          h[r].sid \in Sids /\ View.sess[h[r].sid] # NoSession
    /\ h[r].todo \in Accepted =>
          /\ loop = r /\ h[r].epoch # 0
          /\ h[r].sid \in Sids /\ View.sess[h[r].sid] = NoSession
    /\ h[r].todo = <<"create">> => Recorded("session_created", h[r].sid) # {}
    /\ h[r].late =>
          /\ h[r].kind \in Uses \cup {"logout"}
          /\ h[r].sid \in ended /\ h[r].at = "select"

RequestsSound == \A r \in Handlers : RequestSound(r)

\* A command revokes a registration that exists.
CommandsSound ==
    \A c \in Clis : cli[c].kind = "revoke" => cli[c].rid \in Rids /\ db.regs[cli[c].rid] # "ABSENT"

IInv ==
    /\ TypeOK /\ GuessesCounted /\ EndsHold /\ RequestsSound /\ CommandsSound
    /\ EvidenceIsWhole

-----------------------------------------------------------------------------
(* The ledger and the database.                                              *)

\* What Append does to any sequence.
LEMMA SeqAppend ==
    ASSUME NEW s, IsSeq(s), NEW e
    PROVE  /\ IsSeq(Append(s, e)) /\ Len(Append(s, e)) = Len(s) + 1
           /\ DOMAIN Append(s, e) = 1 .. Len(s) + 1 /\ DOMAIN s = 1 .. Len(s)
           /\ \A i \in 1 .. Len(s) : Append(s, e)[i] = s[i]
           /\ Append(s, e)[Len(s) + 1] = e
           /\ s = <<>> <=> Len(s) = 0
  <1> DEFINE S == {s[i] : i \in 1 .. Len(s)} \cup {e}
             t == Append(s, e)
  <1>1. s \in Seq(S) /\ e \in S
    BY DEF IsSeq
  <1> HIDE DEF S
  <1>2. /\ t \in Seq(S) /\ Len(t) = Len(s) + 1
        /\ \A i \in 1 .. Len(s) : t[i] = s[i]
        /\ t[Len(s) + 1] = e
    BY <1>1, AppendProperties
  <1> HIDE DEF t
  <1>3. t \in [1 .. Len(t) -> S] /\ Len(t) \in Nat
    BY <1>2
  <1>4. t = [i \in 1 .. Len(t) |-> t[i]] /\ DOMAIN t = 1 .. Len(t)
    BY <1>3
  <1>5. DOMAIN s = 1 .. Len(s) /\ (s = <<>> <=> Len(s) = 0)
    BY <1>1
  <1>6. IsSeq(t)
    BY <1>3, <1>4 DEF IsSeq
  <1> QED
    BY <1>2, <1>4, <1>5, <1>6 DEF t

\* The evidence of one kind in a database.
RecordedIn(d, type, ref) ==
    {i \in DOMAIN d.ledger : d.ledger[i].event = Event(type, ref)}

\* EvidenceIsWhole of any database.
Whole(d) ==
    /\ verify_chain(d.ledger)
    /\ \A s \in Sids : d.sess[s] # NoSession => RecordedIn(d, "session_created", s) # {}
    /\ \A x \in Rids :
          /\ Cardinality(RecordedIn(d, "registration_created", x)) =
                 IF d.regs[x] = "ABSENT" THEN 0 ELSE 1
          /\ d.regs[x] = "REVOKED" <=> RecordedIn(d, "registration_revoked", x) # {}

\* The committed database is the one the property is about.
LEMMA WholeDb == EvidenceIsWhole <=> Whole(db)
  BY DEF EvidenceIsWhole, Whole, Recorded, RecordedIn

\* Evidence appended to a chain that verifies extends it by one row.
LEMMA AppendKeepsChain ==
    ASSUME NEW d, IsDatabase(d), verify_chain(d.ledger), NEW e
    PROVE  LET f == append_in_transaction(d, e) IN
           /\ IsDatabase(f) /\ f.sess = d.sess /\ f.regs = d.regs
           /\ verify_chain(f.ledger)
           /\ \A type, ref : RecordedIn(f, type, ref) =
                  RecordedIn(d, type, ref)
                      \cup IF e = Event(type, ref) THEN {Len(d.ledger) + 1} ELSE {}
           /\ Len(d.ledger) \in Nat /\ \A type, ref : RecordedIn(d, type, ref) \subseteq 1 .. Len(d.ledger)
  <1> DEFINE l == d.ledger
             n == Len(l)
             row == [sequence |-> LastSequence(l) + 1, previous_hash |-> LastHash(l), event |-> e]
             m == Append(l, row)
             f == append_in_transaction(d, e)
  <1>1. IsSeq(l) /\ n \in Nat
    BY DEF IsDatabase, IsSeq
  <1>2. /\ IsSeq(m) /\ DOMAIN m = 1 .. n + 1 /\ DOMAIN l = 1 .. n /\ m[n + 1] = row
        /\ \A i \in 1 .. n : m[i] = l[i]
        /\ l = <<>> <=> n = 0
    BY <1>1, SeqAppend
  <1>3. f.ledger = m /\ f.sess = d.sess /\ f.regs = d.regs
        /\ f = [sess |-> f.sess, regs |-> f.regs, ledger |-> f.ledger]
    <2>1. f = [d EXCEPT !.ledger = m]
      BY DEF append_in_transaction
    <2> HIDE DEF f, m
    <2>2. f = [sess |-> d.sess, regs |-> d.regs, ledger |-> m]
      BY <2>1 DEF IsDatabase
    <2> QED
      BY <2>2
  <1> HIDE DEF m, f
  <1>4. \A i \in 1 .. n : l[i].sequence = i
    BY <1>2 DEF verify_chain
  <1>5. LastSequence(l) = n
    BY <1>1, <1>2, <1>4 DEF LastSequence
  <1>6. row.sequence = n + 1 /\ row.event = e
        /\ row.previous_hash = IF n = 0 THEN Genesis ELSE compute_event_hash(l[n])
    BY <1>2, <1>5 DEF LastHash
  <1> HIDE DEF row
  <1>7. verify_chain(m)
    <2> SUFFICES ASSUME NEW i \in 1 .. n + 1
                 PROVE  /\ m[i].sequence = i
                        /\ m[i].previous_hash =
                              IF i = 1 THEN Genesis ELSE compute_event_hash(m[i - 1])
      BY <1>2 DEF verify_chain
    <2>1. CASE i \in 1 .. n
      <3>1. i = 1 \/ i - 1 \in 1 .. n
        BY <1>1, <2>1
      <3> QED
        BY <1>2, <2>1, <3>1 DEF verify_chain
    <2>2. CASE i = n + 1
      <3>1. m[i] = row /\ (i = 1 <=> n = 0) /\ i - 1 = n /\ (n = 0 \/ n \in 1 .. n)
        BY <1>1, <1>2, <2>2
      <3> QED
        BY <1>2, <1>6, <2>2, <3>1
    <2> QED
      BY <1>1, <2>1, <2>2
  <1>8. ASSUME NEW type, NEW ref
        PROVE  /\ RecordedIn(f, type, ref) = RecordedIn(d, type, ref)
                      \cup IF e = Event(type, ref) THEN {n + 1} ELSE {}
               /\ RecordedIn(d, type, ref) \subseteq 1 .. n
    <2>1. RecordedIn(f, type, ref) = {i \in 1 .. n + 1 : m[i].event = Event(type, ref)}
      BY <1>2, <1>3 DEF RecordedIn
    <2>2. RecordedIn(d, type, ref) = {i \in 1 .. n : l[i].event = Event(type, ref)}
      BY <1>2 DEF RecordedIn
    <2> QED
      BY <1>1, <1>2, <1>6, <2>1, <2>2
  <1> QED
    BY <1>1, <1>2, <1>3, <1>7, <1>8 DEF IsDatabase, f

\* The database e that a request's transaction makes of d: no session is lost
\* or un-revoked, none but S is created, no registration changes, and the
\* ledger grows by the request's own evidence.
Follows(e, d, S) ==
    /\ IsDatabase(e) /\ e.regs = d.regs
    /\ \A s \in Sids : d.sess[s] # NoSession => e.sess[s] # NoSession
    /\ \A s \in Sids \ S : d.sess[s] = NoSession => e.sess[s] = NoSession
    /\ \A s \in Sids : d.sess[s].revoked => e.sess[s].revoked
    /\ verify_chain(e.ledger)
    /\ \A s \in Sids : RecordedIn(d, "session_created", s) \subseteq RecordedIn(e, "session_created", s)
    /\ \A x \in Rids :
          /\ RecordedIn(e, "registration_created", x) = RecordedIn(d, "registration_created", x)
          /\ RecordedIn(e, "registration_revoked", x) = RecordedIn(d, "registration_revoked", x)

\* Such a transaction keeps the evidence whole when the sessions it creates
\* are recorded already.
LEMMA FollowsWhole ==
    ASSUME NEW d, NEW e, NEW S, Whole(d), Follows(e, d, S),
           \A s \in S : RecordedIn(d, "session_created", s) # {}
    PROVE  Whole(e)
  <1>1. ASSUME NEW s \in Sids, e.sess[s] # NoSession
        PROVE  RecordedIn(e, "session_created", s) # {}
    <2>1. RecordedIn(d, "session_created", s) # {}
      BY <1>1 DEF Whole, Follows
    <2> QED
      BY <2>1 DEF Follows
  <1> QED
    BY <1>1 DEF Whole, Follows

\* A transaction that changes sessions only.
LEMMA SessionsFollow ==
    ASSUME NEW d, IsDatabase(d), verify_chain(d.ledger), NEW S, NEW f \in [Sids -> Sessions],
           \A s \in Sids : d.sess[s] # NoSession => f[s] # NoSession,
           \A s \in Sids \ S : d.sess[s] = NoSession => f[s] = NoSession,
           \A s \in Sids : d.sess[s].revoked => f[s].revoked
    PROVE  Follows([d EXCEPT !.sess = f], d, S)
  <1> DEFINE e == [d EXCEPT !.sess = f]
  <1>1. e = [sess |-> f, regs |-> d.regs, ledger |-> d.ledger]
    BY DEF IsDatabase
  <1>2. e.sess = f /\ e.regs = d.regs /\ e.ledger = d.ledger
    BY <1>1
  <1>3. IsDatabase(e)
    BY <1>1, <1>2 DEF IsDatabase
  <1>4. \A type, ref : RecordedIn(e, type, ref) = RecordedIn(d, type, ref)
    BY <1>2 DEF RecordedIn
  <1> HIDE DEF e
  <1>5. Follows(e, d, S)
    BY <1>2, <1>3, <1>4 DEF Follows
  <1> QED
    BY <1>5 DEF e

\* A transaction that appends evidence of a session, or of something else.
LEMMA EvidenceFollows ==
    ASSUME NEW d, IsDatabase(d), verify_chain(d.ledger), NEW type, NEW ref,
           type \in {"session_created", "other"}
    PROVE  /\ Follows(append_in_transaction(d, Event(type, ref)), d, {})
           /\ RecordedIn(append_in_transaction(d, Event(type, ref)), type, ref) # {}
  <1> DEFINE e == append_in_transaction(d, Event(type, ref))
  <1>1. /\ IsDatabase(e) /\ e.sess = d.sess /\ e.regs = d.regs /\ verify_chain(e.ledger)
        /\ \A t, x : RecordedIn(e, t, x) = RecordedIn(d, t, x)
              \cup IF Event(type, ref) = Event(t, x) THEN {Len(d.ledger) + 1} ELSE {}
    BY AppendKeepsChain
  <1>2. \A x : /\ Event(type, ref) # Event("registration_created", x)
               /\ Event(type, ref) # Event("registration_revoked", x)
    BY DEF Event
  <1> HIDE DEF e
  <1>a. ASSUME NEW t, NEW x, Event(type, ref) # Event(t, x)
        PROVE  RecordedIn(e, t, x) = RecordedIn(d, t, x)
    <2>1. RecordedIn(e, t, x) = RecordedIn(d, t, x) \cup {}
      BY <1>1, <1>a
    <2> QED
      BY <2>1
  <1>b. \A x : RecordedIn(d, "session_created", x) \subseteq RecordedIn(e, "session_created", x)
    BY <1>1
  <1>3. Follows(e, d, {})
    BY <1>1, <1>2, <1>a, <1>b DEF Follows
  <1>4. RecordedIn(e, type, ref) # {}
    BY <1>1
  <1> QED
    BY <1>3, <1>4 DEF e

\* Evidence that is missing, or there once.
LEMMA RecordedOnce ==
    ASSUME NEW d, IsDatabase(d), NEW type, NEW ref
    PROVE  /\ Cardinality(RecordedIn(d, type, ref)) = 0 <=> RecordedIn(d, type, ref) = {}
           /\ \A i : Cardinality({i}) = 1
  <1>1. RecordedIn(d, type, ref) \subseteq 1 .. Len(d.ledger) /\ Len(d.ledger) \in Nat
    <2>1. IsSeq(d.ledger)
      BY DEF IsDatabase
    <2> QED
      BY <2>1, SeqAppend DEF IsSeq, RecordedIn
  <1>2. IsFiniteSet(RecordedIn(d, type, ref))
    <2>1. IsFiniteSet(1 .. Len(d.ledger))
      BY <1>1, FS_Interval
    <2> QED
      BY <1>1, <2>1, FS_Subset
  <1>3. Cardinality(RecordedIn(d, type, ref)) = 0 <=> RecordedIn(d, type, ref) = {}
    BY <1>2, FS_EmptySet
  <1> QED
    BY <1>3, FS_Singleton

\* A registration and its evidence are saved in one transaction.
LEMMA SaveWhole ==
    ASSUME NEW d, IsDatabase(d), Whole(d), NEW rid \in Rids, d.regs[rid] = "ABSENT"
    PROVE  /\ IsDatabase(save(d, rid)) /\ Whole(save(d, rid))
           /\ save(d, rid).sess = d.sess
           /\ save(d, rid).regs = [d.regs EXCEPT ![rid] = "REGISTERED"]
           /\ \A s : RecordedIn(save(d, rid), "session_created", s)
                        = RecordedIn(d, "session_created", s)
  <1> DEFINE f == [d EXCEPT !.regs[rid] = "REGISTERED"]
             e == append_in_transaction(f, created_event(rid))
  <1>1. f = [sess |-> d.sess, regs |-> [d.regs EXCEPT ![rid] = "REGISTERED"], ledger |-> d.ledger]
    BY DEF IsDatabase
  <1>2. /\ IsDatabase(f) /\ verify_chain(f.ledger) /\ f.sess = d.sess
        /\ f.regs = [d.regs EXCEPT ![rid] = "REGISTERED"] /\ f.ledger = d.ledger
    BY <1>1 DEF IsDatabase, Whole
  <1> HIDE DEF f
  <1>3. /\ IsDatabase(e) /\ e.sess = f.sess /\ e.regs = f.regs /\ verify_chain(e.ledger)
        /\ \A t, x : RecordedIn(e, t, x) = RecordedIn(f, t, x)
              \cup IF created_event(rid) = Event(t, x) THEN {Len(f.ledger) + 1} ELSE {}
    BY <1>2, AppendKeepsChain
  <1>4. \A t, x : RecordedIn(f, t, x) = RecordedIn(d, t, x)
    BY <1>2 DEF RecordedIn
  <1> HIDE DEF e
  <1>5. ASSUME NEW t, NEW x, <<t, x>> # <<"registration_created", rid>>
        PROVE  RecordedIn(e, t, x) = RecordedIn(d, t, x)
    <2>1. created_event(rid) # Event(t, x)
      BY <1>5 DEF created_event, Event
    <2>2. RecordedIn(e, t, x) = RecordedIn(f, t, x) \cup {}
      BY <1>3, <2>1
    <2> QED
      BY <1>4, <2>2
  <1>6. RecordedIn(d, "registration_created", rid) = {}
    BY RecordedOnce DEF Whole
  <1>7. RecordedIn(e, "registration_created", rid) = {Len(f.ledger) + 1}
    BY <1>3, <1>4, <1>6 DEF created_event
  <1>8. Cardinality(RecordedIn(e, "registration_created", rid)) = 1
    BY <1>7, FS_Singleton
  <1>9. ASSUME NEW x \in Rids
        PROVE  /\ Cardinality(RecordedIn(e, "registration_created", x)) =
                      IF e.regs[x] = "ABSENT" THEN 0 ELSE 1
               /\ e.regs[x] = "REVOKED" <=> RecordedIn(e, "registration_revoked", x) # {}
    <2>1. d.regs \in [Rids -> {"ABSENT", "REGISTERED", "REVOKED"}]
      BY DEF IsDatabase
    <2>2. RecordedIn(e, "registration_revoked", x) = RecordedIn(d, "registration_revoked", x)
      BY <1>5
    <2>3. CASE x = rid
      BY <1>2, <1>3, <1>8, <2>1, <2>2, <2>3 DEF Whole
    <2>4. CASE x # rid
      <3>1. RecordedIn(e, "registration_created", x) = RecordedIn(d, "registration_created", x)
        BY <1>5, <2>4
      <3> QED
        BY <1>2, <1>3, <2>1, <2>2, <2>4, <3>1 DEF Whole
    <2> QED
      BY <2>3, <2>4
  <1>10. \A s : RecordedIn(e, "session_created", s) = RecordedIn(d, "session_created", s)
    BY <1>5
  <1>11. Whole(e)
    BY <1>2, <1>3, <1>9, <1>10 DEF Whole
  <1>12. save(d, rid) = e
    BY DEF save, e, f
  <1> QED
    BY <1>2, <1>3, <1>10, <1>11, <1>12

\* So are a revocation and its evidence, also when the row was revoked before.
LEMMA UpdateWhole ==
    ASSUME NEW d, IsDatabase(d), Whole(d), NEW rid \in Rids, d.regs[rid] # "ABSENT"
    PROVE  /\ IsDatabase(update_status(d, rid)) /\ Whole(update_status(d, rid))
           /\ update_status(d, rid).sess = d.sess
           /\ update_status(d, rid).regs = [d.regs EXCEPT ![rid] = "REVOKED"]
           /\ \A s : RecordedIn(update_status(d, rid), "session_created", s)
                        = RecordedIn(d, "session_created", s)
  <1> DEFINE f == [d EXCEPT !.regs[rid] = "REVOKED"]
             e == append_in_transaction(f, status_change_event(rid))
  <1>1. f = [sess |-> d.sess, regs |-> [d.regs EXCEPT ![rid] = "REVOKED"], ledger |-> d.ledger]
    BY DEF IsDatabase
  <1>2. /\ IsDatabase(f) /\ verify_chain(f.ledger) /\ f.sess = d.sess
        /\ f.regs = [d.regs EXCEPT ![rid] = "REVOKED"] /\ f.ledger = d.ledger
    BY <1>1 DEF IsDatabase, Whole
  <1> HIDE DEF f
  <1>3. /\ IsDatabase(e) /\ e.sess = f.sess /\ e.regs = f.regs /\ verify_chain(e.ledger)
        /\ \A t, x : RecordedIn(e, t, x) = RecordedIn(f, t, x)
              \cup IF status_change_event(rid) = Event(t, x) THEN {Len(f.ledger) + 1} ELSE {}
    BY <1>2, AppendKeepsChain
  <1>4. \A t, x : RecordedIn(f, t, x) = RecordedIn(d, t, x)
    BY <1>2 DEF RecordedIn
  <1> HIDE DEF e
  <1>5. ASSUME NEW t, NEW x, <<t, x>> # <<"registration_revoked", rid>>
        PROVE  RecordedIn(e, t, x) = RecordedIn(d, t, x)
    <2>1. status_change_event(rid) # Event(t, x)
      BY <1>5 DEF status_change_event, Event
    <2>2. RecordedIn(e, t, x) = RecordedIn(f, t, x) \cup {}
      BY <1>3, <2>1
    <2> QED
      BY <1>4, <2>2
  <1>6. RecordedIn(e, "registration_revoked", rid) # {}
    BY <1>3 DEF status_change_event
  <1>7. ASSUME NEW x \in Rids
        PROVE  /\ Cardinality(RecordedIn(e, "registration_created", x)) =
                      IF e.regs[x] = "ABSENT" THEN 0 ELSE 1
               /\ e.regs[x] = "REVOKED" <=> RecordedIn(e, "registration_revoked", x) # {}
    <2>1. d.regs \in [Rids -> {"ABSENT", "REGISTERED", "REVOKED"}]
      BY DEF IsDatabase
    <2>2. RecordedIn(e, "registration_created", x) = RecordedIn(d, "registration_created", x)
      BY <1>5
    <2>3. CASE x = rid
      BY <1>2, <1>3, <1>6, <2>1, <2>2, <2>3 DEF Whole
    <2>4. CASE x # rid
      <3>1. RecordedIn(e, "registration_revoked", x) = RecordedIn(d, "registration_revoked", x)
        BY <1>5, <2>4
      <3> QED
        BY <1>2, <1>3, <2>1, <2>2, <2>4, <3>1 DEF Whole
    <2> QED
      BY <2>3, <2>4
  <1>8. \A s : RecordedIn(e, "session_created", s) = RecordedIn(d, "session_created", s)
    BY <1>5
  <1>9. Whole(e)
    BY <1>2, <1>3, <1>7, <1>8 DEF Whole
  <1>10. update_status(d, rid) = e
    BY DEF update_status, e, f
  <1> QED
    BY <1>2, <1>3, <1>8, <1>9, <1>10

-----------------------------------------------------------------------------
(* Requests.                                                                 *)

\* What the next stage says about the kind of the request.
LEMMA StageKinds ==
    ASSUME NEW r \in Handlers, TypeOK, RequestSound(r), h[r].todo # <<>>
    PROVE  LET s == Head(h[r].todo) IN
           /\ h[r].kind \in Kinds \ {"idle"}
           /\ h[r].kind \in Uses => s \in UseStages
           /\ h[r].kind = "logout" => s \in LogoutStages
           /\ h[r].kind = "rotate" => s \in RotationStages
           /\ h[r].kind = "login" =>
                 s \in {"body", "authenticate", "authentication_failure",
                        "authentication_success", "session_created", "create"}
  <1>1. h[r].kind \in Kinds /\ h[r].todo \in Todos(h[r].kind)
    BY DEF TypeOK, Requests, RequestSound
  <1>2. CASE h[r].kind \in Uses
    BY <1>1, <1>2 DEF Todos, Uses, Kinds
  <1>3. CASE h[r].kind = "logout"
    BY <1>1, <1>3 DEF Todos, Uses, Kinds
  <1>4. CASE h[r].kind = "rotate"
    BY <1>1, <1>4 DEF Todos, Uses, Kinds
  <1>5. CASE h[r].kind = "login"
    BY <1>1, <1>5 DEF Todos, LoginTodos, Accepted, AfterAccepted, LoginRoute, Kinds, Uses
  <1>6. CASE h[r].kind = "idle"
    BY <1>1, <1>6 DEF Todos, Uses
  <1> QED
    BY <1>1, <1>2, <1>3, <1>4, <1>5, <1>6 DEF Kinds, Uses

\* What is left of a route after its first entry.
LEMMA TodoTails ==
    ASSUME NEW kind \in Kinds, NEW todo \in Todos(kind), todo # <<>>, Len(todo) # 1,
           Head(todo) # "body" \/ kind # "login"
    PROVE  /\ Tail(todo) \in Todos(kind)
           /\ Tail(todo) \in Accepted => todo \in Accepted
           /\ Tail(todo) = <<"create">> => Head(todo) = "session_created"
  <1>1. CASE kind = "login"
    <2>1. todo = AfterAccepted \/ todo = <<"session_created", "create">>
      BY <1>1 DEF Todos, LoginTodos, Accepted, AfterAccepted, LoginRoute
    <2>2. CASE todo = AfterAccepted
      <3>1. Tail(todo) = <<"session_created", "create">>
        BY <2>2 DEF AfterAccepted
      <3> QED
        BY <1>1, <2>2, <3>1 DEF Todos, LoginTodos, Accepted
    <2>3. CASE todo = <<"session_created", "create">>
      <3>1. Tail(todo) = <<"create">> /\ Head(todo) = "session_created"
        BY <2>3
      <3> QED
        BY <1>1, <2>3, <3>1 DEF Todos, LoginTodos, Accepted
    <2> QED
      BY <2>1, <2>2, <2>3
  <1>2. ASSUME NEW S, todo \in Seq(S),
               {"create", "session_created", "authentication_success"} \cap S = {}
        PROVE  Tail(todo) \in Seq(S) /\ Tail(todo) \notin Accepted
    <2>1. Tail(todo) \in Seq(S)
      BY <1>2
    <2>2. Tail(todo) # <<>> => Head(Tail(todo)) \in S
      BY <2>1
    <2>3. ASSUME NEW t \in Accepted
          PROVE  /\ t # <<>>
                 /\ Head(t) \in {"create", "session_created", "authentication_success"}
      BY <2>3 DEF Accepted, AfterAccepted
    <2> QED
      BY <1>2, <2>1, <2>2, <2>3
  <1>3. CASE kind \in Uses
    BY <1>2, <1>3 DEF Todos, Uses, UseStages, Accepted
  <1>4. CASE kind = "logout"
    BY <1>2, <1>4 DEF Todos, Uses, LogoutStages, Accepted
  <1>5. CASE kind = "rotate"
    BY <1>2, <1>5 DEF Todos, Uses, RotationStages, Accepted
  <1>6. CASE kind = "idle"
    BY <1>6 DEF Todos, Uses
  <1> QED
    BY <1>1, <1>3, <1>4, <1>5, <1>6 DEF Kinds, Uses

\* An idle request.
LEMMA IdleRequest ==
    /\ Idle \in Requests /\ Idle.kind = "idle" /\ Idle.todo = <<>> /\ Idle.late = FALSE
    /\ Idle.todo \notin Accepted
  BY DEF Idle, Requests, Kinds, Accepted, AfterAccepted

\* Only a login has an accepted login's stages left.
LEMMA AcceptedIsLogin ==
    ASSUME NEW kind \in Kinds, NEW todo \in Todos(kind), todo \in Accepted
    PROVE  kind = "login"
  <1>1. todo # <<>> /\ Head(todo) \in {"create", "session_created", "authentication_success"}
    BY DEF Accepted, AfterAccepted
  <1>2. ASSUME NEW S, todo \in Seq(S)
        PROVE  Head(todo) \in S
    BY <1>1, <1>2
  <1> QED
    BY <1>1, <1>2 DEF Todos, Kinds, Uses, UseStages, LogoutStages, RotationStages

\* The stages of every kind are stages.
LEMMA TodosAreStages ==
    ASSUME NEW kind \in Kinds
    PROVE  Todos(kind) \subseteq Seq(Stages)
  <1>1. UseStages \subseteq Stages /\ LogoutStages \subseteq Stages /\ RotationStages \subseteq Stages
    BY DEF Stages
  <1>2. \A S \in SUBSET Stages : Seq(S) \subseteq Seq(Stages)
    OBVIOUS
  <1>3. LoginTodos \subseteq Seq(Stages)
    BY DEF LoginTodos, Accepted, AfterAccepted, LoginRoute, Stages, UseStages, AppendStages
  <1>4. <<>> \in Seq(Stages)
    OBVIOUS
  <1>5. Todos(kind) \in {LoginTodos, Seq(UseStages), Seq(LogoutStages), Seq(RotationStages), {<<>>}}
    BY DEF Todos
  <1> QED
    BY <1>1, <1>2, <1>3, <1>4, <1>5

\* The record of one request changes.
LEMMA RequestUpdate ==
    ASSUME TypeOK, NEW r \in Handlers, NEW q \in Requests, h' = [h EXCEPT ![r] = q]
    PROVE  /\ h' \in [Handlers -> Requests] /\ h'[r] = q
           /\ \A x \in Handlers \ {r} : h'[x] = h[x]
  BY DEF TypeOK

\* A handler that ends leaves nothing behind.
LEMMA DropSound ==
    ASSUME TypeOK, NEW r \in Handlers, Drop(r)
    PROVE  /\ RequestSound(r)' /\ h' \in [Handlers -> Requests]
           /\ \A x \in Handlers \ {r} : h'[x] = h[x]
           /\ Frees(r)
  <1>1. h' \in [Handlers -> Requests] /\ h'[r] = Idle /\ \A x \in Handlers \ {r} : h'[x] = h[x]
    BY IdleRequest, RequestUpdate DEF Drop
  <1>2. Idle.todo \in Todos(Idle.kind) /\ Idle.kind \notin Uses \cup {"logout"}
        /\ Idle.todo # <<"create">>
    BY IdleRequest DEF Todos, Uses
  <1>3. RequestSound(r)'
    BY <1>1, <1>2, IdleRequest DEF RequestSound
  <1> QED
    BY <1>1, <1>3 DEF Drop

\* A handler that goes on along its route.
LEMMA GoesSound ==
    ASSUME TypeOK, NEW r \in Handlers, RequestSound(r), h[r].todo # <<>>,
           Head(h[r].todo) # "body" \/ h[r].kind # "login",
           NEW q, q = h[r], Goes(r, q),
           View.sess[h[r].sid] # NoSession => View'.sess[h[r].sid] # NoSession,
           Head(h[r].todo) # "create" /\ View.sess[h[r].sid] = NoSession
               => View'.sess[h[r].sid] = NoSession,
           NEW s, s = h[r].sid,
           Head(h[r].todo) = "session_created" => Recorded("session_created", s)' # {},
           ended \subseteq ended'
    PROVE  /\ RequestSound(r)' /\ h' \in [Handlers -> Requests]
           /\ \A x \in Handlers \ {r} : h'[x] = h[x]
           /\ Keeps(r) \/ Frees(r)
  <1>1. h[r] \in Requests /\ h[r].kind \in Kinds /\ h[r].todo \in Todos(h[r].kind)
    BY DEF TypeOK, Requests, RequestSound
  <1>2. /\ q \in Requests /\ q.kind = h[r].kind /\ q.todo = h[r].todo /\ q.sid = h[r].sid
        /\ q.late = h[r].late /\ q.epoch = h[r].epoch /\ q.at = h[r].at
    BY <1>1 DEF Requests
  <1>3. CASE Len(q.todo) = 1
    BY <1>3, DropSound DEF Goes
  <1>4. CASE Len(q.todo) # 1
    <2> DEFINE p == [q EXCEPT !.todo = Tail(q.todo), !.at = "select"]
    <2>1. h' = [h EXCEPT ![r] = p] /\ Keeps(r)
      BY <1>2, <1>4 DEF Goes
    <2>2. /\ Tail(q.todo) \in Todos(q.kind)
          /\ Tail(q.todo) \in Accepted => q.todo \in Accepted
          /\ Tail(q.todo) = <<"create">> => Head(q.todo) = "session_created"
      BY <1>1, <1>2, <1>4, TodoTails
    <2>3. /\ p \in Requests /\ p.todo = Tail(q.todo) /\ p.at = "select" /\ p.kind = h[r].kind
          /\ p.sid = h[r].sid /\ p.late = h[r].late /\ p.epoch = h[r].epoch
      <3>1. Tail(q.todo) \in Seq(Stages)
        BY <1>1, <1>2, <2>2, TodosAreStages
      <3>2. ASSUME NEW t \in Seq(Stages)
            PROVE  LET b == [q EXCEPT !.todo = t, !.at = "select"] IN
                   /\ b \in Requests /\ b.todo = t /\ b.at = "select" /\ b.kind = q.kind
                   /\ b.sid = q.sid /\ b.late = q.late /\ b.epoch = q.epoch
        BY <1>2 DEF Requests
      <3> QED
        BY <1>2, <3>1, <3>2
    <2> HIDE DEF p
    <2>4. h' \in [Handlers -> Requests] /\ h'[r] = p /\ \A x \in Handlers \ {r} : h'[x] = h[x]
      BY <2>1, <2>3, RequestUpdate
    <2>5. ASSUME p.todo \in Accepted
          PROVE  /\ loop' = r /\ p.epoch # 0
                 /\ p.sid \in Sids /\ View'.sess[p.sid] = NoSession
      <3>1. q.todo \in Accepted /\ h[r].kind = "login"
        BY <1>1, <1>2, <2>2, <2>3, <2>5, AcceptedIsLogin
      <3>2. h[r].epoch # 0 /\ h[r].sid \in Sids /\ View.sess[h[r].sid] = NoSession
        BY <1>2, <3>1 DEF RequestSound
      <3>3. loop' = r
        BY <2>1, <3>1 DEF Keeps, Async
      <3>4. Head(h[r].todo) # "create"
        BY <1>2, <1>4, <3>1 DEF Accepted, AfterAccepted
      <3> QED
        BY <2>3, <3>2, <3>3, <3>4
    <2>6. p.todo = <<"create">> => p.sid = s /\ Recorded("session_created", s)' # {}
      BY <1>2, <2>2, <2>3
    <2>7. p.late => p.kind \in Uses \cup {"logout"} /\ p.sid \in ended' /\ p.at = "select"
      BY <2>3 DEF RequestSound
    <2>8. p.kind \in Uses \cup {"logout"} => p.sid \in Sids /\ View'.sess[p.sid] # NoSession
      BY <2>3 DEF RequestSound
    <2>9. p.todo \in Todos(p.kind)
      BY <1>2, <2>2, <2>3
    <2>10. RequestSound(r)'
      BY <2>4, <2>5, <2>6, <2>7, <2>8, <2>9 DEF RequestSound
    <2> QED
      BY <2>1, <2>4, <2>10
  <1> QED
    BY <1>3, <1>4

\* The other requests are not disturbed.
LEMMA OthersSound ==
    ASSUME IInv, NEW r \in Handlers, (OnLoop(r) /\ (Keeps(r) \/ Frees(r))) \/ UNCHANGED loop,
           \A x \in Handlers \ {r} : h'[x] = h[x],
           ended \subseteq ended', NEW S, S # {} => h[r].todo \in Accepted,
           \A s \in Sids : View.sess[s] # NoSession => View'.sess[s] # NoSession,
           \A s \in Sids \ S : View.sess[s] = NoSession => View'.sess[s] = NoSession,
           \A s \in Sids : Recorded("session_created", s) # {}
                              => Recorded("session_created", s)' # {}
    PROVE  \A x \in Handlers \ {r} : RequestSound(x)'
  <1> SUFFICES ASSUME NEW x \in Handlers \ {r} PROVE RequestSound(x)'
    OBVIOUS
  <1>1. RequestSound(x) /\ RequestSound(r) /\ h'[x] = h[x] /\ x # None
    BY ConstantsAssumption DEF IInv, RequestsSound
  <1>2. ASSUME h[x].todo \in Accepted
        PROVE  /\ loop' = x /\ h[x].sid \in Sids /\ h[x].epoch # 0
               /\ View'.sess[h[x].sid] = NoSession
    <2>1. loop = x /\ h[x].sid \in Sids /\ h[x].epoch # 0 /\ View.sess[h[x].sid] = NoSession
      BY <1>1, <1>2 DEF RequestSound
    <2>2. h[r].todo \notin Accepted
      BY <1>1, <2>1 DEF RequestSound
    <2>3. loop' = x
      BY <1>1, <2>1 DEF OnLoop, Keeps, Frees
    <2> QED
      BY <2>1, <2>2, <2>3
  <1>3. ASSUME h[x].todo = <<"create">>
        PROVE  Recorded("session_created", h[x].sid)' # {}
    <2>1. h[x].sid \in Sids /\ Recorded("session_created", h[x].sid) # {}
      BY <1>1, <1>3 DEF RequestSound, Accepted
    <2> QED
      BY <2>1
  <1>4. h[x].kind \in Uses \cup {"logout"} => h[x].sid \in Sids /\ View'.sess[h[x].sid] # NoSession
    BY <1>1 DEF RequestSound
  <1>5. h[x].late => /\ h[x].kind \in Uses \cup {"logout"}
                     /\ h[x].sid \in ended' /\ h[x].at = "select"
    BY <1>1 DEF RequestSound
  <1> QED
    BY <1>1, <1>2, <1>3, <1>4, <1>5 DEF RequestSound

\* What a request's transaction does to the data: it commits, it is left open,
\* or it cannot begin.
LEMMA DataStep ==
    ASSUME IInv, NEW d, NEW S,
           open = <<>> => Follows(d, db, S),
           open = <<>> => \A s \in S : Recorded("session_created", s) # {},
           \/ open = <<>> /\ db' = d /\ open' = open
           \/ open = <<>> /\ db' = db /\ open' = <<d>>
           \/ db' = db /\ open' = open
    PROVE  /\ IsDatabase(db') /\ (open' = <<>> \/ (open' = <<open'[1]>> /\ IsDatabase(open'[1])))
           /\ EvidenceIsWhole'
           /\ View'.regs = db'.regs /\ db'.regs = db.regs
           /\ \A s \in Sids : View.sess[s] # NoSession => View'.sess[s] # NoSession
           /\ \A s \in Sids \ S : View.sess[s] = NoSession => View'.sess[s] = NoSession
           /\ \A s \in Sids : Recorded("session_created", s) # {}
                                  => Recorded("session_created", s)' # {}
           /\ \A s \in ended : db'.sess[s].revoked /\ View'.sess[s].revoked
  <1>1. /\ IsDatabase(db) /\ (open = <<>> \/ (open = <<open[1]>> /\ IsDatabase(open[1])))
        /\ ended \subseteq Sids
        /\ \A s \in ended : db.sess[s].revoked /\ View.sess[s].revoked
        /\ View.regs = db.regs /\ Whole(db)
    BY WholeDb DEF IInv, TypeOK, EndsHold
  <1>2. \A s : Recorded("session_created", s) = RecordedIn(db, "session_created", s)
    BY DEF Recorded, RecordedIn
  <1>3. \A s : Recorded("session_created", s)' = RecordedIn(db', "session_created", s)
    BY DEF Recorded, RecordedIn
  <1>4. Whole(db') => EvidenceIsWhole'
    BY DEF EvidenceIsWhole, Whole, Recorded, RecordedIn
  <1>5. CASE open = <<>> /\ db' = d /\ open' = open
    <2>1. View = db /\ View' = d
      BY <1>5 DEF View
    <2>2. Whole(d)
      BY <1>1, <1>2, <1>5, FollowsWhole
    <2> QED
      BY <1>1, <1>2, <1>3, <1>4, <1>5, <2>1, <2>2 DEF Follows
  <1>6. CASE open = <<>> /\ db' = db /\ open' = <<d>>
    <2>1. View = db /\ View' = d /\ open'[1] = d
      BY <1>6 DEF View
    <2> QED
      BY <1>1, <1>2, <1>3, <1>4, <1>6, <2>1 DEF Follows
  <1>7. CASE db' = db /\ open' = open
    <2>1. View' = View
      BY <1>7 DEF View
    <2> QED
      BY <1>1, <1>2, <1>3, <1>4, <1>7, <2>1
  <1> QED
    BY <1>5, <1>6, <1>7

\* A step of a request keeps the invariant when it keeps its own part of it.
LEMMA HandlerStep ==
    ASSUME IInv, NEW r \in Handlers, NEW d, NEW S,
           open = <<>> => Follows(d, db, S), S # {} => h[r].todo = <<"create">> /\ S = {h[r].sid},
           \/ open = <<>> /\ db' = d /\ open' = open
           \/ open = <<>> /\ db' = db /\ open' = <<d>>
           \/ db' = db /\ open' = open,
           (OnLoop(r) /\ (Keeps(r) \/ Frees(r))) \/ UNCHANGED loop,
           h' \in [Handlers -> Requests], \A x \in Handlers \ {r} : h'[x] = h[x],
           RequestSound(r)',
           ended \subseteq ended', ended' \subseteq Sids,
           ended' = ended \/ (db' = d /\ open = <<>> /\ open' = open),
           \A s \in ended' \ ended : d.sess[s].revoked,
           IsAuth(auth'), epoch' \in Nat, faults' \in Nat,
           guesses' \in Seq(0 .. Lockout), GuessesCounted', UNCHANGED cli
    PROVE  IInv'
  <1>1. open = <<>> => \A s \in S : Recorded("session_created", s) # {}
    BY DEF IInv, RequestsSound, RequestSound
  <1>2. S # {} => h[r].todo \in Accepted
    BY DEF Accepted
  <1>3. /\ IsDatabase(db') /\ (open' = <<>> \/ (open' = <<open'[1]>> /\ IsDatabase(open'[1])))
        /\ EvidenceIsWhole'
        /\ View'.regs = db'.regs /\ db'.regs = db.regs
        /\ \A s \in Sids : View.sess[s] # NoSession => View'.sess[s] # NoSession
        /\ \A s \in Sids \ S : View.sess[s] = NoSession => View'.sess[s] = NoSession
        /\ \A s \in Sids : Recorded("session_created", s) # {}
                               => Recorded("session_created", s)' # {}
        /\ \A s \in ended : db'.sess[s].revoked /\ View'.sess[s].revoked
    BY <1>1, DataStep
  <1>4. RequestsSound'
    BY <1>2, <1>3, OthersSound DEF RequestsSound
  <1>5. loop' \in Handlers \cup {None}
    BY DEF IInv, TypeOK, Keeps, Frees
  <1>6. TypeOK'
    BY <1>3, <1>5 DEF IInv, TypeOK
  <1>7. EndsHold'
    <2>1. CASE ended' = ended
      BY <1>3, <2>1 DEF EndsHold
    <2>2. CASE db' = d /\ open = <<>> /\ open' = open
      <3>1. View' = d
        BY <2>2 DEF View
      <3> QED
        BY <1>3, <2>2, <3>1 DEF EndsHold
    <2> QED
      BY <2>1, <2>2
  <1>8. CommandsSound'
    BY <1>3 DEF IInv, CommandsSound
  <1> QED
    BY <1>3, <1>4, <1>6, <1>7, <1>8 DEF IInv

\* A request that stays where it is, or takes another list of stages.
LEMMA RetoldSound ==
    ASSUME TypeOK, NEW r \in Handlers, RequestSound(r),
           NEW todo \in Todos(h[r].kind), todo \notin Accepted,
           NEW at \in {"select", "touch", "expire"}, h[r].late => at = "select",
           \/ h' = [h EXCEPT ![r].todo = todo, ![r].at = at]
           \/ h' = [h EXCEPT ![r].todo = todo] /\ at = h[r].at
           \/ h' = [h EXCEPT ![r].at = at] /\ todo = h[r].todo,
           View.sess[h[r].sid] # NoSession => View'.sess[h[r].sid] # NoSession,
           ended \subseteq ended'
    PROVE  /\ RequestSound(r)' /\ h' \in [Handlers -> Requests]
           /\ \A x \in Handlers \ {r} : h'[x] = h[x]
  <1> DEFINE p == [h[r] EXCEPT !.todo = todo, !.at = at]
  <1>1. h[r] \in Requests /\ h[r].kind \in Kinds
    BY DEF TypeOK, Requests
  <1>2. todo \in Seq(Stages)
    BY <1>1, TodosAreStages
  <1>3. h' = [h EXCEPT ![r] = p]
    BY <1>1 DEF TypeOK, Requests
  <1>4. /\ p \in Requests /\ p.todo = todo /\ p.at = at /\ p.kind = h[r].kind
        /\ p.sid = h[r].sid /\ p.late = h[r].late
    BY <1>1, <1>2 DEF Requests
  <1> HIDE DEF p
  <1>5. h' \in [Handlers -> Requests] /\ h'[r] = p /\ \A x \in Handlers \ {r} : h'[x] = h[x]
    BY <1>3, <1>4, RequestUpdate
  <1>6. p.todo # <<"create">>
    BY <1>4 DEF Accepted
  <1>7. RequestSound(r)'
    BY <1>4, <1>5, <1>6 DEF RequestSound
  <1> QED
    BY <1>5, <1>7

\* A database follows itself.
LEMMA SelfFollows ==
    ASSUME IInv
    PROVE  Follows(db, db, {})
  BY DEF IInv, TypeOK, Follows, EvidenceIsWhole

\* A step of a request that touches no data.
LEMMA QuietStep ==
    ASSUME IInv, NEW r \in Handlers, UNCHANGED <<db, open, ended, cli, faults>>,
           (OnLoop(r) /\ (Keeps(r) \/ Frees(r))) \/ UNCHANGED loop,
           h' \in [Handlers -> Requests], \A x \in Handlers \ {r} : h'[x] = h[x],
           RequestSound(r)', IsAuth(auth'), epoch' \in Nat,
           guesses' \in Seq(0 .. Lockout), GuessesCounted'
    PROVE  IInv'
  <1>1. Follows(db, db, {})
    BY SelfFollows
  <1>2. faults' \in Nat /\ ended' \subseteq Sids
    BY DEF IInv, TypeOK
  <1> QED
    BY <1>1, <1>2, HandlerStep

\* Steps that leave the authenticator and its history alone.
LEMMA AuthFrame ==
    ASSUME IInv, UNCHANGED <<auth, guesses>>
    PROVE  IsAuth(auth') /\ guesses' \in Seq(0 .. Lockout) /\ GuessesCounted'
  BY DEF IInv, TypeOK, GuessesCounted

\* The routes are lists of their kinds' stages.
LEMMA RouteTodos ==
    ASSUME NEW kind \in DOMAIN Routes, NEW route \in Routes[kind]
    PROVE  kind \in Kinds \ {"idle"} /\ route \in Todos(kind) /\ route \notin Accepted
  <1>1. kind \in {"login", "read", "logout", "authorize", "switch", "rotate"}
    BY DEF Routes
  <1>2. CASE kind = "login"
    BY <1>2 DEF Routes, Todos, Kinds, LoginTodos, LoginRoute, Accepted, AfterAccepted
  <1>a. \A t \in Accepted : Head(t) \notin {"session", "csrf", "rotate_auth"}
    BY DEF Accepted, AfterAccepted
  <1>3. CASE kind = "logout"
    <2>1. route = LogoutRoute
      BY <1>3 DEF Routes
    <2>2. LogoutRoute \in Seq(LogoutStages) /\ Head(LogoutRoute) = "csrf"
      BY DEF LogoutRoute, LogoutStages
    <2> QED
      BY <1>3, <1>a, <2>1, <2>2 DEF Todos, Kinds, Uses
  <1>4. CASE kind = "rotate"
    <2>1. route = Rotation
      BY <1>4 DEF Routes
    <2>2. Rotation \in Seq(RotationStages) /\ Head(Rotation) = "rotate_auth"
      BY DEF Rotation, RotationStages
    <2> QED
      BY <1>4, <1>a, <2>1, <2>2 DEF Todos, Kinds, Uses
  <1>5. CASE kind \in Uses
    <2>1. route \in {ViewRoute, AuthorizeRoute, ApprovalRoute, ActionRoute, RunRoute, ReplayRoute,
                      SwitchRoute}
      BY <1>5 DEF Routes, Uses
    <2>2. /\ ViewRoute \in Seq(UseStages) /\ Head(ViewRoute) = "session"
          /\ ActionRoute \in Seq(UseStages) /\ Head(ActionRoute) = "session"
          /\ SwitchRoute \in Seq(UseStages) /\ Head(SwitchRoute) = "session"
      BY DEF ViewRoute, ActionRoute, SwitchRoute, UseStages
    <2>3. /\ AuthorizeRoute \in Seq(UseStages) /\ Head(AuthorizeRoute) = "session"
          /\ ApprovalRoute \in Seq(UseStages) /\ Head(ApprovalRoute) = "session"
      BY DEF AuthorizeRoute, ApprovalRoute, UseStages
    <2>4. /\ RunRoute \in Seq(UseStages) /\ Head(RunRoute) = "session"
          /\ ReplayRoute \in Seq(UseStages) /\ Head(ReplayRoute) = "session"
      BY DEF RunRoute, ReplayRoute, UseStages
    <2>5. route \in Seq(UseStages) /\ Head(route) = "session"
      BY <2>1, <2>2, <2>3, <2>4
    <2> QED
      BY <1>5, <1>a, <2>5 DEF Todos, Kinds, Uses
  <1> QED
    BY <1>1, <1>2, <1>3, <1>4, <1>5 DEF Uses

\* A request comes in.
LEMMA StartStep ==
    ASSUME IInv, NEW r \in Handlers, NEW kind \in DOMAIN Routes, NEW sid \in Sids \cup {None},
           Start(r, kind, sid)
    PROVE  IInv'
  <1>1. PICK route \in Routes[kind] :
           h' = [h EXCEPT ![r] = [Idle EXCEPT !.kind = kind, !.todo = route,
                                              !.sid = sid, !.late = sid \in ended]]
    BY DEF Start
  <1> DEFINE p == [Idle EXCEPT !.kind = kind, !.todo = route, !.sid = sid, !.late = sid \in ended]
  <1>2. kind \in Kinds /\ route \in Todos(kind) /\ route \notin Accepted
    BY RouteTodos
  <1>3. route \in Seq(Stages)
    BY <1>2, TodosAreStages
  <1>4. /\ p \in Requests /\ p.kind = kind /\ p.todo = route /\ p.sid = sid /\ p.at = "select"
        /\ p.late = (sid \in ended)
    <2>1. ASSUME NEW late \in BOOLEAN, NEW q, q \in Requests, q.at = "select"
          PROVE  LET b == [q EXCEPT !.kind = kind, !.todo = route, !.sid = sid, !.late = late] IN
                 /\ b \in Requests /\ b.kind = kind /\ b.todo = route /\ b.sid = sid
                 /\ b.at = "select" /\ b.late = late
      BY <1>2, <1>3, <2>1 DEF Requests
    <2> DEFINE late == sid \in ended
    <2>2. Idle.at = "select" /\ late \in BOOLEAN
      BY DEF Idle
    <2>3. p = [Idle EXCEPT !.kind = kind, !.todo = route, !.sid = sid, !.late = late]
      OBVIOUS
    <2> HIDE DEF late, p
    <2>4. /\ p \in Requests /\ p.kind = kind /\ p.todo = route /\ p.sid = sid
          /\ p.at = "select" /\ p.late = late
      BY <2>1, <2>2, <2>3, IdleRequest
    <2> QED
      BY <2>4 DEF late
  <1> HIDE DEF p
  <1>5. h' \in [Handlers -> Requests] /\ h'[r] = p /\ \A x \in Handlers \ {r} : h'[x] = h[x]
    BY <1>1, <1>4, RequestUpdate DEF p, IInv
  <1>6. UNCHANGED <<db, open, ended, cli, faults, loop, auth, guesses, epoch>>
    BY DEF Start
  <1>7. kind \in Uses \cup {"logout"} => sid \in Sids /\ View'.sess[sid] # NoSession
    <2>1. View' = View
      BY <1>6 DEF View
    <2> QED
      BY <2>1 DEF Start, Uses
  <1>8. p.todo # <<"create">>
    BY <1>2, <1>4 DEF Accepted
  <1>a. sid \in ended => kind \in Uses \cup {"logout"}
    <2>1. sid \in ended => sid # None
      BY ConstantsAssumption DEF IInv, TypeOK
    <2> QED
      BY <2>1 DEF Start, Routes, Uses
  <1>9. RequestSound(r)'
    BY <1>2, <1>4, <1>5, <1>6, <1>7, <1>8, <1>a DEF RequestSound
  <1>10. epoch' \in Nat
    BY <1>6 DEF IInv, TypeOK
  <1> QED
    BY <1>5, <1>6, <1>9, <1>10, AuthFrame, QuietStep

\* The body of the request has arrived, or is refused.
LEMMA BodyStep ==
    ASSUME IInv, NEW r \in Handlers, Body(r)
    PROVE  IInv'
  <1>1. TypeOK /\ RequestSound(r) /\ h[r].todo # <<>> /\ Head(h[r].todo) = "body" /\ OnLoop(r)
    BY DEF IInv, RequestsSound, Body, Stage
  <1>2. UNCHANGED <<db, open, ended, cli, faults, auth, guesses, epoch>> /\ View' = View
    BY DEF Body, View
  <1>3. epoch' \in Nat
    BY <1>2 DEF IInv, TypeOK
  <1>4. CASE Drop(r)
    BY <1>1, <1>2, <1>3, <1>4, DropSound, AuthFrame, QuietStep
  <1>5. CASE h' = [h EXCEPT ![r].todo = Tail(@)] /\ Frees(r)
    <2> DEFINE todo == Tail(h[r].todo)
    <2>1. h[r] \in Requests /\ h[r].kind \in Kinds /\ h[r].todo \in Todos(h[r].kind)
      BY <1>1 DEF TypeOK, Requests, RequestSound
    <2>2. todo \in Todos(h[r].kind) /\ todo \notin Accepted
      <3>1. CASE h[r].kind = "login"
        <4>1. h[r].todo = LoginRoute
          BY <1>1, <2>1, <3>1 DEF Todos, LoginTodos, Accepted, AfterAccepted
        <4>2. todo = <<"authenticate">>
          BY <4>1 DEF LoginRoute
        <4> HIDE DEF todo
        <4> QED
          BY <3>1, <4>2 DEF Todos, LoginTodos, Accepted, AfterAccepted
      <3>2. CASE h[r].kind # "login"
        <4>1. h[r].todo \in Seq(UseStages) /\ h[r].kind \in Uses
          BY <1>1, <3>2, StageKinds DEF RequestSound, Todos, Kinds, LogoutStages, RotationStages, Uses
        <4>2. todo \in Seq(UseStages)
          BY <1>1, <4>1
        <4> HIDE DEF todo
        <4>3. todo \in Todos(h[r].kind)
          BY <4>1, <4>2 DEF Todos, Uses
        <4> QED
          BY <2>1, <3>2, <4>3, AcceptedIsLogin
      <3> QED
        BY <3>1, <3>2
    <2>3. h' = [h EXCEPT ![r].todo = todo]
      BY <1>5
    <2> HIDE DEF todo
    <2>4. h[r].at \in {"select", "touch", "expire"} /\ (h[r].late => h[r].at = "select")
      BY <1>1, <2>1 DEF Requests, RequestSound
    <2>5. /\ RequestSound(r)' /\ h' \in [Handlers -> Requests]
          /\ \A x \in Handlers \ {r} : h'[x] = h[x]
      BY <1>1, <1>2, <2>2, <2>3, <2>4, RetoldSound
    <2> QED
      BY <1>1, <1>2, <1>3, <1>5, <2>5, AuthFrame, QuietStep
  <1> QED
    BY <1>4, <1>5 DEF Body

\* The request's own part of a step.
Settled(r) ==
    /\ RequestSound(r)' /\ h' \in [Handlers -> Requests]
    /\ \A x \in Handlers \ {r} : h'[x] = h[x]
    /\ Keeps(r) \/ Frees(r)

\* A transaction of a request keeps the invariant when the request is settled
\* after the commit; the other outcomes end it.
LEMMA TransactionStep ==
    ASSUME IInv, NEW r \in Handlers, NEW d, NEW S,
           open = <<>> => Follows(d, db, S), S # {} => h[r].todo = <<"create">> /\ S = {h[r].sid},
           OnLoop(r), UNCHANGED <<auth, epoch, cli, guesses>>,
           \/ /\ open = <<>> /\ db' = d /\ UNCHANGED <<open, faults>> /\ Settled(r)
              /\ ended \subseteq ended' /\ ended' \subseteq Sids
              /\ \A s \in ended' \ ended : d.sess[s].revoked
           \/ open # <<>> /\ Drop(r) /\ UNCHANGED <<db, open, faults, ended>>
           \/ /\ open = <<>> /\ faults' = faults + 1 /\ open' = <<d>> /\ Drop(r)
              /\ UNCHANGED <<db, ended>>
    PROVE  IInv'
  <1>1. /\ TypeOK /\ IsAuth(auth') /\ guesses' \in Seq(0 .. Lockout) /\ GuessesCounted'
        /\ epoch' \in Nat /\ faults' \in Nat /\ ended' \subseteq Sids
    BY AuthFrame DEF IInv, TypeOK
  <1>2. CASE /\ open = <<>> /\ db' = d /\ UNCHANGED <<open, faults>> /\ Settled(r)
             /\ ended \subseteq ended' /\ ended' \subseteq Sids
             /\ \A s \in ended' \ ended : d.sess[s].revoked
    BY <1>1, <1>2, HandlerStep DEF Settled
  <1>3. CASE open # <<>> /\ Drop(r) /\ UNCHANGED <<db, open, faults, ended>>
    <2>1. Settled(r)
      BY <1>1, <1>3, DropSound DEF Settled
    <2> QED
      BY <1>1, <1>3, <2>1, QuietStep DEF Settled
  <1>4. CASE /\ open = <<>> /\ faults' = faults + 1 /\ open' = <<d>> /\ Drop(r)
             /\ UNCHANGED <<db, ended>>
    <2>1. Settled(r)
      BY <1>1, <1>4, DropSound DEF Settled
    <2> QED
      BY <1>1, <1>4, <2>1, HandlerStep DEF Settled
  <1> QED
    BY <1>2, <1>3, <1>4

\* The request of a session stage has a session.
LEMMA SessionRequest ==
    ASSUME IInv, NEW r \in Handlers, h[r].todo # <<>>,
           Head(h[r].todo) \in SessionStages \cup {"revoke"}
    PROVE  /\ TypeOK /\ RequestSound(r) /\ h[r] \in Requests /\ h[r].kind \in Uses \cup {"logout"}
           /\ Head(h[r].todo) \in {"closing", "revoke"} => h[r].kind = "logout"
           /\ h[r].sid \in Sids /\ View.sess[h[r].sid] # NoSession
           /\ h[r].todo \notin Accepted
  <1>1. TypeOK /\ RequestSound(r) /\ h[r] \in Requests /\ h[r].kind \in Kinds
    BY DEF IInv, RequestsSound, TypeOK, Requests
  <1>2. /\ h[r].kind \in Uses \cup {"logout"}
        /\ Head(h[r].todo) \in {"closing", "revoke"} => h[r].kind = "logout"
    BY <1>1, StageKinds DEF SessionStages, Kinds, UseStages, LogoutStages, RotationStages
  <1>3. h[r].todo \notin Accepted
    BY DEF Accepted, AfterAccepted, SessionStages
  <1> QED
    BY <1>1, <1>2, <1>3 DEF RequestSound

\* Revoking a session.
LEMMA RevokedFollows ==
    ASSUME IInv, open = <<>>, NEW s \in Sids, db.sess[s] # NoSession
    PROVE  /\ Follows([db EXCEPT !.sess[s].revoked = TRUE], db, {})
           /\ [db EXCEPT !.sess[s].revoked = TRUE].sess[s].revoked = TRUE
  <1> DEFINE f == [db.sess EXCEPT ![s] = [@ EXCEPT !.revoked = TRUE]]
  <1>1. IsDatabase(db) /\ verify_chain(db.ledger) /\ db.sess \in [Sids -> Sessions]
    BY DEF IInv, TypeOK, EvidenceIsWhole, IsDatabase
  <1>2. db.sess[s] \in [epoch : Positive, left : Nat, idle : Nat, revoked : BOOLEAN]
    BY <1>1 DEF Sessions
  <1>3. [db EXCEPT !.sess[s].revoked = TRUE] = [db EXCEPT !.sess = f]
    BY <1>1, <1>2 DEF IsDatabase
  <1>4. /\ f[s] \in [epoch : Positive, left : Nat, idle : Nat, revoked : BOOLEAN]
        /\ f[s].revoked = TRUE /\ f[s] # NoSession
    BY <1>1, <1>2 DEF NoSession
  <1>5. f \in [Sids -> Sessions] /\ \A t \in Sids \ {s} : f[t] = db.sess[t]
    BY <1>1, <1>4 DEF Sessions
  <1> HIDE DEF f
  <1>6. Follows([db EXCEPT !.sess = f], db, {})
    <2>1. /\ \A t \in Sids : db.sess[t] # NoSession => f[t] # NoSession
          /\ \A t \in Sids : db.sess[t] = NoSession => f[t] = NoSession
          /\ \A t \in Sids : db.sess[t].revoked => f[t].revoked
      BY <1>4, <1>5
    <2> QED
      BY <1>1, <1>5, <2>1, SessionsFollow
  <1>7. [db EXCEPT !.sess = f].sess = f
    BY <1>1 DEF IsDatabase
  <1> QED
    BY <1>3, <1>4, <1>6, <1>7

\* Recording that a session was used.
LEMMA TouchedFollows ==
    ASSUME IInv, open = <<>>, NEW s \in Sids, db.sess[s] # NoSession
    PROVE  Follows([db EXCEPT !.sess[s].idle = IF db.sess[s].revoked THEN @ ELSE 0], db, {})
  <1> DEFINE idle == IF db.sess[s].revoked THEN db.sess[s].idle ELSE 0
             f == [db.sess EXCEPT ![s] = [@ EXCEPT !.idle = idle]]
  <1>1. IsDatabase(db) /\ verify_chain(db.ledger) /\ db.sess \in [Sids -> Sessions]
    BY DEF IInv, TypeOK, EvidenceIsWhole, IsDatabase
  <1>2. db.sess[s] \in [epoch : Positive, left : Nat, idle : Nat, revoked : BOOLEAN]
    BY <1>1 DEF Sessions
  <1>3. [db EXCEPT !.sess[s].idle = IF db.sess[s].revoked THEN @ ELSE 0] = [db EXCEPT !.sess = f]
    BY <1>1, <1>2 DEF IsDatabase
  <1>4. idle \in Nat
    BY <1>2
  <1> HIDE DEF idle
  <1>5. /\ f[s] \in [epoch : Positive, left : Nat, idle : Nat, revoked : BOOLEAN]
        /\ f[s].revoked = db.sess[s].revoked /\ f[s].epoch = db.sess[s].epoch
    BY <1>1, <1>2, <1>4
  <1>6. f[s] # NoSession
    BY <1>5 DEF NoSession, Positive
  <1>7. f \in [Sids -> Sessions] /\ \A t \in Sids \ {s} : f[t] = db.sess[t]
    BY <1>1, <1>5 DEF Sessions
  <1> HIDE DEF f
  <1>8. /\ \A t \in Sids : db.sess[t] # NoSession => f[t] # NoSession
        /\ \A t \in Sids : db.sess[t] = NoSession => f[t] = NoSession
        /\ \A t \in Sids : db.sess[t].revoked => f[t].revoked
    BY <1>5, <1>6, <1>7
  <1> QED
    BY <1>1, <1>3, <1>7, <1>8, SessionsFollow

\* A logout's stages.
LEMMA LogoutTodos ==
    /\ <<"revoke">> \in Todos("logout") /\ <<"revoke">> \notin Accepted
    /\ <<"session_revoked", "revoke">> \in Todos("logout")
    /\ <<"session_revoked", "revoke">> \notin Accepted
  <1>1. <<"revoke">> \in Seq(LogoutStages) /\ <<"session_revoked", "revoke">> \in Seq(LogoutStages)
    BY DEF LogoutStages
  <1>2. \A t \in Accepted : Head(t) \notin {"revoke", "session_revoked"}
    BY DEF Accepted, AfterAccepted
  <1> QED
    BY <1>1, <1>2 DEF Todos, Uses

\* A lookup that finds nothing ends the request, or goes on with the revocation.
LEMMA NotFoundSound ==
    ASSUME IInv, NEW r \in Handlers, AtSession(r), NotFound(r),
           View'.sess[h[r].sid] # NoSession, ended \subseteq ended'
    PROVE  Settled(r)
  <1>1. h[r].todo # <<>> /\ Head(h[r].todo) \in SessionStages
    BY DEF AtSession, Stage
  <1>2. /\ TypeOK /\ RequestSound(r) /\ h[r] \in Requests
        /\ Head(h[r].todo) \in {"closing", "revoke"} => h[r].kind = "logout"
    BY <1>1, SessionRequest
  <1>3. CASE Stage(r, "closing")
    <2>1. h' = [h EXCEPT ![r].todo = <<"revoke">>] /\ Keeps(r) /\ h[r].kind = "logout"
      BY <1>2, <1>3 DEF NotFound, Stage
    <2>2. h[r].at \in {"select", "touch", "expire"} /\ (h[r].late => h[r].at = "select")
      BY <1>2 DEF Requests, RequestSound
    <2> QED
      BY <1>2, <2>1, <2>2, LogoutTodos, RetoldSound DEF Settled
  <1>4. CASE ~Stage(r, "closing")
    BY <1>2, <1>4, DropSound DEF NotFound, Settled
  <1> QED
    BY <1>3, <1>4

\* The lookup's SELECT.
LEMMA SelectStep ==
    ASSUME IInv, NEW r \in Handlers, Select(r)
    PROVE  IInv'
  <1>1. h[r].todo # <<>> /\ Head(h[r].todo) \in SessionStages /\ AtSession(r) /\ OnLoop(r)
    BY DEF Select, AtSession, Stage
  <1>2. /\ TypeOK /\ RequestSound(r) /\ h[r] \in Requests
        /\ h[r].sid \in Sids /\ View.sess[h[r].sid] # NoSession
        /\ h[r].todo \notin Accepted
    BY <1>1, SessionRequest
  <1>3. UNCHANGED <<db, open, ended, cli, faults, auth, guesses, epoch>> /\ View' = View
    BY DEF Select, View
  <1>4. Settled(r)
    <2>1. CASE ~Known(View.sess[h[r].sid])
      BY <1>1, <1>2, <1>3, <2>1, NotFoundSound DEF Select
    <2>2. CASE Known(View.sess[h[r].sid])
      <3> DEFINE at == IF is_active(View.sess[h[r].sid]) THEN "touch" ELSE "expire"
      <3>1. h' = [h EXCEPT ![r].at = at] /\ Keeps(r)
        BY <2>2 DEF Select
      <3>2. ~h[r].late
        BY <1>2, <2>2 DEF Known, RequestSound, IInv, EndsHold
      <3>3. at \in {"select", "touch", "expire"} /\ h[r].todo \in Todos(h[r].kind)
        BY <1>2 DEF RequestSound
      <3> HIDE DEF at
      <3> QED
        BY <1>2, <1>3, <3>1, <3>2, <3>3, RetoldSound DEF Settled
    <2> QED
      BY <2>1, <2>2
  <1>5. epoch' \in Nat
    BY <1>3 DEF IInv, TypeOK
  <1> QED
    BY <1>1, <1>3, <1>4, <1>5, AuthFrame, QuietStep DEF Settled

\* An expired session is revoked.
LEMMA ExpireStep ==
    ASSUME IInv, NEW r \in Handlers, Expire(r)
    PROVE  IInv'
  <1> DEFINE d == [db EXCEPT !.sess[h[r].sid].revoked = TRUE]
  <1>1. h[r].todo # <<>> /\ Head(h[r].todo) \in SessionStages /\ AtSession(r) /\ OnLoop(r)
    BY DEF Expire, AtSession, Stage
  <1>2. h[r].sid \in Sids /\ View.sess[h[r].sid] # NoSession /\ ended \subseteq Sids
    BY <1>1, SessionRequest DEF TypeOK
  <1>3. open = <<>> => View = db
    BY DEF View
  <1>4. open = <<>> => Follows(d, db, {})
    BY <1>2, <1>3, RevokedFollows
  <1>5. UNCHANGED <<auth, epoch, cli, guesses>>
    BY DEF Expire
  <1>6. Transaction(r, d, NotFound(r) /\ UNCHANGED ended)
    BY DEF Expire
  <1> HIDE DEF d
  <1>7. ASSUME open = <<>>, db' = d, UNCHANGED <<open, faults>>, NotFound(r), UNCHANGED ended
        PROVE  Settled(r)
    <2>1. View' = d
      BY <1>7 DEF View
    <2>2. d.sess[h[r].sid] # NoSession
      BY <1>2, <1>3, <1>4, <1>7 DEF Follows
    <2> QED
      BY <1>1, <1>7, <2>1, <2>2, NotFoundSound
  <1>8. \/ /\ open = <<>> /\ db' = d /\ UNCHANGED <<open, faults>> /\ Settled(r)
           /\ UNCHANGED ended
        \/ open # <<>> /\ Drop(r) /\ UNCHANGED <<db, open, faults, ended>>
        \/ /\ open = <<>> /\ faults' = faults + 1 /\ open' = <<d>> /\ Drop(r)
           /\ UNCHANGED <<db, ended>>
    BY <1>6, <1>7 DEF Transaction
  <1> QED
    BY <1>1, <1>2, <1>4, <1>5, <1>8, TransactionStep

\* The lookup's UPDATE lets the request through.
LEMMA TouchStep ==
    ASSUME IInv, NEW r \in Handlers, Touch(r)
    PROVE  IInv'
  <1> DEFINE s == h[r].sid
             d == [db EXCEPT !.sess[s].idle = IF db.sess[s].revoked THEN @ ELSE 0]
             Then == /\ \/ /\ Stage(r, "closing")
                           /\ h' = [h EXCEPT ![r].todo = <<"session_revoked", "revoke">>,
                                             ![r].at = "select"]
                           /\ Keeps(r)
                        \/ ~Stage(r, "closing") /\ Goes(r, h[r])
                        \/ Stage(r, "csrf") /\ Drop(r)
                     /\ UNCHANGED ended
  <1>1. h[r].todo # <<>> /\ Head(h[r].todo) \in SessionStages /\ AtSession(r) /\ OnLoop(r)
    BY DEF Touch, AtSession, Stage
  <1>2. /\ TypeOK /\ RequestSound(r) /\ h[r] \in Requests
        /\ Head(h[r].todo) \in {"closing", "revoke"} => h[r].kind = "logout"
        /\ h[r].sid \in Sids /\ View.sess[h[r].sid] # NoSession
    BY <1>1, SessionRequest
  <1>3. open = <<>> => View = db
    BY DEF View
  <1>4. open = <<>> => Follows(d, db, {})
    BY <1>2, <1>3, TouchedFollows
  <1>5. UNCHANGED <<auth, epoch, cli, guesses>> /\ ended \subseteq Sids
    BY <1>2 DEF Touch, TypeOK
  <1>6. Transaction(r, d, Then)
    BY DEF Touch
  <1> HIDE DEF d
  <1>7. ASSUME open = <<>>, db' = d, UNCHANGED <<open, faults>>, Then
        PROVE  Settled(r)
    <2>1. View' = d
      BY <1>7 DEF View
    <2>2. View'.sess[h[r].sid] # NoSession
      BY <1>2, <1>3, <1>4, <1>7, <2>1 DEF Follows
    <2>3. CASE /\ Stage(r, "closing")
               /\ h' = [h EXCEPT ![r].todo = <<"session_revoked", "revoke">>, ![r].at = "select"]
               /\ Keeps(r)
      <3>1. h[r].kind = "logout"
        BY <1>2, <2>3 DEF Stage
      <3> QED
        BY <1>2, <1>7, <2>2, <2>3, <3>1, LogoutTodos, RetoldSound DEF Settled
    <2>4. CASE Goes(r, h[r])
      <3>2. Head(h[r].todo) \notin {"body", "session_created"}
        BY <1>1 DEF SessionStages
      <3> QED
        BY <1>1, <1>2, <1>7, <2>2, <2>4, <3>2, GoesSound DEF Settled
    <2>5. CASE Drop(r)
      BY <1>2, <2>5, DropSound DEF Settled
    <2> QED
      BY <1>7, <2>3, <2>4, <2>5
  <1>8. \/ /\ open = <<>> /\ db' = d /\ UNCHANGED <<open, faults>> /\ Settled(r)
           /\ UNCHANGED ended
        \/ open # <<>> /\ Drop(r) /\ UNCHANGED <<db, open, faults, ended>>
        \/ /\ open = <<>> /\ faults' = faults + 1 /\ open' = <<d>> /\ Drop(r)
           /\ UNCHANGED <<db, ended>>
    BY <1>6, <1>7 DEF Transaction
  <1> QED
    BY <1>1, <1>4, <1>5, <1>8, TransactionStep

\* A request that goes on after its transaction.
LEMMA GoesOn ==
    ASSUME IInv, NEW r \in Handlers, h[r].todo # <<>>, Head(h[r].todo) # "body",
           NEW d, NEW S, Follows(d, db, S), S # {} => Head(h[r].todo) = "create",
           open = <<>>, db' = d, open' = open, Goes(r, h[r]), ended \subseteq ended',
           Head(h[r].todo) = "session_created" => RecordedIn(d, "session_created", h[r].sid) # {}
    PROVE  Settled(r)
  <1>1. TypeOK /\ RequestSound(r) /\ h[r] \in Requests
    BY DEF IInv, RequestsSound, TypeOK
  <1>2. View = db /\ View' = d
    BY DEF View
  <1>4. CASE h[r].sid \in Sids
    <2>1. View.sess[h[r].sid] # NoSession => View'.sess[h[r].sid] # NoSession
      BY <1>2, <1>4 DEF Follows
    <2>2. Head(h[r].todo) # "create" /\ View.sess[h[r].sid] = NoSession
            => View'.sess[h[r].sid] = NoSession
      BY <1>2, <1>4 DEF Follows
    <2>3. \A s : Recorded("session_created", s)' = RecordedIn(d, "session_created", s)
      BY DEF Recorded, RecordedIn
    <2> QED
      BY <1>1, <2>1, <2>2, <2>3, GoesSound DEF Settled
  <1>5. CASE h[r].sid \notin Sids
    <2>1. h[r].kind \notin Uses \cup {"logout"} /\ h[r].todo \notin Accepted
      BY <1>1, <1>5 DEF RequestSound
    <2>2. h[r].kind \in Kinds /\ h[r].todo \in Todos(h[r].kind)
      BY <1>1 DEF RequestSound, Requests
    <2>3. CASE Len(h[r].todo) = 1
      BY <1>1, <2>3, DropSound DEF Goes, Settled
    <2>4. CASE Len(h[r].todo) # 1
      <3> DEFINE todo == Tail(h[r].todo)
      <3>1. todo \in Todos(h[r].kind) /\ todo \notin Accepted
        BY <2>1, <2>2, <2>4, TodoTails
      <3>2. Keeps(r) /\ h' = [h EXCEPT ![r] = [h[r] EXCEPT !.todo = todo, !.at = "select"]]
        BY <1>1, <2>4 DEF Goes, Requests
      <3> HIDE DEF todo
      <3>3. todo \in Seq(Stages)
        BY <2>2, <3>1, TodosAreStages
      <3> DEFINE p == [h[r] EXCEPT !.todo = todo, !.at = "select"]
      <3>4. /\ p \in Requests /\ p.todo = todo /\ p.at = "select" /\ p.kind = h[r].kind
            /\ p.sid = h[r].sid /\ p.late = h[r].late
        BY <1>1, <3>3 DEF Requests
      <3> HIDE DEF p
      <3>5. h' \in [Handlers -> Requests] /\ h'[r] = p /\ \A x \in Handlers \ {r} : h'[x] = h[x]
        BY <1>1, <3>2, <3>4, RequestUpdate DEF p
      <3>6. p.todo # <<"create">>
        BY <3>1, <3>4 DEF Accepted
      <3>7. RequestSound(r)'
        BY <1>1, <2>1, <3>1, <3>4, <3>5, <3>6 DEF RequestSound
      <3> QED
        BY <3>2, <3>5, <3>7 DEF Settled
    <2> QED
      BY <2>3, <2>4
  <1> QED
    BY <1>4, <1>5

\* A logout revokes its session and is answered.
LEMMA RevokeStep ==
    ASSUME IInv, NEW r \in Handlers, Revoke(r)
    PROVE  IInv'
  <1> DEFINE s == h[r].sid
             d == [db EXCEPT !.sess[s].revoked = TRUE]
  <1>1. h[r].todo # <<>> /\ Head(h[r].todo) = "revoke"
    BY DEF Revoke, Stage
  <1>2. /\ h[r].kind = "logout" /\ s \in Sids /\ View.sess[s] # NoSession /\ ended \subseteq Sids
    BY <1>1, SessionRequest DEF TypeOK
  <1>3. open = <<>> => View = db
    BY DEF View
  <1>4. open = <<>> => Follows(d, db, {}) /\ d.sess[s].revoked = TRUE
    BY <1>2, <1>3, RevokedFollows
  <1>5. UNCHANGED <<auth, epoch, cli, guesses>> /\ OnLoop(r)
    BY <1>2 DEF Revoke, OnLoop, Async
  <1>6. Transaction(r, d, Goes(r, h[r]) /\ ended' = ended \cup {s})
    BY DEF Revoke
  <1> HIDE DEF d
  <1>7. ASSUME open = <<>>, db' = d, UNCHANGED <<open, faults>>, Goes(r, h[r]), ended' = ended \cup {s}
        PROVE  Settled(r)
    BY <1>1, <1>4, <1>7, GoesOn
  <1>8. \/ /\ open = <<>> /\ db' = d /\ UNCHANGED <<open, faults>> /\ Settled(r)
           /\ ended' = ended \cup {s}
        \/ open # <<>> /\ Drop(r) /\ UNCHANGED <<db, open, faults, ended>>
        \/ /\ open = <<>> /\ faults' = faults + 1 /\ open' = <<d>> /\ Drop(r)
           /\ UNCHANGED <<db, ended>>
    BY <1>6, <1>7 DEF Transaction
  <1> QED
    BY <1>2, <1>4, <1>5, <1>8, TransactionStep

\* A rotation revokes the sessions there are.
LEMMA RevokeAllStep ==
    ASSUME IInv, NEW r \in Handlers, RevokeAll(r)
    PROVE  IInv'
  <1> DEFINE f == [s \in Sids |-> [db.sess[s] EXCEPT !.revoked = @ \/ s \in Live(db)]]
             d == [db EXCEPT !.sess = f]
  <1>1. h[r].todo # <<>> /\ Head(h[r].todo) = "revoke_all"
    BY DEF RevokeAll, Stage
  <1>2. IsDatabase(db) /\ verify_chain(db.ledger) /\ db.sess \in [Sids -> Sessions]
    BY DEF IInv, TypeOK, EvidenceIsWhole, IsDatabase
  <1>3. ASSUME NEW s \in Sids
        PROVE  /\ f[s] \in Sessions /\ (db.sess[s] = NoSession <=> f[s] = NoSession)
               /\ db.sess[s].revoked => f[s].revoked
               /\ s \in Live(db) => f[s].revoked
    <2>1. CASE db.sess[s] = NoSession
      <3>1. s \notin Live(db)
        BY <2>1 DEF Live
      <3>2. f[s] = [NoSession EXCEPT !.revoked = @ \/ FALSE]
        BY <2>1, <3>1
      <3>3. f[s] = NoSession
        BY <3>2 DEF NoSession
      <3> QED
        BY <2>1, <3>1, <3>3 DEF Sessions
    <2>2. CASE db.sess[s] # NoSession
      <3>1. db.sess[s] \in [epoch : Positive, left : Nat, idle : Nat, revoked : BOOLEAN]
        BY <1>2, <2>2 DEF Sessions
      <3>2. f[s] = [db.sess[s] EXCEPT !.revoked = TRUE]
        BY <2>2, <3>1 DEF Live
      <3>3. /\ f[s] \in [epoch : Positive, left : Nat, idle : Nat, revoked : BOOLEAN]
            /\ f[s].revoked = TRUE
        BY <3>1, <3>2
      <3> QED
        BY <2>2, <3>3 DEF Sessions, NoSession
    <2> QED
      BY <2>1, <2>2
  <1>4. f \in [Sids -> Sessions]
    BY <1>3
  <1> HIDE DEF f
  <1>5. Follows(d, db, {}) /\ d.sess = f
    <2>1. Follows([db EXCEPT !.sess = f], db, {})
      BY <1>2, <1>3, <1>4, SessionsFollow
    <2> QED
      BY <1>2, <2>1 DEF IsDatabase
  <1>6. h[r].kind = "rotate" /\ ended \subseteq Sids
    <2>1. TypeOK /\ RequestSound(r)
      BY DEF IInv, RequestsSound
    <2> QED
      BY <1>1, <2>1, StageKinds DEF Kinds, UseStages, LogoutStages, TypeOK
  <1>7. UNCHANGED <<auth, epoch, cli, guesses>> /\ OnLoop(r)
    BY <1>6 DEF RevokeAll, OnLoop, Async
  <1>8. Transaction(r, d, Goes(r, h[r]) /\ ended' = ended \cup Live(db))
    BY DEF RevokeAll, f
  <1> HIDE DEF d
  <1>9. ASSUME open = <<>>, db' = d, UNCHANGED <<open, faults>>, Goes(r, h[r]),
               ended' = ended \cup Live(db)
        PROVE  Settled(r)
    BY <1>1, <1>5, <1>9, GoesOn
  <1>10. \A s \in Live(db) : s \in Sids /\ d.sess[s].revoked
    BY <1>3, <1>5 DEF Live
  <1>11. \/ /\ open = <<>> /\ db' = d /\ UNCHANGED <<open, faults>> /\ Settled(r)
            /\ ended' = ended \cup Live(db)
         \/ open # <<>> /\ Drop(r) /\ UNCHANGED <<db, open, faults, ended>>
         \/ /\ open = <<>> /\ faults' = faults + 1 /\ open' = <<d>> /\ Drop(r)
            /\ UNCHANGED <<db, ended>>
    BY <1>8, <1>9 DEF Transaction
  <1> QED
    BY <1>5, <1>6, <1>7, <1>10, <1>11, TransactionStep

\* An accepted login creates its session, recorded before.
LEMMA CreateStep ==
    ASSUME IInv, NEW r \in Handlers, Create(r)
    PROVE  IInv'
  <1> DEFINE s == h[r].sid
             row == [epoch |-> h[r].epoch, left |-> Absolute, idle |-> 0, revoked |-> FALSE]
             f == [db.sess EXCEPT ![s] = row]
             d == [db EXCEPT !.sess[s] = row]
  <1>1. h[r].todo # <<>> /\ Head(h[r].todo) = "create" /\ TypeOK /\ RequestSound(r)
    BY DEF Create, Stage, IInv, RequestsSound
  <1>2. h[r].todo = <<"create">>
    <2>1. h[r].kind = "login" /\ h[r].todo \in LoginTodos
      BY <1>1, StageKinds
         DEF Kinds, UseStages, LogoutStages, RotationStages, RequestSound, Todos
    <2> QED
      BY <1>1, <2>1 DEF LoginTodos, Accepted, AfterAccepted, LoginRoute
  <1>3. h[r].epoch \in Positive /\ s \in Sids /\ View.sess[s] = NoSession /\ ended \subseteq Sids
    BY <1>1, <1>2 DEF RequestSound, Accepted, Positive, TypeOK, Requests
  <1>4. IsDatabase(db) /\ verify_chain(db.ledger) /\ db.sess \in [Sids -> Sessions]
    BY DEF IInv, TypeOK, EvidenceIsWhole, IsDatabase
  <1>5. row \in Sessions /\ row # NoSession
    <2>1. Absolute \in Nat
      BY ConstantsAssumption
    <2> QED
      BY <1>3, <2>1 DEF Sessions, NoSession, Positive
  <1> HIDE DEF row
  <1>6. f \in [Sids -> Sessions] /\ f[s] = row /\ \A t \in Sids \ {s} : f[t] = db.sess[t]
    BY <1>3, <1>4, <1>5
  <1>7. d = [db EXCEPT !.sess = f]
    BY <1>4 DEF IsDatabase
  <1> HIDE DEF f, d
  <1>8. ASSUME open = <<>>
        PROVE  Follows(d, db, {s})
    <2>1. db.sess[s] = NoSession
      BY <1>3, <1>8 DEF View
    <2>2. ~db.sess[s].revoked
      BY <2>1 DEF NoSession
    <2>3. /\ \A t \in Sids : db.sess[t] # NoSession => f[t] # NoSession
          /\ \A t \in Sids \ {s} : db.sess[t] = NoSession => f[t] = NoSession
          /\ \A t \in Sids : db.sess[t].revoked => f[t].revoked
      BY <1>5, <1>6, <2>2
    <2> QED
      BY <1>4, <1>6, <1>7, <2>3, SessionsFollow
  <1>9. UNCHANGED <<auth, epoch, cli, guesses>> /\ OnLoop(r)
    BY DEF Create
  <1>10. Transaction(r, d, Goes(r, h[r]) /\ UNCHANGED ended)
    BY DEF Create, d, row
  <1>11. ASSUME open = <<>>, db' = d, UNCHANGED <<open, faults>>, Goes(r, h[r]), UNCHANGED ended
         PROVE  Settled(r)
    BY <1>1, <1>8, <1>11, GoesOn
  <1>12. \/ /\ open = <<>> /\ db' = d /\ UNCHANGED <<open, faults>> /\ Settled(r)
            /\ UNCHANGED ended
         \/ open # <<>> /\ Drop(r) /\ UNCHANGED <<db, open, faults, ended>>
         \/ /\ open = <<>> /\ faults' = faults + 1 /\ open' = <<d>> /\ Drop(r)
            /\ UNCHANGED <<db, ended>>
    BY <1>10, <1>11 DEF Transaction
  <1> QED
    BY <1>2, <1>3, <1>8, <1>9, <1>12, TransactionStep

\* Evidence is appended in a transaction of its own.
LEMMA AppendEventStep ==
    ASSUME IInv, NEW r \in Handlers, AppendEvent(r)
    PROVE  IInv'
  <1> DEFINE type == Head(h[r].todo)
             e == EventOf(type, h[r].sid)
             d == append_in_transaction(db, e)
  <1>1. h[r].todo # <<>> /\ type \in AppendStages /\ ended \subseteq Sids
    BY DEF AppendEvent, IInv, TypeOK
  <1>2. IsDatabase(db) /\ verify_chain(db.ledger)
    BY DEF IInv, TypeOK, EvidenceIsWhole
  <1>3. e = Event("other", None) \/ e = Event("session_created", h[r].sid)
    BY DEF EventOf
  <1>4. type = "session_created" => e = Event("session_created", h[r].sid)
    BY DEF EventOf
  <1> HIDE DEF e
  <1>5. Follows(d, db, {})
    BY <1>2, <1>3, EvidenceFollows
  <1>6. type = "session_created" => RecordedIn(d, "session_created", h[r].sid) # {}
    BY <1>2, <1>4, EvidenceFollows
  <1>7. UNCHANGED <<auth, epoch, cli, guesses>> /\ OnLoop(r)
    BY DEF AppendEvent
  <1>8. Transaction(r, d, Goes(r, h[r]) /\ UNCHANGED ended)
    BY DEF AppendEvent, e
  <1> HIDE DEF d
  <1>9. ASSUME open = <<>>, db' = d, UNCHANGED <<open, faults>>, Goes(r, h[r]), UNCHANGED ended
        PROVE  Settled(r)
    <2>1. type # "body"
      BY <1>1 DEF AppendStages
    <2> QED
      BY <1>1, <1>5, <1>6, <1>9, <2>1, GoesOn
  <1>10. \/ /\ open = <<>> /\ db' = d /\ UNCHANGED <<open, faults>> /\ Settled(r)
            /\ UNCHANGED ended
         \/ open # <<>> /\ Drop(r) /\ UNCHANGED <<db, open, faults, ended>>
         \/ /\ open = <<>> /\ faults' = faults + 1 /\ open' = <<d>> /\ Drop(r)
            /\ UNCHANGED <<db, ended>>
    BY <1>8, <1>9 DEF Transaction
  <1> QED
    BY <1>1, <1>5, <1>7, <1>10, TransactionStep

\* A request that goes on without a transaction.
LEMMA GoesQuiet ==
    ASSUME IInv, NEW r \in Handlers, h[r].todo # <<>>,
           Head(h[r].todo) \notin {"body", "session_created"},
           NEW q, q = h[r], Goes(r, q),
           UNCHANGED <<db, open, ended>>
    PROVE  Settled(r)
  <1>1. TypeOK /\ RequestSound(r)
    BY DEF IInv, RequestsSound
  <1>2. View' = View
    BY DEF View
  <1> QED
    BY <1>1, <1>2, GoesSound DEF Settled

\* A rotation's request.
LEMMA RotationRequest ==
    ASSUME IInv, NEW r \in Handlers, h[r].todo # <<>>,
           Head(h[r].todo) \in {"rotate_auth", "rotate_store"}, Goes(r, h[r]),
           UNCHANGED <<db, open, ended>>
    PROVE  Settled(r) /\ OnLoop(r)
  <1>1. TypeOK /\ RequestSound(r) /\ h[r] \in Requests
    BY DEF IInv, RequestsSound, TypeOK
  <1>2. h[r].kind = "rotate"
    BY <1>1, StageKinds DEF Kinds, UseStages, LogoutStages
  <1>3. Settled(r)
    BY GoesQuiet
  <1> QED
    BY <1>2, <1>3 DEF OnLoop, Async

\* A rotation raises the authenticator's epoch ...
LEMMA RotateAuthStep ==
    ASSUME IInv, NEW r \in Handlers, RotateAuth(r)
    PROVE  IInv'
  <1>1. /\ h[r].todo # <<>> /\ Head(h[r].todo) = "rotate_auth" /\ Goes(r, h[r])
        /\ UNCHANGED <<db, open, epoch, cli, faults, ended, guesses>>
    BY DEF RotateAuth, Stage
  <1>2. Settled(r) /\ OnLoop(r)
    BY <1>1, RotationRequest
  <1>3. /\ IsAuth(auth') /\ auth'.failures = auth.failures /\ auth'.locked = auth.locked
        /\ epoch' \in Nat /\ guesses' \in Seq(0 .. Lockout)
    BY <1>1 DEF RotateAuth, IInv, TypeOK, IsAuth, Positive
  <1>4. GuessesCounted'
    BY <1>1, <1>3 DEF IInv, GuessesCounted
  <1> QED
    BY <1>1, <1>2, <1>3, <1>4, QuietStep DEF Settled

\* ... and then the session store's.
LEMMA RotateStoreStep ==
    ASSUME IInv, NEW r \in Handlers, RotateStore(r)
    PROVE  IInv'
  <1>1. /\ h[r].todo # <<>> /\ Head(h[r].todo) = "rotate_store" /\ Goes(r, h[r])
        /\ UNCHANGED <<db, open, auth, cli, faults, ended, guesses>> /\ epoch' = epoch + 1
    BY DEF RotateStore, Stage
  <1>2. Settled(r) /\ OnLoop(r)
    BY <1>1, RotationRequest
  <1>3. epoch' \in Nat
    BY <1>1 DEF IInv, TypeOK
  <1> QED
    BY <1>1, <1>2, <1>3, AuthFrame, QuietStep DEF Settled

\* The elements of a sequence.
LEMMA SeqElements ==
    ASSUME NEW S, NEW q \in Seq(S)
    PROVE  \A i \in DOMAIN q : q[i] \in S
  OBVIOUS

\* What a login attempt does to the authenticator's counters.
LEMMA AttemptCounted ==
    ASSUME IInv, NEW good \in BOOLEAN,
           CASE auth.locked > 0 \/ auth.cooldown > 0 -> UNCHANGED <<auth, guesses>>
             [] auth.locked = 0 /\ auth.cooldown = 0 /\ good ->
                    auth' = [NewAuth EXCEPT !.epoch = auth.epoch] /\ guesses' = <<>>
             [] OTHER -> auth' = Rejected(Failed(auth.failures) + 1) /\ guesses' = Append(guesses, 0)
    PROVE  IsAuth(auth') /\ guesses' \in Seq(0 .. Lockout) /\ GuessesCounted'
  <1>1. /\ IsAuth(auth) /\ guesses \in Seq(0 .. Lockout) /\ GuessesCounted
        /\ MaxFailures \in Nat /\ MaxFailures > 0 /\ Lockout \in Nat /\ Lockout > 0
    BY ConstantsAssumption DEF IInv, TypeOK
  <1>2. CASE auth.locked > 0 \/ auth.cooldown > 0
    <2>1. ~(auth.locked = 0 /\ auth.cooldown = 0 /\ good)
      BY <1>2
    <2>2. UNCHANGED <<auth, guesses>>
      BY <1>2, <2>1
    <2> QED
      BY <2>2, AuthFrame
  <1>3. CASE auth.locked = 0 /\ auth.cooldown = 0 /\ good
    <2>1. auth' = [NewAuth EXCEPT !.epoch = auth.epoch] /\ guesses' = <<>>
      BY <1>3
    <2>2. IsAuth(auth') /\ auth'.failures = 0
      BY <1>1, <2>1 DEF IsAuth, NewAuth
    <2> QED
      BY <1>1, <2>1, <2>2 DEF GuessesCounted
  <1>4. CASE ~(auth.locked > 0 \/ auth.cooldown > 0) /\ ~(auth.locked = 0 /\ auth.cooldown = 0 /\ good)
    <2> DEFINE n == Failed(auth.failures) + 1
    <2>1. auth' = Rejected(n) /\ guesses' = Append(guesses, 0)
      BY <1>4
    <2>2. auth.locked = 0 /\ auth.failures \in Nat /\ n \in Nat
      BY <1>1, <1>4 DEF IsAuth, Failed
    <2>3. /\ guesses' \in Seq(0 .. Lockout) /\ Len(guesses') = Len(guesses) + 1
          /\ Len(guesses) \in Nat /\ DOMAIN guesses' = 1 .. Len(guesses')
      BY <1>1, <2>1
    <2>4. \A i \in DOMAIN guesses' : guesses'[i] \in 0 .. Lockout
      BY <2>3, SeqElements
    <2>5. /\ auth.failures < MaxFailures => n = auth.failures + 1 /\ Len(guesses) <= auth.failures
          /\ auth.failures >= MaxFailures => n >= MaxFailures /\ Len(guesses) = 0
      BY <1>1, <2>2 DEF GuessesCounted, Failed
    <2> HIDE DEF n
    <2>6. CASE n >= MaxFailures
      <3>1. IsAuth(auth') /\ auth'.failures = n /\ auth'.locked = Lockout
        BY <1>1, <2>1, <2>2, <2>6 DEF Rejected, IsAuth
      <3> QED
        BY <1>1, <2>2, <2>3, <2>4, <2>5, <2>6, <3>1 DEF GuessesCounted
    <2>7. CASE n < MaxFailures
      <3>1. IsAuth(auth') /\ auth'.failures = n
        BY <1>1, <2>1, <2>2, <2>7 DEF Rejected, IsAuth
      <3> QED
        BY <1>1, <2>2, <2>3, <2>5, <2>7, <3>1 DEF GuessesCounted
    <2> QED
      BY <1>1, <2>2, <2>6, <2>7
  <1> QED
    BY <1>2, <1>3, <1>4

\* A secret is verified, or refused unseen.
LEMMA AuthenticateStep ==
    ASSUME IInv, NEW r \in Handlers, NEW good \in BOOLEAN, Authenticate(r, good)
    PROVE  IInv'
  <1>1. /\ h[r].todo # <<>> /\ Head(h[r].todo) = "authenticate" /\ OnLoop(r) /\ Keeps(r)
        /\ UNCHANGED <<db, open, epoch, cli, faults, ended>>
    BY DEF Authenticate, Stage
  <1>2. TypeOK /\ RequestSound(r) /\ h[r] \in Requests /\ epoch' \in Nat /\ View' = View
    BY <1>1 DEF IInv, RequestsSound, TypeOK, View
  <1>3. h[r].kind = "login"
    BY <1>1, <1>2, StageKinds DEF Kinds, UseStages, LogoutStages, RotationStages
  <1>4. IsAuth(auth') /\ guesses' \in Seq(0 .. Lockout) /\ GuessesCounted'
    BY AttemptCounted DEF Authenticate
  <1>5. loop' = r /\ ~h[r].late
    BY <1>1, <1>2, <1>3 DEF Keeps, Async, RequestSound, Uses
  <1>6. Settled(r)
    <2>1. CASE h' = [h EXCEPT ![r].todo = <<"authentication_failure">>]
      <3>1. /\ <<"authentication_failure">> \in Todos(h[r].kind)
            /\ <<"authentication_failure">> \notin Accepted
        BY <1>3 DEF Todos, LoginTodos, Accepted, AfterAccepted
      <3>2. h[r].at \in {"select", "touch", "expire"}
        BY <1>2 DEF Requests
      <3> QED
        BY <1>1, <1>2, <1>5, <2>1, <3>1, <3>2, RetoldSound DEF Settled
    <2>2. ASSUME NEW s \in Sids, View.sess[s] = NoSession,
                 h' = [h EXCEPT ![r].todo = AfterAccepted, ![r].sid = s, ![r].epoch = auth.epoch]
          PROVE  Settled(r)
      <3> DEFINE p == [h[r] EXCEPT !.todo = AfterAccepted, !.sid = s, !.epoch = auth.epoch]
      <3>1. h' = [h EXCEPT ![r] = p]
        BY <1>2, <2>2 DEF TypeOK, Requests
      <3>2. AfterAccepted \in Todos("login") /\ AfterAccepted \in Accepted
            /\ AfterAccepted # <<"create">>
        BY DEF Todos, LoginTodos, Accepted, AfterAccepted
      <3>3. AfterAccepted \in Seq(Stages) /\ auth.epoch \in Nat /\ auth.epoch # 0
        <4>1. "login" \in Kinds
          BY DEF Kinds
        <4> QED
          BY <1>2, <3>2, <4>1, TodosAreStages DEF TypeOK, IsAuth, Positive
      <3>4. ASSUME NEW t \in Seq(Stages), NEW n \in Nat
            PROVE  LET b == [h[r] EXCEPT !.todo = t, !.sid = s, !.epoch = n] IN
                   /\ b \in Requests /\ b.kind = h[r].kind /\ b.todo = t /\ b.sid = s
                   /\ b.epoch = n /\ b.late = h[r].late
        BY <1>2 DEF Requests
      <3>5. /\ p \in Requests /\ p.kind = h[r].kind /\ p.todo = AfterAccepted /\ p.sid = s
            /\ p.epoch = auth.epoch /\ p.late = h[r].late
        BY <3>3, <3>4
      <3> HIDE DEF p
      <3>6. h' \in [Handlers -> Requests] /\ h'[r] = p /\ \A x \in Handlers \ {r} : h'[x] = h[x]
        BY <1>2, <3>1, <3>5, RequestUpdate
      <3>7. RequestSound(r)'
        BY <1>2, <1>3, <1>5, <2>2, <3>2, <3>3, <3>5, <3>6 DEF RequestSound, Uses
      <3> QED
        BY <1>1, <3>6, <3>7 DEF Settled
    <2> QED
      BY <2>1, <2>2 DEF Authenticate
  <1> QED
    BY <1>1, <1>2, <1>4, <1>6, QuietStep DEF Settled

-----------------------------------------------------------------------------
(* Commands and the environment.                                             *)

\* A step that leaves the requests where they are keeps the invariant when the
\* data it leaves is whole.
LEMMA CommandStep ==
    ASSUME IInv, UNCHANGED <<epoch, loop, h, faults, ended>>,
           IsAuth(auth'), guesses' \in Seq(0 .. Lockout), GuessesCounted',
           IsDatabase(db'), open' = <<>> \/ (open' = <<open'[1]>> /\ IsDatabase(open'[1])),
           Whole(db'), View'.regs = db'.regs,
           \A s \in Sids : /\ View'.sess[s] = NoSession <=> View.sess[s] = NoSession
                           /\ View.sess[s].revoked => View'.sess[s].revoked
                           /\ db.sess[s].revoked => db'.sess[s].revoked
                           /\ RecordedIn(db', "session_created", s)
                                 = RecordedIn(db, "session_created", s),
           cli' \in [Clis -> [kind : {"idle", "revoke"}, rid : Rids \cup {None}]],
           CommandsSound'
    PROVE  IInv'
  <1>1. TypeOK'
    BY DEF IInv, TypeOK
  <1>2. EndsHold'
    BY DEF IInv, TypeOK, EndsHold
  <1>3. EvidenceIsWhole'
    BY DEF EvidenceIsWhole, Whole, Recorded, RecordedIn
  <1>4. ASSUME NEW x \in Handlers
        PROVE  RequestSound(x)'
    <2>1. RequestSound(x)
      BY DEF IInv, RequestsSound
    <2>2. h[x].todo = <<"create">> => h[x].sid \in Sids /\ Recorded("session_created", h[x].sid)' # {}
      <3> SUFFICES ASSUME h[x].todo = <<"create">>
                   PROVE  h[x].sid \in Sids /\ Recorded("session_created", h[x].sid)' # {}
        OBVIOUS
      <3>1. h[x].sid \in Sids /\ Recorded("session_created", h[x].sid) # {}
        BY <2>1 DEF RequestSound, Accepted
      <3>2. \A s \in Sids : Recorded("session_created", s)' = Recorded("session_created", s)
        BY DEF Recorded, RecordedIn
      <3> QED
        BY <3>1, <3>2
    <2> QED
      BY <2>1, <2>2 DEF RequestSound
  <1> QED
    BY <1>1, <1>2, <1>3, <1>4 DEF IInv, RequestsSound

\* `register` saves a registration and its evidence.
LEMMA RegisterStep ==
    ASSUME IInv, NEW c \in Clis, NEW q, Register(c, q)
    PROVE  IInv'
  <1>1. PICK rid \in create_registration(db) : db' = save(db, rid)
    BY DEF Register
  <1>2. /\ rid \in Rids /\ db.regs[rid] = "ABSENT" /\ open = <<>> /\ open' = <<>>
        /\ UNCHANGED <<auth, epoch, loop, h, cli, faults, ended, guesses>>
    BY <1>1 DEF Register, create_registration
  <1>3. /\ IsDatabase(db) /\ Whole(db) /\ db.regs \in [Rids -> {"ABSENT", "REGISTERED", "REVOKED"}]
        /\ cli' \in [Clis -> [kind : {"idle", "revoke"}, rid : Rids \cup {None}]]
    BY <1>2, WholeDb DEF IInv, TypeOK, IsDatabase
  <1>4. /\ IsDatabase(db') /\ Whole(db') /\ db'.sess = db.sess
        /\ db'.regs = [db.regs EXCEPT ![rid] = "REGISTERED"]
        /\ \A s : RecordedIn(db', "session_created", s) = RecordedIn(db, "session_created", s)
    BY <1>1, <1>2, <1>3, SaveWhole
  <1>5. View' = db' /\ View = db
    BY <1>2 DEF View
  <1>6. CommandsSound'
    BY <1>2, <1>3, <1>4 DEF IInv, CommandsSound
  <1> QED
    BY <1>2, <1>3, <1>4, <1>5, <1>6, AuthFrame, CommandStep

\* `revoke` reads the active registration ...
LEMMA ReadStatusStep ==
    ASSUME IInv, NEW c \in Clis, ReadStatus(c)
    PROVE  IInv'
  <1>1. PICK rid \in Active(db) : cli' = [cli EXCEPT ![c] = [kind |-> "revoke", rid |-> rid]]
    BY DEF ReadStatus
  <1>2. /\ rid \in Rids /\ db.regs[rid] # "ABSENT" /\ View' = View
        /\ UNCHANGED <<db, open, auth, epoch, loop, h, faults, ended, guesses>>
    BY <1>1 DEF ReadStatus, Active, View
  <1>3. /\ cli \in [Clis -> [kind : {"idle", "revoke"}, rid : Rids \cup {None}]]
        /\ IsDatabase(db') /\ Whole(db') /\ View'.regs = db'.regs
        /\ open' = <<>> \/ (open' = <<open'[1]>> /\ IsDatabase(open'[1]))
    BY <1>2, WholeDb DEF IInv, TypeOK, EndsHold
  <1>4. cli' \in [Clis -> [kind : {"idle", "revoke"}, rid : Rids \cup {None}]]
    BY <1>1, <1>2, <1>3
  <1>5. CommandsSound'
    BY <1>1, <1>2, <1>3 DEF IInv, CommandsSound
  <1> QED
    BY <1>2, <1>3, <1>4, <1>5, AuthFrame, CommandStep

\* ... and then writes it, with its evidence, or not at all.
LEMMA UpdateStatusStep ==
    ASSUME IInv, NEW c \in Clis, UpdateStatus(c)
    PROVE  IInv'
  <1> DEFINE rid == cli[c].rid
  <1>1. /\ cli[c].kind = "revoke" /\ cli' = [cli EXCEPT ![c] = IdleCli]
        /\ UNCHANGED <<open, auth, epoch, loop, h, faults, ended, guesses>>
    BY DEF UpdateStatus
  <1>2. rid \in Rids /\ db.regs[rid] # "ABSENT"
    BY <1>1 DEF IInv, CommandsSound
  <1>3. /\ cli \in [Clis -> [kind : {"idle", "revoke"}, rid : Rids \cup {None}]]
        /\ IsDatabase(db) /\ Whole(db) /\ View.regs = db.regs
        /\ open = <<>> \/ (open = <<open[1]>> /\ IsDatabase(open[1]))
        /\ db.regs \in [Rids -> {"ABSENT", "REGISTERED", "REVOKED"}]
    BY WholeDb DEF IInv, TypeOK, EndsHold, IsDatabase
  <1>4. /\ cli' \in [Clis -> [kind : {"idle", "revoke"}, rid : Rids \cup {None}]]
        /\ \A x \in Clis : cli'[x].kind = "revoke" => cli'[x] = cli[x]
    BY <1>1, <1>3 DEF IdleCli
  <1>5. CASE open = <<>> /\ db' = update_status(db, rid)
    <2>1. /\ IsDatabase(db') /\ Whole(db') /\ db'.sess = db.sess
          /\ db'.regs = [db.regs EXCEPT ![rid] = "REVOKED"]
          /\ \A s : RecordedIn(db', "session_created", s) = RecordedIn(db, "session_created", s)
      BY <1>2, <1>3, <1>5, UpdateWhole
    <2>2. View' = db' /\ View = db
      BY <1>1, <1>5 DEF View
    <2>3. CommandsSound'
      BY <1>3, <1>4, <2>1 DEF IInv, CommandsSound
    <2> QED
      BY <1>1, <1>3, <1>4, <1>5, <2>1, <2>2, <2>3, AuthFrame, CommandStep
  <1>6. CASE UNCHANGED db
    <2>1. View' = View
      BY <1>1, <1>6 DEF View
    <2>2. CommandsSound'
      BY <1>3, <1>4, <1>6 DEF IInv, CommandsSound
    <2> QED
      BY <1>1, <1>3, <1>4, <1>6, <2>1, <2>2, AuthFrame, CommandStep
  <1> QED
    BY <1>5, <1>6 DEF UpdateStatus

\* Time passing ends no session and revives none.
LEMMA AgedData ==
    ASSUME NEW d, IsDatabase(d)
    PROVE  /\ IsDatabase(Aged(d)) /\ Aged(d).regs = d.regs /\ Aged(d).ledger = d.ledger
           /\ \A s \in Sids : /\ Aged(d).sess[s] = NoSession <=> d.sess[s] = NoSession
                              /\ Aged(d).sess[s].revoked = d.sess[s].revoked
  <1> DEFINE f == [s \in Sids |->
                      IF d.sess[s] = NoSession THEN NoSession
                      ELSE [d.sess[s] EXCEPT !.left = Less(@),
                                             !.idle = IF @ = Inactivity THEN @ ELSE @ + 1]]
  <1>1. Aged(d) = [d EXCEPT !.sess = f]
    BY DEF Aged
  <1>2. ASSUME NEW s \in Sids
        PROVE  /\ f[s] \in Sessions /\ (f[s] = NoSession <=> d.sess[s] = NoSession)
               /\ f[s].revoked = d.sess[s].revoked
    <2>1. CASE d.sess[s] = NoSession
      <3>1. f[s] = NoSession
        BY <2>1
      <3> QED
        BY <2>1, <3>1 DEF Sessions
    <2>2. CASE d.sess[s] # NoSession
      <3> DEFINE row == d.sess[s]
                 left == Less(row.left)
                 idle == IF row.idle = Inactivity THEN row.idle ELSE row.idle + 1
      <3>1. row \in [epoch : Positive, left : Nat, idle : Nat, revoked : BOOLEAN]
        BY <2>2 DEF IsDatabase, Sessions
      <3>2. left \in Nat /\ idle \in Nat
        BY <3>1 DEF Less
      <3>3. f[s] = [row EXCEPT !.left = left, !.idle = idle]
        BY <2>2
      <3> HIDE DEF row, left, idle, f
      <3>4. /\ f[s] \in [epoch : Positive, left : Nat, idle : Nat, revoked : BOOLEAN]
            /\ f[s].revoked = row.revoked /\ f[s].epoch \in Positive
        BY <3>1, <3>2, <3>3
      <3>5. f[s] # NoSession
        BY <3>4 DEF NoSession, Positive
      <3> QED
        BY <2>2, <3>4, <3>5 DEF Sessions, row
    <2> QED
      BY <2>1, <2>2
  <1>3. f \in [Sids -> Sessions]
    BY <1>2
  <1> HIDE DEF f
  <1>4. Aged(d) = [sess |-> f, regs |-> d.regs, ledger |-> d.ledger]
    BY <1>1 DEF IsDatabase
  <1>5. Aged(d).sess = f /\ Aged(d).regs = d.regs /\ Aged(d).ledger = d.ledger
    BY <1>4
  <1>6. IsDatabase(Aged(d))
    BY <1>3, <1>4, <1>5 DEF IsDatabase
  <1> QED
    BY <1>2, <1>5, <1>6

\* The lockout and the ages of the guesses it counts run together.
LEMMA GuessesAge ==
    ASSUME IInv, Tick
    PROVE  IsAuth(auth') /\ guesses' \in Seq(0 .. Lockout) /\ GuessesCounted'
  <1> DEFINE aged == [i \in DOMAIN guesses |->
                         IF guesses[i] < Lockout THEN guesses[i] + 1 ELSE guesses[i]]
  <1>1. /\ IsAuth(auth) /\ guesses \in Seq(0 .. Lockout) /\ GuessesCounted
        /\ MaxFailures \in Nat /\ MaxFailures > 0 /\ Lockout \in Nat /\ Lockout > 0
    BY ConstantsAssumption DEF IInv, TypeOK
  <1>2. DOMAIN guesses = 1 .. Len(guesses) /\ Len(guesses) \in Nat
        /\ \A i \in DOMAIN guesses : guesses[i] \in 0 .. Lockout
    BY <1>1, SeqElements
  <1>3. \A i \in DOMAIN guesses : aged[i] \in 0 .. Lockout
    BY <1>1, <1>2
  <1>4. aged \in Seq(0 .. Lockout) /\ DOMAIN aged = DOMAIN guesses /\ Len(aged) = Len(guesses)
    <2>1. aged \in [1 .. Len(guesses) -> 0 .. Lockout]
      BY <1>2, <1>3
    <2> QED
      BY <1>2, <2>1
  <1>5. \A i \in DOMAIN guesses :
           aged[i] = IF guesses[i] < Lockout THEN guesses[i] + 1 ELSE guesses[i]
    OBVIOUS
  <1>6. guesses' = IF \A i \in DOMAIN aged : aged[i] >= Lockout THEN <<>> ELSE aged
    BY DEF Tick
  <1> HIDE DEF aged
  <1>7. auth' = [auth EXCEPT !.cooldown = Less(@), !.locked = Less(@)]
    BY DEF Tick
  <1>8. /\ IsAuth(auth') /\ auth'.failures = auth.failures /\ auth'.locked = Less(auth.locked)
        /\ auth.locked \in Nat /\ auth.failures \in Nat
    <2> DEFINE locked == Less(auth.locked)
               cooldown == Less(auth.cooldown)
    <2>1. auth.locked \in Nat /\ auth.failures \in Nat /\ locked \in Nat
      BY <1>1 DEF IsAuth, Less
    <2>2. auth' = [auth EXCEPT !.cooldown = cooldown, !.locked = locked]
      BY <1>7
    <2> HIDE DEF locked, cooldown
    <2>3. auth' = [failures |-> auth.failures, cooldown |-> cooldown, locked |-> locked,
                   epoch |-> auth.epoch]
      BY <1>1, <2>2 DEF IsAuth
    <2>4. IsAuth(auth') /\ auth'.failures = auth.failures /\ auth'.locked = locked
      BY <1>1, <2>1, <2>3 DEF IsAuth
    <2> QED
      BY <2>1, <2>4 DEF locked
  <1>9. guesses' \in Seq(0 .. Lockout) /\ Len(guesses') <= Len(guesses) /\ Len(guesses') \in Nat
    <2>1. <<>> \in Seq(0 .. Lockout) /\ Len(<<>>) = 0
      OBVIOUS
    <2>2. guesses' = <<>> \/ guesses' = aged
      BY <1>6
    <2>3. CASE guesses' = <<>>
      BY <1>2, <2>1, <2>3
    <2>4. CASE guesses' = aged
      BY <1>2, <1>4, <2>4
    <2> QED
      BY <2>2, <2>3, <2>4
  <1>10. ASSUME auth.failures >= MaxFailures, NEW i \in DOMAIN guesses
         PROVE  auth.locked > 0 /\ aged[i] + auth'.locked >= Lockout
    <2>1. guesses[i] + auth.locked >= Lockout /\ auth.locked > 0
      BY <1>1, <1>2, <1>8, <1>10 DEF GuessesCounted
    <2> QED
      BY <1>1, <1>2, <1>5, <1>8, <2>1 DEF Less
  <1>11. auth'.failures >= MaxFailures =>
            \A i \in DOMAIN guesses' : guesses'[i] + auth'.locked >= Lockout
    BY <1>4, <1>6, <1>8, <1>10
  <1>12. auth'.failures >= MaxFailures /\ auth'.locked = 0 => guesses' = <<>>
    <2> SUFFICES ASSUME auth'.failures >= MaxFailures, auth'.locked = 0
                 PROVE  \A i \in DOMAIN aged : aged[i] >= Lockout
      BY <1>6
    <2> QED
      BY <1>1, <1>3, <1>4, <1>8, <1>10
  <1>13. GuessesCounted'
    BY <1>1, <1>2, <1>8, <1>9, <1>11, <1>12 DEF GuessesCounted
  <1> QED
    BY <1>8, <1>9, <1>13

\* Time passes.
LEMMA TickStep ==
    ASSUME IInv, Tick
    PROVE  IInv'
  <1>1. /\ db' = Aged(db) /\ open' = IF open = <<>> THEN open ELSE <<Aged(open[1])>>
        /\ UNCHANGED <<epoch, loop, h, cli, faults, ended>>
    BY DEF Tick
  <1>2. /\ IsDatabase(db) /\ Whole(db) /\ View.regs = db.regs
        /\ open = <<>> \/ IsDatabase(open[1])
        /\ cli \in [Clis -> [kind : {"idle", "revoke"}, rid : Rids \cup {None}]]
    BY WholeDb DEF IInv, TypeOK, EndsHold
  <1>3. /\ IsDatabase(db') /\ db'.regs = db.regs /\ db'.ledger = db.ledger
        /\ \A s \in Sids : /\ db'.sess[s] = NoSession <=> db.sess[s] = NoSession
                           /\ db'.sess[s].revoked = db.sess[s].revoked
    BY <1>1, <1>2, AgedData
  <1>4. \A type, ref : RecordedIn(db', type, ref) = RecordedIn(db, type, ref)
    BY <1>3 DEF RecordedIn
  <1>5. Whole(db')
    BY <1>2, <1>3, <1>4 DEF Whole
  <1>6. View' = Aged(View) /\ IsDatabase(View)
    BY <1>1, <1>2 DEF View
  <1>7. /\ View'.regs = View.regs
        /\ \A s \in Sids : /\ View'.sess[s] = NoSession <=> View.sess[s] = NoSession
                           /\ View'.sess[s].revoked = View.sess[s].revoked
    BY <1>6, AgedData
  <1>8. open' = <<>> \/ (open' = <<open'[1]>> /\ IsDatabase(open'[1]))
    BY <1>1, <1>2, AgedData
  <1>9. CommandsSound'
    BY <1>1, <1>3 DEF IInv, CommandsSound
  <1> QED
    BY <1>1, <1>2, <1>3, <1>4, <1>5, <1>7, <1>8, <1>9, GuessesAge, CommandStep

\* The service is started again: it has forgotten the requests, the guesses
\* and the transaction left open, and nothing that was committed.
LEMMA RestartStep ==
    ASSUME IInv, Restart
    PROVE  IInv'
  <1>1. /\ open' = <<>> /\ auth' = NewAuth /\ epoch' = 1 /\ loop' = None /\ guesses' = <<>>
        /\ h' = [r \in Handlers |-> Idle] /\ UNCHANGED <<db, cli, ended>> /\ faults' = faults + 1
    BY DEF Restart
  <1>2. IsAuth(auth')
    BY <1>1 DEF IsAuth, NewAuth, Positive
  <1>3. TypeOK'
    <2>1. h' \in [Handlers -> Requests]
      BY <1>1, IdleRequest
    <2> QED
      BY <1>1, <1>2, <2>1 DEF IInv, TypeOK
  <1>4. GuessesCounted'
    BY <1>1, ConstantsAssumption DEF GuessesCounted, NewAuth
  <1>5. EndsHold'
    BY <1>1 DEF IInv, EndsHold, View
  <1>6. RequestsSound'
    <2> SUFFICES ASSUME NEW r \in Handlers
                 PROVE  RequestSound(r)'
      BY DEF RequestsSound
    <2>1. h'[r] = Idle
      BY <1>1
    <2>2. Idle.todo \in Todos(Idle.kind) /\ Idle.kind \notin Uses \cup {"logout"}
          /\ Idle.todo # <<"create">>
      BY IdleRequest DEF Todos, Uses
    <2> QED
      BY <2>1, <2>2, IdleRequest DEF RequestSound
  <1>7. CommandsSound'
    BY <1>1 DEF IInv, CommandsSound
  <1>8. EvidenceIsWhole'
    BY <1>1 DEF IInv, EvidenceIsWhole, Recorded
  <1> QED
    BY <1>3, <1>4, <1>5, <1>6, <1>7, <1>8 DEF IInv

-----------------------------------------------------------------------------
(* The theorems.                                                             *)

\* The service starts with nothing recorded.
LEMMA InitIInv == Init => IInv
  <1> SUFFICES ASSUME Init
               PROVE  IInv
    OBVIOUS
  <1>1. /\ db.sess = [s \in Sids |-> NoSession] /\ db.regs = [r \in Rids |-> "ABSENT"]
        /\ db.ledger = <<>> /\ open = <<>> /\ auth = NewAuth /\ epoch = 1 /\ loop = None
        /\ h = [r \in Handlers |-> Idle] /\ cli = [c \in Clis |-> IdleCli] /\ faults = 0
        /\ ended = {} /\ guesses = <<>> /\ View = db
        /\ db = [sess |-> db.sess, regs |-> db.regs, ledger |-> db.ledger]
    BY DEF Init, View
  <1>2. IsDatabase(db)
    BY <1>1 DEF IsDatabase, IsSeq, Sessions
  <1>3. IsAuth(auth)
    BY <1>1 DEF IsAuth, NewAuth, Positive
  <1>4. TypeOK
    <2>1. h \in [Handlers -> Requests]
      BY <1>1, IdleRequest
    <2> QED
      BY <1>1, <1>2, <1>3, <2>1 DEF TypeOK, IdleCli
  <1>5. GuessesCounted
    BY <1>1, ConstantsAssumption DEF GuessesCounted, NewAuth
  <1>6. EndsHold
    BY <1>1 DEF EndsHold
  <1>7. RequestsSound
    <2> SUFFICES ASSUME NEW r \in Handlers
                 PROVE  RequestSound(r)
      BY DEF RequestsSound
    <2>1. h[r] = Idle
      BY <1>1
    <2>2. Idle.todo \in Todos(Idle.kind) /\ Idle.kind \notin Uses \cup {"logout"}
          /\ Idle.todo # <<"create">>
      BY IdleRequest DEF Todos, Uses
    <2> QED
      BY <2>1, <2>2, IdleRequest DEF RequestSound
  <1>8. CommandsSound
    BY <1>1 DEF CommandsSound, IdleCli
  <1>9. \A type, ref : Recorded(type, ref) = {}
    BY <1>1 DEF Recorded
  <1>10. EvidenceIsWhole
    <2>1. verify_chain(db.ledger)
      BY <1>1 DEF verify_chain
    <2>2. Cardinality({}) = 0
      BY FS_EmptySet
    <2>3. \A s \in Sids : db.sess[s] = NoSession
      BY <1>1
    <2>4. \A x \in Rids : db.regs[x] = "ABSENT"
      BY <1>1
    <2> QED
      BY <1>9, <2>1, <2>2, <2>3, <2>4 DEF EvidenceIsWhole
  <1> QED
    BY <1>4, <1>5, <1>6, <1>7, <1>8, <1>10 DEF IInv

\* A step that changes nothing.
LEMMA StutterStep == IInv /\ UNCHANGED vars => IInv'
  <1> SUFFICES ASSUME IInv, UNCHANGED vars
               PROVE  IInv'
    OBVIOUS
  <1>1. UNCHANGED <<db, open, auth, epoch, loop, h, cli, faults, ended, guesses>> /\ View' = View
    BY DEF vars, View
  <1> QED
    <2>1. TypeOK' /\ GuessesCounted' /\ CommandsSound'
      BY <1>1 DEF IInv, TypeOK, GuessesCounted, CommandsSound
    <2>2. EndsHold'
      BY <1>1 DEF IInv, EndsHold
    <2>3. EvidenceIsWhole'
      BY <1>1 DEF IInv, EvidenceIsWhole, Recorded
    <2>4. ASSUME NEW r \in Handlers
          PROVE  RequestSound(r)'
      <3>1. RequestSound(r)
        BY DEF IInv, RequestsSound
      <3>2. Recorded("session_created", h[r].sid)' = Recorded("session_created", h[r].sid)
        BY <1>1 DEF Recorded
      <3> QED
        BY <1>1, <3>1, <3>2 DEF RequestSound
    <2> QED
      BY <2>1, <2>2, <2>3, <2>4 DEF IInv, RequestsSound

\* Every step keeps the invariant.
LEMMA NextIInv == IInv /\ [Next]_vars => IInv'
  <1> SUFFICES ASSUME IInv, [Next]_vars
               PROVE  IInv'
    OBVIOUS
  <1>1. ASSUME NEW r \in Handlers, Request(r)
        PROVE  IInv'
    BY <1>1, StartStep, BodyStep, SelectStep, ExpireStep, TouchStep, RevokeStep, AuthenticateStep,
       CreateStep, AppendEventStep, RotateAuthStep, RotateStoreStep, RevokeAllStep DEF Request
  <1>2. ASSUME NEW c \in Clis, Command(c)
        PROVE  IInv'
    BY <1>2, RegisterStep, ReadStatusStep, UpdateStatusStep DEF Command
  <1> QED
    BY <1>1, <1>2, TickStep, RestartStep, StutterStep DEF Next

\* However requests, commands, refused commits and restarts interleave, the
\* service keeps its invariant.
THEOREM AccessInvariance == Spec => []IInv
  BY InitIInv, NextIInv, PTL DEF Spec

\* The verifier is asked about at most MaxFailures wrong secrets within the
\* time of one lockout, however logins interleave.
THEOREM GuessesStayBounded == Spec => []GuessesAreBounded
  <1>1. IInv => GuessesAreBounded
    <2> SUFFICES ASSUME IInv
                 PROVE  GuessesAreBounded
      OBVIOUS
    <2> DEFINE recent == {i \in DOMAIN guesses : guesses[i] < Lockout}
    <2>1. /\ Len(guesses) \in Nat /\ DOMAIN guesses = 1 .. Len(guesses)
          /\ Len(guesses) <= MaxFailures /\ MaxFailures \in Nat
      BY ConstantsAssumption DEF IInv, TypeOK, GuessesCounted
    <2>2. recent \subseteq 1 .. Len(guesses)
      BY <2>1
    <2> HIDE DEF recent
    <2>3. IsFiniteSet(1 .. Len(guesses)) /\ Cardinality(1 .. Len(guesses)) = Len(guesses)
      <3>1. 1 \in Int /\ Len(guesses) \in Int
        BY <2>1
      <3>2. /\ IsFiniteSet(1 .. Len(guesses))
            /\ Cardinality(1 .. Len(guesses)) = IF 1 > Len(guesses) THEN 0 ELSE Len(guesses) - 1 + 1
        BY <3>1, FS_Interval
      <3> QED
        BY <2>1, <3>2
    <2>4. IsFiniteSet(recent) /\ Cardinality(recent) <= Len(guesses)
      BY <2>2, <2>3, FS_Subset
    <2>5. Cardinality(recent) \in Nat
      BY <2>4, FS_CardinalityType
    <2>6. Cardinality(recent) <= MaxFailures
      BY <2>1, <2>4, <2>5
    <2> QED
      BY <2>6 DEF GuessesAreBounded, recent
  <1> QED
    BY <1>1, AccessInvariance, PTL

\* The ledger verifies and has the evidence of every session, registration and
\* revocation, whatever crashes and refused commits come between.
THEOREM EvidenceStaysWhole == Spec => []EvidenceIsWhole
  <1>1. IInv => EvidenceIsWhole
    BY DEF IInv
  <1> QED
    BY <1>1, AccessInvariance, PTL

\* A request that comes after its session's end was reported passes no lookup.
THEOREM LogoutStaysFinal == Spec => LogoutIsFinal
  <1>1. IInv => [\A r \in Handlers : Passes(r) => ~h[r].late]_vars
    BY DEF IInv, RequestsSound, RequestSound, Passes
  <1> QED
    BY <1>1, AccessInvariance, PTL DEF LogoutIsFinal

=============================================================================
