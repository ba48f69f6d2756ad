------------------------------- MODULE Access -------------------------------
(* Who may act: owner authentication, operator sessions, project             *)
(* registrations, and the audit ledger that records all three.               *)
(*                                                                           *)
(* One service process serves requests over the operator transport.  Its     *)
(* `async def` routes run on one event loop and give it up only where they   *)
(* await the request body; its `def` routes run on threads of their own.     *)
(* All of them share one SQLite connection.  Registrations are written by    *)
(* command-line processes over connections of their own.  A write is a       *)
(* BEGIN IMMEDIATE transaction, one step here; a read before it is a step of *)
(* its own.  A commit that SQLite refuses leaves the transaction open on the *)
(* shared connection: its writes are seen by the process's later reads, no   *)
(* other transaction can begin, and a restart discards them.                 *)
(*                                                                           *)
(* Times are remaining lifetimes and ages, so that no clock is bounded.      *)
EXTENDS Naturals, Sequences, FiniteSets

CONSTANTS
    Handlers,     \* requests in flight at the same time
    Clis,         \* command-line processes at the same time
    Sids,         \* session tokens: each names at most one session
    Rids,         \* registration ids: each names at most one registration
    None,         \* no session, no registration, no handler
    MaxFailures,  \* failed secrets before the lockout (5)
    Lockout,      \* its length (60 s)
    MaxCooldown,  \* bound of the cooldown between failures (30 s)
    Absolute,     \* lifetime of a session (30 min)
    Inactivity,   \* a session unused this long is to expire (10 min)
    MaxEvents,    \* bound: no request that appends starts beyond this ledger length
    MaxEpoch,     \* bound: credential rotations, one at a time
    MaxFaults     \* bound: restarts and refused commits

ASSUME ConstantsAssumption ==
    /\ None \notin Handlers \cup Sids \cup Rids
    /\ {MaxFailures, Lockout, MaxCooldown, Absolute, Inactivity} \subseteq Nat \ {0}
    /\ {MaxEvents, MaxEpoch, MaxFaults} \subseteq Nat

VARIABLES
    db,       \* the committed database: sessions, registrations, ledger
    open,     \* <<>>, or <<d>>: the database as the transaction left open has it
    auth,     \* the authenticator's memory
    epoch,    \* the session store's authentication epoch, in memory
    loop,     \* the handler the event loop is running
    h,        \* the requests in flight
    cli,      \* the command-line processes
    faults,
    \* History, read by no action.
    ended,    \* sessions whose end was reported: logout answered, or rotation done
    guesses   \* ages, up to Lockout, of the failed guesses since the last success or
              \* restart, forgotten when all of them are that old

vars == <<db, open, auth, epoch, loop, h, cli, faults, ended, guesses>>

-----------------------------------------------------------------------------
(* Records.                                                                  *)

NoSession == [epoch |-> 0, left |-> 0, idle |-> 0, revoked |-> FALSE]

\* What one process's connection reads.
View == IF open = <<>> THEN db ELSE open[1]

Genesis == <<>>

\* SHA-256 over the previous hash and the canonical payload: injective.
compute_event_hash(row) == <<row.previous_hash, row.sequence, row.event>>

LastSequence(rows) == IF rows = <<>> THEN 0 ELSE rows[Len(rows)].sequence

FirstHash(rows) == IF rows = <<>> THEN Genesis ELSE compute_event_hash(rows[1])

LastHash(rows) ==
    IF rows = <<>> THEN Genesis ELSE compute_event_hash(rows[Len(rows)])

\* An event as the properties tell them apart: the creations and the
\* revocations they count, and any other.  What is stored names only the actor
\* or the target; ref says which session or registration is meant.
Event(type, ref) == [type |-> type, ref |-> ref]

append_in_transaction(d, event) ==
    [d EXCEPT !.ledger = Append(@, [sequence |-> LastSequence(d.ledger) + 1,
                                    previous_hash |-> LastHash(d.ledger),
                                    event |-> event])]

verify_chain(rows) ==
    \A i \in DOMAIN rows :
        /\ rows[i].sequence = i
        /\ rows[i].previous_hash =
               IF i = 1 THEN Genesis ELSE compute_event_hash(rows[i - 1])

Recorded(type, ref) ==
    {i \in DOMAIN db.ledger : db.ledger[i].event = Event(type, ref)}

Idle == [kind |-> "idle", todo |-> <<>>, at |-> "select", sid |-> None,
         epoch |-> 0,
         late |-> FALSE]  \* history: its session had been reported ended when it came

IdleCli == [kind |-> "idle", rid |-> None]

NewAuth == [failures |-> 0, cooldown |-> 0, locked |-> 0, epoch |-> 1]

Init ==
    /\ db = [sess |-> [s \in Sids |-> NoSession],
             regs |-> [r \in Rids |-> "ABSENT"], ledger |-> <<>>]
    /\ open = <<>>
    /\ auth = NewAuth
    /\ epoch = 1
    /\ loop = None
    /\ h = [r \in Handlers |-> Idle]
    /\ cli = [c \in Clis |-> IdleCli]
    /\ faults = 0
    /\ ended = {}
    /\ guesses = <<>>

-----------------------------------------------------------------------------
(* Requests.  A route is the list of what its handler does, in order; each   *)
(* entry is one or more steps below.  A handler that refuses, or whose       *)
(* transaction fails, simply ends.                                           *)

LoginRoute == <<"body", "authenticate">>

\* Every read-only view.
ViewRoute == <<"session">>

LogoutRoute == <<"csrf", "closing">>

\* The service looks the session up once more before it acts.
AuthorizeRoute == <<"session", "csrf", "body", "session", "evidence">>

ApprovalRoute == <<"session", "csrf", "body", "session", "evidence">>

\* Confirm, execute, reconcile and roll back take no body.
ActionRoute == <<"session", "csrf", "session", "evidence">>

\* A run captures the snapshot and executes, each under a lookup of its own;
\* what it hands to the runtime afterwards names the target's registration, if
\* any, and nothing on the way checks that one.
RunRoute == <<"session", "csrf", "body", "session", "evidence", "session", "evidence">>

\* A run of an action that has ended only reads its outcome.
ReplayRoute == <<"session", "csrf", "body", "session">>

\* The session found before the body is the one used after it.
SwitchRoute == <<"session", "csrf", "body", "kill_switch_changed">>

\* service.rotate_credentials, which no route calls.
Rotation == <<"rotate_auth", "rotate_store", "revoke_all", "credential_epoch_rotated">>

Routes ==
    [login |-> {LoginRoute}, read |-> {ViewRoute}, logout |-> {LogoutRoute},
     authorize |-> {AuthorizeRoute, ApprovalRoute, ActionRoute, RunRoute, ReplayRoute},
     switch |-> {SwitchRoute}, rotate |-> {Rotation}]

Async == {"login", "authorize", "switch"}

\* Requests that only use a session: bounded to one of them in flight.
Uses == {"read", "authorize", "switch"}

\* Logins and rotations touch nothing a registration does: bounded to be over
\* before the first one, with the authenticator as it started.
Before == {"login", "rotate"}

\* The event loop runs one async handler at a time.
OnLoop(r) == h[r].kind \in Async => loop \in {None, r}

Keeps(r) == loop' = IF h[r].kind \in Async THEN r ELSE loop

Frees(r) == loop' = IF loop = r THEN None ELSE loop

Stage(r, s) == h[r].todo # <<>> /\ Head(h[r].todo) = s

\* The handler ends, answering nothing the properties are about.
Drop(r) == h' = [h EXCEPT ![r] = Idle] /\ Frees(r)

\* The handler goes on with the next entry of its route, or answers.
Goes(r, rec) ==
    IF Len(rec.todo) = 1 THEN Drop(r)
    ELSE h' = [h EXCEPT ![r] = [rec EXCEPT !.todo = Tail(@), !.at = "select"]] /\ Keeps(r)

\* A transaction on the shared connection: it commits and Then holds, or it
\* fails to begin behind an open one, or its commit is refused and it stays
\* open.
Transaction(r, d, Then) ==
    \/ /\ open = <<>>
       /\ db' = d
       /\ Then
       /\ UNCHANGED <<open, faults>>
    \/ /\ open # <<>>
       /\ Drop(r)
       /\ UNCHANGED <<db, open, faults, ended>>
    \/ /\ open = <<>>
       /\ faults < MaxFaults
       /\ faults' = faults + 1
       /\ open' = <<d>>
       /\ Drop(r)
       /\ UNCHANGED <<db, ended>>

Start(r, kind, sid) ==
    /\ h[r].todo = <<>>
    /\ kind \in Before => \A x \in Rids : View.regs[x] = "ABSENT"
    /\ kind \in Uses => \A x \in Handlers : h[x].kind \notin Uses
    /\ kind # "read" => Len(View.ledger) < MaxEvents
    /\ kind = "rotate" =>
          auth.epoch < MaxEpoch /\ \A x \in Handlers : h[x].kind # "rotate"
    /\ (kind \in {"login", "rotate"}) <=> (sid = None)
    /\ sid # None => View.sess[sid] # NoSession
    /\ \E route \in Routes[kind] :
          h' = [h EXCEPT ![r] = [Idle EXCEPT !.kind = kind, !.todo = route,
                                             !.sid = sid, !.late = sid \in ended]]
    /\ UNCHANGED <<db, open, auth, epoch, loop, cli, faults, ended, guesses>>

\* `await request.json()`: other handlers run; a malformed body is refused.
Body(r) ==
    /\ Stage(r, "body")
    /\ OnLoop(r)
    /\ \/ h' = [h EXCEPT ![r].todo = Tail(@)] /\ Frees(r)
       \/ Drop(r)
    /\ UNCHANGED <<db, open, auth, epoch, cli, faults, ended, guesses>>

-----------------------------------------------------------------------------
(* DurableSessionStore.get: a SELECT, then the UPDATE of last_seen_at.       *)

SessionStages == {"session", "csrf", "closing"}

AtSession(r) == OnLoop(r) /\ \E s \in SessionStages : Stage(r, s)

KnownRevoked(row) == row # NoSession /\ row.epoch = epoch

Known(row) == row # NoSession /\ ~row.revoked /\ row.epoch = epoch

\* inactivity_expires_at is computed from now, so only expires_at can be past.
is_active(row) == row.left > 0

\* service.logout of a session that get does not return: revoke without evidence.
NotFound(r) ==
    IF Stage(r, "closing")
    THEN h' = [h EXCEPT ![r].todo = <<"revoke">>] /\ Keeps(r)
    ELSE Drop(r)

Select(r) ==
    LET row == View.sess[h[r].sid] IN
    /\ AtSession(r)
    /\ h[r].at = "select"
    /\ IF ~Known(row) THEN NotFound(r)
       ELSE /\ h' = [h EXCEPT ![r].at = IF is_active(row) THEN "touch" ELSE "expire"]
            /\ Keeps(r)
    /\ UNCHANGED <<db, open, auth, epoch, cli, faults, ended, guesses>>

\* An expired session is revoked where it is looked up.
Expire(r) ==
    /\ AtSession(r)
    /\ h[r].at = "expire"
    /\ Transaction(r, [db EXCEPT !.sess[h[r].sid].revoked = TRUE],
                   NotFound(r) /\ UNCHANGED ended)
    /\ UNCHANGED <<auth, epoch, cli, guesses>>

\* The session is found.  A wrong CSRF token is refused, and so is a request
\* beyond the rate of the route's limiter, checked next.
Touch(r) ==
    LET s == h[r].sid IN
    /\ AtSession(r)
    /\ h[r].at = "touch"
    /\ Transaction(r, [db EXCEPT !.sess[s].idle = IF db.sess[s].revoked THEN @ ELSE 0],
           /\ \/ /\ Stage(r, "closing")
                 /\ h' = [h EXCEPT ![r].todo = <<"session_revoked", "revoke">>,
                                   ![r].at = "select"]
                 /\ Keeps(r)
              \/ ~Stage(r, "closing") /\ Goes(r, h[r])
              \/ Stage(r, "csrf") /\ Drop(r)
           /\ UNCHANGED ended)
    /\ UNCHANGED <<auth, epoch, cli, guesses>>

Revoke(r) ==
    LET s == h[r].sid IN
    /\ Stage(r, "revoke")
    /\ Transaction(r, [db EXCEPT !.sess[s].revoked = TRUE],
                   Goes(r, h[r]) /\ ended' = ended \cup {s})
    /\ UNCHANGED <<auth, epoch, cli, guesses>>

-----------------------------------------------------------------------------
(* OwnerAuthenticator.authenticate and service.login.                        *)

Cooldown(n) == IF 2^(n - 1) < MaxCooldown THEN 2^(n - 1) ELSE MaxCooldown

\* Beyond the lock one more failure is like the last.
Failed(n) == IF n > MaxFailures THEN MaxFailures ELSE n

RejectedLate(n) ==
    IF n > MaxFailures THEN [auth EXCEPT !.failures = n, !.locked = Lockout, !.cooldown = 0]
    ELSE [auth EXCEPT !.failures = n, !.cooldown = Cooldown(n)]

Rejected(n) ==
    IF n >= MaxFailures THEN [auth EXCEPT !.failures = n, !.locked = Lockout, !.cooldown = 0]
    ELSE [auth EXCEPT !.failures = n, !.cooldown = Cooldown(n)]

CreateFirst == <<"authentication_success", "create", "session_created">>

\* What an accepted login has left to do: evidence first, then the session.
AfterAccepted == <<"authentication_success", "session_created", "create">>

\* Locked or cooling down: nothing is verified.  The right secret resets the
\* counters; a wrong one counts, cools down and finally locks.
Authenticate(r, good) ==
    /\ Stage(r, "authenticate")
    /\ OnLoop(r)
    /\ IF auth.locked > 0 \/ auth.cooldown > 0 \/ ~good
       THEN h' = [h EXCEPT ![r].todo = <<"authentication_failure">>]
       ELSE \E s \in {t \in Sids : View.sess[t] = NoSession} :
                h' = [h EXCEPT ![r].todo = AfterAccepted, ![r].sid = s,
                               ![r].epoch = auth.epoch]
    /\ Keeps(r)
    /\ CASE auth.locked > 0 \/ auth.cooldown > 0 -> UNCHANGED <<auth, guesses>>
         [] auth.locked = 0 /\ auth.cooldown = 0 /\ good ->
                auth' = [NewAuth EXCEPT !.epoch = auth.epoch] /\ guesses' = <<>>
         [] OTHER -> auth' = Rejected(Failed(auth.failures) + 1) /\ guesses' = Append(guesses, 0)
    /\ UNCHANGED <<db, open, epoch, cli, faults, ended>>

\* The row carries the principal's epoch, not the store's.
Create(r) ==
    /\ Stage(r, "create")
    /\ OnLoop(r)
    /\ Transaction(r, [db EXCEPT !.sess[h[r].sid] =
                          [epoch |-> h[r].epoch, left |-> Absolute, idle |-> 0,
                           revoked |-> FALSE]],
                   Goes(r, h[r]) /\ UNCHANGED ended)
    /\ UNCHANGED <<auth, epoch, cli, guesses>>

-----------------------------------------------------------------------------
(* Evidence appended in a transaction of its own.                            *)

AppendStages == {"authentication_failure", "authentication_success",
                 "session_created", "session_revoked", "evidence", "kill_switch_changed",
                 "credential_epoch_rotated"}

EventOf(type, sid) ==
    IF type = "session_created" THEN Event(type, sid) ELSE Event("other", None)

AppendEvent(r) ==
    LET type == Head(h[r].todo) IN
    /\ h[r].todo # <<>>
    /\ type \in AppendStages
    /\ OnLoop(r)
    /\ Transaction(r, append_in_transaction(db, EventOf(type, h[r].sid)),
                   Goes(r, h[r]) /\ UNCHANGED ended)
    /\ UNCHANGED <<auth, epoch, cli, guesses>>

-----------------------------------------------------------------------------
(* service.rotate_credentials: two epochs in memory, then the rows.          *)

RotateAuth(r) ==
    /\ Stage(r, "rotate_auth")
    /\ auth' = [auth EXCEPT !.epoch = @ + 1]
    /\ Goes(r, h[r])
    /\ UNCHANGED <<db, open, epoch, cli, faults, ended, guesses>>

RotateStore(r) ==
    /\ Stage(r, "rotate_store")
    /\ epoch' = epoch + 1
    /\ Goes(r, h[r])
    /\ UNCHANGED <<db, open, auth, cli, faults, ended, guesses>>

Live(d) == {s \in Sids : d.sess[s] # NoSession /\ ~d.sess[s].revoked}

RevokeAll(r) ==
    /\ Stage(r, "revoke_all")
    /\ Transaction(r, [db EXCEPT !.sess = [s \in Sids |->
                           [db.sess[s] EXCEPT !.revoked = @ \/ s \in Live(db)]]],
                   Goes(r, h[r]) /\ ended' = ended \cup Live(db))
    /\ UNCHANGED <<auth, epoch, cli, guesses>>

-----------------------------------------------------------------------------
(* Registrations.                                                            *)

Active(d) == {r \in Rids : d.regs[r] = "REGISTERED"}

\* What a registration request is judged on.  The path stands for the
\* environment, the runtime mode, and the path itself being a directory of
\* the allowed namespace.
SoundRequest ==
    [path |-> "valid", uid |-> "own", caller |-> "own", mode |-> "private",
     group |-> "own", compose |-> "valid"]

RegistrationRequests ==
    {SoundRequest}
        \cup {[SoundRequest EXCEPT !.path = x] : x \in
                 {"invalid_environment", "unsupported_runtime", "invalid_path",
                  "not_directory", "namespace_violation"}}
        \cup {[SoundRequest EXCEPT !.uid = x, !.caller = y] :
                 x \in {"root", "other"}, y \in {"own", "root"}}
        \cup {[SoundRequest EXCEPT !.mode = x, !.group = "other"] :
                 x \in {"group", "world"}}
        \cup {[SoundRequest EXCEPT !.compose = x] : x \in
                 {"no_compose_files", "invalid_compose_identity",
                  "compose_file_hash_failed"}}

validate_ownership(q) ==
    IF q.uid = "root" THEN "root_owned"
    ELSE IF q.uid # q.caller /\ q.caller # "root" THEN "ownership_mismatch"
    ELSE "valid"

validate_permissions(q) ==
    IF q.mode = "world" THEN "world_writable"
    ELSE IF q.mode = "group" /\ q.group # "own" THEN "group_writable_unsafe"
    ELSE "valid"

validate_compose_registration(q) == q.compose

\* The first check that fails names the error.
validate_registration_request(q) ==
    LET checks == <<q.path, validate_ownership(q), validate_permissions(q),
                    validate_compose_registration(q)>>
        failed == SelectSeq(checks, LAMBDA c : c # "valid")
    IN IF failed = <<>> THEN "valid" ELSE Head(failed)

\* A new registration has an id, and a digest of its own.
create_registration(d) == {x \in Rids : d.regs[x] = "ABSENT"}

created_event(rid) == Event("registration_created", rid)

status_change_event(rid) == Event("registration_revoked", rid)

\* The row and its evidence, in one transaction.
save(d, rid) ==
    append_in_transaction([d EXCEPT !.regs[rid] = "REGISTERED"], created_event(rid))

\* By registration id, whatever has become of the row.
update_status(d, rid) ==
    append_in_transaction([d EXCEPT !.regs[rid] = "REVOKED"], status_change_event(rid))

\* `register`: validated, then saved; the partial unique index admits one active
\* row of the target.  A request that is refused leaves nothing.
Register(c, q) ==
    /\ cli[c].kind = "idle"
    /\ open = <<>>
    /\ Active(db) = {}
    /\ auth = NewAuth /\ \A x \in Handlers : h[x].kind \notin Before
    /\ validate_registration_request(q) = "valid"
    /\ \E rid \in create_registration(db) : db' = save(db, rid)
    /\ UNCHANGED <<open, auth, epoch, loop, h, cli, faults, ended, guesses>>

\* `revoke`: update_status reads the active row first ...
ReadStatus(c) ==
    /\ cli[c].kind = "idle"
    /\ \E rid \in Active(db) : cli' = [cli EXCEPT ![c] = [kind |-> "revoke", rid |-> rid]]
    /\ UNCHANGED <<db, open, auth, epoch, loop, h, faults, ended, guesses>>

\* ... and then writes it; behind an open transaction, or with a reason the
\* ledger refuses, nothing is written.
UpdateStatus(c) ==
    /\ cli[c].kind = "revoke"
    /\ cli' = [cli EXCEPT ![c] = IdleCli]
    /\ \/ /\ open = <<>>
          /\ db' = update_status(db, cli[c].rid)
       \/ UNCHANGED db
    /\ UNCHANGED <<open, auth, epoch, loop, h, faults, ended, guesses>>

-----------------------------------------------------------------------------
(* The environment.                                                          *)

Less(n) == IF n = 0 THEN 0 ELSE n - 1

Aged(d) ==
    [d EXCEPT !.sess = [s \in Sids |->
        IF d.sess[s] = NoSession THEN NoSession
        ELSE [d.sess[s] EXCEPT !.left = Less(@),
                               !.idle = IF @ = Inactivity THEN @ ELSE @ + 1]]]

Tick ==
    /\ db' = Aged(db)
    /\ open' = IF open = <<>> THEN open ELSE <<Aged(open[1])>>
    /\ auth' = [auth EXCEPT !.cooldown = Less(@), !.locked = Less(@)]
    /\ LET aged == [i \in DOMAIN guesses |->
                       IF guesses[i] < Lockout THEN guesses[i] + 1 ELSE guesses[i]]
       IN  guesses' = IF \A i \in DOMAIN aged : aged[i] >= Lockout THEN <<>> ELSE aged
    /\ UNCHANGED <<epoch, loop, h, cli, faults, ended>>

\* The service process is killed and started again.
Restart ==
    /\ faults < MaxFaults
    /\ faults' = faults + 1
    /\ open' = <<>>
    /\ auth' = NewAuth
    /\ epoch' = 1
    /\ loop' = None
    /\ h' = [r \in Handlers |-> Idle]
    /\ guesses' = <<>>
    /\ UNCHANGED <<db, cli, ended>>

Request(r) ==
    \/ \E kind \in DOMAIN Routes, sid \in Sids \cup {None} : Start(r, kind, sid)
    \/ Body(r)
    \/ Select(r) \/ Expire(r) \/ Touch(r) \/ Revoke(r)
    \/ (\E good \in BOOLEAN : Authenticate(r, good)) \/ Create(r) \/ AppendEvent(r)
    \/ RotateAuth(r) \/ RotateStore(r) \/ RevokeAll(r)

Command(c) ==
    \/ \E q \in RegistrationRequests : Register(c, q)
    \/ ReadStatus(c) \/ UpdateStatus(c)

Next ==
    \/ \E r \in Handlers : Request(r)
    \/ \E c \in Clis : Command(c)
    \/ Tick \/ Restart

Spec == Init /\ [][Next]_vars

-----------------------------------------------------------------------------
(* Properties.                                                               *)

\* A lookup has let the request through: its UPDATE is committed.
Passes(r) ==
    /\ h[r].at = "touch" /\ h'[r].at # "touch"
    /\ open = <<>> /\ open' = <<>>
    /\ epoch' = epoch /\ faults' = faults

\* Once a logout was answered, or a rotation revoked it, no request that
\* arrives afterwards passes a lookup of that session: neither from the other
\* requests in flight, nor behind a transaction left open, nor after a restart
\* that puts the authentication epoch back to 1.
LogoutIsFinal == [][\A r \in Handlers : Passes(r) => ~h[r].late]_vars

\* However logins interleave with each other and with the clock, within the
\* time of one lockout the verifier is asked about at most MaxFailures wrong
\* secrets between two successes.
GuessesAreBounded ==
    Cardinality({i \in DOMAIN guesses : guesses[i] < Lockout}) <= MaxFailures

\* "Evidence is appended before the session exists", and a registration's with
\* it: whatever crashes, refused commits and other processes come between, the
\* ledger verifies, every session row has its creation recorded, every
\* registration exactly once, and every revoked one its revocation.
EvidenceIsWhole ==
    /\ verify_chain(db.ledger)
    /\ \A s \in Sids : db.sess[s] # NoSession => Recorded("session_created", s) # {}
    /\ \A x \in Rids :
          /\ Cardinality(Recorded("registration_created", x)) =
                 IF db.regs[x] = "ABSENT" THEN 0 ELSE 1
          /\ db.regs[x] = "REVOKED" <=> Recorded("registration_revoked", x) # {}

-----------------------------------------------------------------------------
(* A claim of the documentation that the code does not keep.               *)

\* "the canonical session store revalidates the session at lookup time (epoch,
\* absolute and inactivity expiry)" (services/update/approval.py): a request
\* is let through only by a session used within the inactivity timeout.
IdleSessionsExpire ==
    [][\A r \in Handlers : Passes(r) => db.sess[h[r].sid].idle < Inactivity]_vars
=============================================================================
