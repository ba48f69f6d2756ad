-------------------------- MODULE ExecutorBoundary --------------------------
(* The update runtime behind a verified action: OwnerControlPlaneService's   *)
(* run_approved_update, the Unix-socket channel to the executor process, and *)
(* the executor with its mutation receipts.                                  *)
(*                                                                           *)
(* Workers (processes of the control plane) run an approved update and send  *)
(* one request over a connection of their own; a worker waits for the answer *)
(* at most 30 seconds.  The executor serves one connection at a time: it     *)
(* claims the receipt of the request's (action, fencing token), lets the     *)
(* update engine or systemd work, completes the receipt and answers.  Either *)
(* side may die at any step; receipts and action states are durable.         *)
(*                                                                           *)
(* An action has one lease (ControlPlane, OneMutator), so its identifier     *)
(* stands for the receipt's key.  The gated execution before the runtime is  *)
(* ControlPlane's: here it is one step that leaves the action in a terminal  *)
(* state, or refuses.                                                        *)
EXTENDS Naturals, Sequences

CONSTANTS
    Updates,    \* approved update actions
    Restarts,   \* actions of the systemd-restart capability
    Workers,    \* control-plane processes
    NoAction,
    NoWorker,
    Backlog     \* connections the listening socket holds unaccepted

Actions == Updates \cup Restarts

ASSUME BoundaryAssumption ==
    /\ Updates \cap Restarts = {}
    /\ NoAction \notin Actions
    /\ NoWorker \notin Workers
    /\ Backlog \in Nat \ {0}

VARIABLES
    state,     \* lifecycle state of each update action, durable
    receipt,   \* executor_mutation_receipts, durable
    call,      \* the local variables of each worker's call
    queue,     \* connections waiting to be accepted
    server,    \* the executor process
    \* History, read by no action.
    ran,       \* how often the engine or provider was invoked for an action
    effect     \* how the latest invocation for an action ended

boundaryVars == <<state, receipt, call, queue, server, ran, effect>>

-----------------------------------------------------------------------------

\* What the executor answers; unknown_outcome is also the client's own word
\* for a time-out or a broken connection.
Outcomes == {"succeeded", "failed", "unknown_outcome", "refused"}

Receipts == {"none", "receipt_created", "mutation_succeeded",
             "mutation_failed", "unknown_outcome"}

\* A connection: who reads from its other end (NoWorker once the client has
\* hung up) and for which action it was opened.
Requests == [from : Workers \cup {NoWorker}, action : Actions]

NoRequest == [from |-> NoWorker, action |-> NoAction]

\* answer is what the runtime returned (its provider code), outcome what the
\* call reports to the owner.
IdleCall == [pc |-> "idle", action |-> NoAction, wasTerminal |-> FALSE,
             executed |-> FALSE, answer |-> "none", outcome |-> "none"]

Listening == [pc |-> "accept", req |-> NoRequest, result |-> "none",
              exit |-> "none"]

BoundaryInit ==
    /\ state = [a \in Updates |-> "OPEN"]
    /\ receipt = [a \in Actions |-> "none"]
    /\ call = [w \in Workers |-> IdleCall]
    /\ queue = <<>>
    /\ server = Listening
    /\ ran = [a \in Actions |-> 0]
    /\ effect = [a \in Actions |-> "none"]

-----------------------------------------------------------------------------
(* The control plane.                                                        *)

\* The report of run_approved_update: a runtime's failed or unknown_outcome
\* replaces the outcome of the gated execution, anything else does not.
Reported(a, answer) ==
    IF a \in Restarts \/ answer \in {"unknown_outcome", "failed"}
      THEN answer
      ELSE "verification_succeeded"

Answered(c, answer) ==
    [c EXCEPT !.pc = "returned", !.executed = TRUE, !.answer = answer,
              !.outcome = Reported(c.action, answer)]

MayCall(w) == call[w].pc \in {"idle", "returned"}

\* run_approved_update reads the action, and whether it is terminal.
RunApprovedUpdate(w, a) ==
    /\ MayCall(w)
    /\ call' = [call EXCEPT ![w] =
         [IdleCall EXCEPT !.pc = "execute", !.action = a,
                          !.wasTerminal = (state[a] = "VERIFIED_SUCCESS")]]
    /\ UNCHANGED <<state, receipt, queue, server, ran, effect>>

\* The terminal-replay test after the gated execution: only an action that is
\* verified, and was not when the call began, reaches the runtime.
RunsRuntime(c, s) == s = "VERIFIED_SUCCESS" /\ ~c.wasTerminal

Judged(c, s) ==
    IF RunsRuntime(c, s)
      THEN [c EXCEPT !.pc = "send"]
      ELSE [c EXCEPT !.pc = "returned", !.outcome = s]

\* execute_action, and the action read again.  An open action ends verified
\* or failed (here or in another worker); a terminal one is replayed.
ExecuteAction(w) ==
    /\ call[w].pc = "execute"
    /\ LET a == call[w].action IN
       \E s \in {"VERIFIED_SUCCESS", "VERIFICATION_FAILED"} :
         /\ state[a] \in {"OPEN", s}
         /\ state' = [state EXCEPT ![a] = s]
         /\ call' = [call EXCEPT ![w] = Judged(call[w], s)]
    /\ UNCHANGED <<receipt, queue, server, ran, effect>>

\* execute_action refuses (lease held elsewhere, stale evidence, kill switch).
ExecuteRefused(w) ==
    /\ call[w].pc = "execute"
    /\ state[call[w].action] = "OPEN"
    /\ call' = [call EXCEPT ![w] = IdleCall]
    /\ UNCHANGED <<state, receipt, queue, server, ran, effect>>

\* An authorized client sends a systemd-restart request, and may send it again.
RequestRestart(w, a) ==
    /\ MayCall(w)
    /\ call' = [call EXCEPT ![w] = [IdleCall EXCEPT !.pc = "send", !.action = a]]
    /\ UNCHANGED <<state, receipt, queue, server, ran, effect>>

\* Connect and write the request frame; without a listener, or with a full
\* backlog, the connection fails and the client answers unknown_outcome.
Send(w) ==
    /\ call[w].pc = "send"
    /\ IF server.pc = "down" \/ Len(queue) >= Backlog
         THEN /\ call' = [call EXCEPT ![w] = Answered(call[w], "unknown_outcome")]
              /\ UNCHANGED queue
         ELSE /\ call' = [call EXCEPT ![w].pc = "waiting"]
              /\ queue' = Append(queue, [from |-> w, action |-> call[w].action])
    /\ UNCHANGED <<state, receipt, server, ran, effect>>

\* Altered form of Hangup: the answer goes to whatever w reads next.
HangupIgnored(r, w) == r

\* The client of w closes its connection: what it sent stays readable.
Hangup(r, w) == IF r.from = w THEN [r EXCEPT !.from = NoWorker] ELSE r

Disconnect(w) ==
    /\ queue' = [i \in DOMAIN queue |-> Hangup(queue[i], w)]
    /\ server' = [server EXCEPT !.req = Hangup(server.req, w)]

\* Altered form of GiveUp: the socket has no time-out.
GiveUpOnReset(w) ==
    /\ call[w].pc = "waiting"
    /\ server.pc = "down"
    /\ call' = [call EXCEPT ![w] = Answered(call[w], "unknown_outcome")]
    /\ Disconnect(w)
    /\ UNCHANGED <<state, receipt, ran, effect>>

\* The socket times out, or breaks because the executor died.
GiveUp(w) ==
    /\ call[w].pc = "waiting"
    /\ call' = [call EXCEPT ![w] = Answered(call[w], "unknown_outcome")]
    /\ Disconnect(w)
    /\ UNCHANGED <<state, receipt, ran, effect>>

\* The control-plane process dies and its supervisor starts it again.
Crash(w) ==
    /\ call[w].pc \in {"execute", "send", "waiting"}
    /\ call' = [call EXCEPT ![w] = IdleCall]
    /\ Disconnect(w)
    /\ UNCHANGED <<state, receipt, ran, effect>>

-----------------------------------------------------------------------------
(* The executor.                                                             *)

Current == server.req.action

\* An exception nobody catches leaves serve_forever, which closes the socket:
\* the connections in the backlog are reset.
Down(exit) == [Listening EXCEPT !.pc = "down", !.exit = exit]

Accept ==
    /\ server.pc = "accept"
    /\ queue # <<>>
    /\ server' = [server EXCEPT !.pc = "claim", !.req = Head(queue)]
    /\ queue' = Tail(queue)
    /\ UNCHANGED <<state, receipt, call, ran, effect>>

\* Altered form of MayClaim: an attempt that has not succeeded is tried again.
MayClaimAgain(a) == receipt[a] # "mutation_succeeded"

\* The existence check and the insert are one BEGIN IMMEDIATE transaction.
MayClaim(a) == receipt[a] = "none"

Claim ==
    /\ server.pc = "claim"
    /\ MayClaim(Current)
    /\ receipt' = [receipt EXCEPT ![Current] = "receipt_created"]
    /\ server' = [server EXCEPT !.pc = "invoke"]
    /\ UNCHANGED <<state, call, queue, ran, effect>>

\* The receipt exists already, the store fails, the update capability is
\* switched off or the envelope does not fit.  The update handler answers
\* refused; execute_restart raises, which serve_one does not catch.
ClaimRefused ==
    /\ server.pc = "claim"
    /\ \/ /\ Current \in Updates
          /\ server' = [server EXCEPT !.pc = "reply", !.result = "refused"]
          /\ UNCHANGED queue
       \/ /\ Current \in Restarts
          /\ server' = Down("exception")
          /\ queue' = <<>>
    /\ UNCHANGED <<state, receipt, call, ran, effect>>

\* Resolving or observing the unit fails before the provider is invoked: the
\* receipt is failed if the store allows, and the error raised.
PreProviderFails ==
    /\ server.pc = "invoke"
    /\ Current \in Restarts
    /\ receipt' \in {receipt, [receipt EXCEPT ![Current] = "mutation_failed"]}
    /\ server' = Down("exception")
    /\ queue' = <<>>
    /\ UNCHANGED <<state, call, ran, effect>>

Invoke ==
    /\ server.pc = "invoke"
    /\ ran' = [ran EXCEPT ![Current] = @ + 1]
    /\ effect' = [effect EXCEPT ![Current] = "started"]
    /\ server' = [server EXCEPT !.pc = "running"]
    /\ UNCHANGED <<state, receipt, call, queue>>

\* engine.execute_update returns a successful audit, raises an UpdateError or
\* something else; systemctl exits with zero or not, or runs out of time.
FinishRun(result) ==
    /\ server.pc = "running"
    /\ effect' = [effect EXCEPT ![Current] = result]
    /\ server' = [server EXCEPT !.pc = "complete", !.result = result]
    /\ UNCHANGED <<state, receipt, call, queue, ran>>

\* A mutant: an outcome that could not be determined is stored as a failure.
StatusOfUnknownAsFailed(result) ==
    IF result = "succeeded" THEN "mutation_succeeded" ELSE "mutation_failed"

StatusOf(result) ==
    CASE result = "succeeded" -> "mutation_succeeded"
      [] result = "failed" -> "mutation_failed"
      [] OTHER -> "unknown_outcome"

\* UPDATE ... WHERE mutation_status = receipt_created.
Complete ==
    /\ server.pc = "complete"
    /\ receipt[Current] = "receipt_created"
    /\ receipt' = [receipt EXCEPT ![Current] = StatusOf(server.result)]
    /\ server' = [server EXCEPT !.pc = "reply"]
    /\ UNCHANGED <<state, call, queue, ran, effect>>

\* The store fails: the update handler ignores it, execute_restart does not.
CompleteFails ==
    /\ server.pc = "complete"
    /\ \/ /\ Current \in Updates
          /\ server' = [server EXCEPT !.pc = "reply"]
          /\ UNCHANGED queue
       \/ /\ Current \in Restarts
          /\ server' = Down("exception")
          /\ queue' = <<>>
    /\ UNCHANGED <<state, receipt, call, ran, effect>>

\* sendall: the client reads the answer, or has gone, and then the OSError
\* leaves serve_one.
Reply ==
    /\ server.pc = "reply"
    /\ IF server.req.from # NoWorker
         THEN /\ call' = [call EXCEPT ![server.req.from] =
                            Answered(@, server.result)]
              /\ server' = Listening
              /\ UNCHANGED queue
         ELSE /\ server' = Down("exception")
              /\ queue' = <<>>
              /\ UNCHANGED call
    /\ UNCHANGED <<state, receipt, ran, effect>>

\* The executor process is killed.
ServerCrash ==
    /\ server.pc # "down"
    /\ server' = Down("crash")
    /\ queue' = <<>>
    /\ UNCHANGED <<state, receipt, call, ran, effect>>

\* systemd starts it again (Restart=on-failure).
ServerStart ==
    /\ server.pc = "down"
    /\ server' = Listening
    /\ UNCHANGED <<state, receipt, call, queue, ran, effect>>

-----------------------------------------------------------------------------

Proceed(w) ==
    ExecuteAction(w) \/ ExecuteRefused(w) \/ Send(w) \/ GiveUp(w)

BoundaryNext ==
    \/ \E w \in Workers :
         \/ \E a \in Updates : RunApprovedUpdate(w, a)
         \/ \E a \in Restarts : RequestRestart(w, a)
         \/ ExecuteAction(w)
         \/ ExecuteRefused(w)
         \/ Send(w)
         \/ GiveUp(w)
         \/ Crash(w)
    \/ Accept
    \/ Claim
    \/ ClaimRefused
    \/ PreProviderFails
    \/ Invoke
    \/ \E result \in Outcomes \ {"refused"} : FinishRun(result)
    \/ Complete
    \/ CompleteFails
    \/ Reply
    \/ ServerCrash
    \/ ServerStart

\* A worker runs on until it returns or dies, and its socket has a time-out.
\* Nothing bounds the time the engine takes, so the executor is not fair.
Fairness == \A w \in Workers : WF_boundaryVars(Proceed(w))

BoundarySpec == BoundaryInit /\ [][BoundaryNext]_boundaryVars /\ Fairness

-----------------------------------------------------------------------------
(* Properties.                                                               *)

\* Type invariant: rows, local variables and the connection keep their domains,
\* a receipt in particular that of MutationStatus.
BoundaryTypeOK ==
    /\ state \in [Updates -> {"OPEN", "VERIFIED_SUCCESS", "VERIFICATION_FAILED"}]
    /\ receipt \in [Actions -> Receipts]
    /\ call \in [Workers ->
         [pc : {"idle", "execute", "send", "waiting", "returned"},
          action : Actions \cup {NoAction}, wasTerminal : BOOLEAN,
          executed : BOOLEAN, answer : Outcomes \cup {"none"},
          outcome : Outcomes \cup {"none", "verification_succeeded",
                                   "VERIFIED_SUCCESS", "VERIFICATION_FAILED"}]]
    /\ queue \in Seq(Requests)
    /\ server \in
         [pc : {"accept", "claim", "invoke", "running", "complete", "reply", "down"},
          req : Requests \cup {NoRequest}, result : Outcomes \cup {"none"},
          exit : {"none", "crash", "exception"}]
    /\ ran \in [Actions -> Nat]
    /\ effect \in [Actions -> Outcomes \cup {"none", "started"}]

\* The receipt store's promise ("the provider cannot be invoked twice"): with
\* two workers past the terminal-replay test, requests sent again, clients
\* that hang up and deaths of either process, the engine or provider is
\* invoked at most once for an action.
InvokedOnce == \A a \in Actions : ran[a] <= 1

\* A receipt says what happened: none for what was never begun, a completed
\* one how the invocation ended, or that it never came to one.
ReceiptIsTruthful ==
    \A a \in Actions :
      /\ receipt[a] = "none" => ran[a] = 0
      /\ receipt[a] = "mutation_succeeded" => effect[a] = "succeeded"
      /\ receipt[a] = "mutation_failed" =>
           effect[a] = "failed" \/ (a \in Restarts /\ ran[a] = 0)
      /\ receipt[a] = "unknown_outcome" => effect[a] = "unknown_outcome"

\* An answer that reaches a call is about the call's own action and true of
\* it, however late: never the late answer to a connection given up before.
AnswerIsTruthful ==
    \A w \in Workers :
      call[w].answer \in {"succeeded", "failed"} =>
        /\ call[w].action \in Actions
        /\ effect[call[w].action] = call[w].answer

\* "The runtime port is invoked ONLY after canonical gated execution reached
\* VERIFIED_SUCCESS".
VerifiedBeforeRun ==
    \A a \in Updates : ran[a] > 0 => state[a] = "VERIFIED_SUCCESS"

\* However long the engine takes, and if the executor never answers, the call
\* that waits for it returns.
RuntimeCallsReturn ==
    \A w \in Workers :
      call[w].pc \in {"execute", "send", "waiting"} ~> MayCall(w)

-----------------------------------------------------------------------------
(* The inductive invariant behind the four safety properties.                *)

\* Only a verified action's call gets as far as the channel.
CallInv ==
    \A w \in Workers :
      /\ call[w].pc = "execute" => call[w].action \in Updates
      /\ call[w].pc \in {"send", "waiting"} => call[w].action \in Actions
      /\ call[w].pc # "returned" => call[w].answer = "none"

VerifiedInv ==
    /\ \A w \in Workers :
         call[w].pc \in {"send", "waiting"} /\ call[w].action \in Updates =>
           state[call[w].action] = "VERIFIED_SUCCESS"
    /\ \A i \in 1..Len(queue) :
         queue[i].action \in Updates =>
           state[queue[i].action] = "VERIFIED_SUCCESS"
    /\ Current \in Updates => state[Current] = "VERIFIED_SUCCESS"

\* A worker has at most one open connection, in the backlog or with the
\* executor, and it is the one its call waits on.
ConnectionInv ==
    /\ \A i \in 1..Len(queue) :
         queue[i].from # NoWorker =>
           /\ call[queue[i].from].pc = "waiting"
           /\ call[queue[i].from].action = queue[i].action
           /\ queue[i].from # server.req.from
           /\ \A j \in 1..Len(queue) : queue[j].from = queue[i].from => j = i
    /\ server.req.from # NoWorker =>
         /\ call[server.req.from].pc = "waiting"
         /\ call[server.req.from].action = Current

\* What the executor holds while it works on a request.
ServerInv ==
    /\ server.pc \in {"accept", "down"} => server.req = NoRequest
    /\ server.pc \notin {"accept", "down"} => Current \in Actions
    /\ server.pc = "invoke" => receipt[Current] = "receipt_created" /\ ran[Current] = 0
    /\ server.pc = "running" =>
         receipt[Current] = "receipt_created" /\ effect[Current] = "started"
    /\ server.pc = "complete" =>
         /\ receipt[Current] = "receipt_created"
         /\ server.result \in Outcomes \ {"refused"}
         /\ effect[Current] = server.result
    /\ server.pc = "reply" =>
         /\ server.result \in Outcomes
         /\ server.result \in {"succeeded", "failed"} =>
              effect[Current] = server.result

\* No effect without an invocation.
EffectInv == \A a \in Actions : ran[a] = 0 <=> effect[a] = "none"

\* The invariant that is proved: the safety properties rest on who may still
\* be answered, and on what the executor knows of the receipt it works on.
BoundaryInv ==
    /\ BoundaryTypeOK
    /\ CallInv
    /\ VerifiedInv
    /\ ConnectionInv
    /\ ServerInv
    /\ EffectInv
    /\ InvokedOnce
    /\ ReceiptIsTruthful
    /\ AnswerIsTruthful
    /\ VerifiedBeforeRun

-----------------------------------------------------------------------------
(* Claims of the documentation that the code does not keep.                  *)

\* Claim of serve_one's comment: "the accept loop must survive any
\* single-connection failure".
AcceptLoopSurvives == server.exit # "exception"

\* Claim of run_approved_update's docstring, "a runtime failure is
\* fail-closed": a run reported as executed with a verified outcome was one
\* in which the engine succeeded.
ReportIsFailClosed ==
    \A w \in Workers :
      call[w].executed /\ call[w].outcome = "verification_succeeded" =>
        effect[call[w].action] = "succeeded"
=============================================================================
