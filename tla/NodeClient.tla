----------------------------- MODULE NodeClient -----------------------------
(***************************************************************************)
(* The connection to the Noir node: src/src/client/mod.rs.                 *)
(*                                                                         *)
(* RPC handlers and the indexer call Client::request, which puts a message *)
(* on an unbounded channel and waits on a oneshot for the answer.  One     *)
(* task, spawned by Client::run, owns the WebSocket connection and takes   *)
(* the messages one at a time: it forwards a request to the node and waits *)
(* for the reply, or, when there is no usable connection, puts TryConnect  *)
(* and the request, with one retry less, back at the end of its own queue. *)
(*                                                                         *)
(* A caller can vanish while it waits: the HTTP layer drops a handler that *)
(* exceeds the server's request timeout, and with it the oneshot receiver. *)
(***************************************************************************)
EXTENDS Naturals, Sequences, FiniteSets

CONSTANTS Requests,          \* the requests ever submitted, each one once
          Retries            \* the retry count a request starts with (3)

ASSUME RetriesAssumption == Retries \in Nat

VARIABLES listener, \* whether this process can install its Ctrl-C listener
          queue,    \* the channel: messages sent and not yet received
          task,     \* where the client task is
          current,  \* the request message the task holds, or NoMessage
          client,   \* the task's Option<WsClient>, and whether it is connected
          caller,   \* what each caller of Client::request is doing
          sent,     \* history: how often each request was given to the node
          tries     \* history: connection attempts finished while the request
                    \* was queued, counted up to Retries

vars == <<listener, queue, task, current, client, caller, sent, tries>>

-----------------------------------------------------------------------------
(* Messages.                                                               *)

Request(r, k) == [kind |-> "Request", id |-> r, retry |-> k]
TryConnect    == [kind |-> "TryConnect"]
NoMessage     == [kind |-> "None"]

RequestMessage == [kind : {"Request"}, id : Requests, retry : 0 .. Retries]
Message        == RequestMessage \cup {TryConnect}

Carries(m, r) == m.kind = "Request" /\ m.id = r
Queued(r)     == \E i \in 1 .. Len(queue) : Carries(queue[i], r)
Pending(r)    == Queued(r) \/ Carries(current, r)

TaskAlive == task \notin {"stopped", "panicked"}

-----------------------------------------------------------------------------
TaskStates   == {"signal", "recv", "requeue", "connecting", "requesting",
                 "stopped", "panicked"}
CallerStates == {"idle", "waiting", "value", "error", "exhausted", "closed",
                 "cancelled"}

Init == /\ listener \in BOOLEAN
        /\ queue = <<>>
        /\ task = "signal"
        /\ current = NoMessage
        /\ client = "none"
        /\ caller = [r \in Requests |-> "idle"]
        /\ sent = [r \in Requests |-> 0]
        /\ tries = [r \in Requests |-> 0]

-----------------------------------------------------------------------------
(* Callers.                                                                *)

\* Client::request: send the message and start waiting on the oneshot.
Submit(r) ==
    /\ caller[r] = "idle"
    /\ TaskAlive
    /\ queue' = Append(queue, Request(r, Retries))
    /\ caller' = [caller EXCEPT ![r] = "waiting"]
    /\ UNCHANGED <<listener, task, current, client, sent, tries>>

\* Client::request once the task is gone: send fails, Error::RequestFailed.
SubmitRefused(r) ==
    /\ caller[r] = "idle"
    /\ ~TaskAlive
    /\ caller' = [caller EXCEPT ![r] = "closed"]
    /\ UNCHANGED <<listener, queue, task, current, client, sent, tries>>

\* The HTTP timeout (or a peer that hung up) drops the waiting handler.
Cancel(r) ==
    /\ caller[r] = "waiting"
    /\ caller' = [caller EXCEPT ![r] = "cancelled"]
    /\ UNCHANGED <<listener, queue, task, current, client, sent, tries>>

-----------------------------------------------------------------------------
(* The client task.                                                        *)

\* Fault variant: the receiver outlives the task.
DropReceiver_Leaked ==
    /\ current' = NoMessage
    /\ UNCHANGED <<queue, caller>>

\* Fault variant: every queued caller is refused, whatever it was told before.
DropReceiver_Overwriting ==
    /\ queue' = <<>>
    /\ current' = NoMessage
    /\ caller' = [r \in Requests |-> IF Queued(r) THEN "closed" ELSE caller[r]]

\* The task ends: its receiver is dropped with every message still queued,
\* and so is the oneshot sender of each: their callers see RequestFailed.
DropReceiver ==
    /\ queue' = <<>>
    /\ current' = NoMessage
    /\ caller' = [r \in Requests |->
                    IF caller[r] = "waiting" /\ Queued(r) THEN "closed"
                    ELSE caller[r]]

\* rx.recv(): the message at the head of the queue.  (The task itself holds a
\* sender, so the channel never reports its end while the task runs.)
Receive(m) ==
    /\ task = "recv"
    /\ queue # <<>>
    /\ m = Head(queue)

\* Fault variants of the actions below, for the sensitivity checks.

\* The zero check comes after the connection check.
Requeue_Unchecked(m) ==
    /\ Receive(m)
    /\ m.kind = "Request" /\ client # "connected"
    /\ queue' = Append(Tail(queue), TryConnect)
    /\ current' = Request(m.id, m.retry - 1)
    /\ task' = "requeue"
    /\ UNCHANGED <<listener, client, caller, sent, tries>>

\* The retry count is passed on as it is.
Requeue_NoDecrement(m) ==
    /\ Receive(m)
    /\ m.kind = "Request" /\ m.retry > 0
    /\ client # "connected"
    /\ queue' = Append(Tail(queue), TryConnect)
    /\ current' = m
    /\ task' = "requeue"
    /\ UNCHANGED <<listener, client, caller, sent, tries>>

\* Only the request is put back.
Requeue_NoTryConnect(m) ==
    /\ Receive(m)
    /\ m.kind = "Request" /\ m.retry > 0
    /\ client # "connected"
    /\ queue' = Tail(queue)
    /\ current' = Request(m.id, m.retry - 1)
    /\ task' = "requeue"
    /\ UNCHANGED <<listener, client, caller, sent, tries>>

\* A request that failed at the node is retried like an unsent one.
Reply_Retrying(outcome) ==
    /\ task = "requesting"
    /\ outcome = "value" => client = "connected"
    /\ caller[current.id] = "waiting"
    /\ IF outcome = "error" /\ current.retry > 0
       THEN /\ queue' = Append(queue, Request(current.id, current.retry - 1))
            /\ UNCHANGED caller
       ELSE /\ caller' = [caller EXCEPT ![current.id] = outcome]
            /\ UNCHANGED queue
    /\ current' = NoMessage
    /\ task' = "signal"
    /\ UNCHANGED <<listener, client, sent, tries>>

\* A failed attempt asks for the next one.
Connect_Again(established) ==
    /\ task = "connecting"
    /\ client' = IF established THEN "connected" ELSE "none"
    /\ tries' = [r \in Requests |->
                   IF Queued(r) /\ tries[r] < Retries THEN tries[r] + 1
                   ELSE tries[r]]
    /\ queue' = IF established THEN queue ELSE Append(queue, TryConnect)
    /\ task' = "signal"
    /\ UNCHANGED <<listener, current, caller, sent>>

\* Each turn of the loop first awaits ctrl_c().  With a listener installed
\* that completes only on Ctrl-C, and Ok breaks the loop ...
CtrlC ==
    /\ task = "signal"
    /\ listener
    /\ DropReceiver
    /\ task' = "stopped"
    /\ UNCHANGED <<listener, client, sent, tries>>

\* ... and without one it returns Err at once and the turn goes on.
NoCtrlC ==
    /\ task = "signal"
    /\ ~listener
    /\ task' = "recv"
    /\ UNCHANGED <<listener, queue, current, client, caller, sent, tries>>

\* A request without retries left is answered with RequestFailed; whether
\* anybody still waits for it does not matter here.
GiveUp(m) ==
    /\ Receive(m)
    /\ m.kind = "Request" /\ m.retry = 0
    /\ queue' = Tail(queue)
    /\ caller' = [caller EXCEPT ![m.id] =
                    IF @ = "waiting" THEN "exhausted" ELSE @]
    /\ task' = "signal"
    /\ UNCHANGED <<listener, current, client, sent, tries>>

\* No client, or one that has lost its connection: TryConnect goes to the
\* back of the queue ...
Requeue(m) ==
    /\ Receive(m)
    /\ m.kind = "Request" /\ m.retry > 0
    /\ client # "connected"
    /\ queue' = Append(Tail(queue), TryConnect)
    /\ current' = Request(m.id, m.retry - 1)
    /\ task' = "requeue"
    /\ UNCHANGED <<listener, client, caller, sent, tries>>

\* ... and then, by a send of its own, the request.
RequeueRequest ==
    /\ task = "requeue"
    /\ queue' = Append(queue, current)
    /\ current' = NoMessage
    /\ task' = "signal"
    /\ UNCHANGED <<listener, client, caller, sent, tries>>

\* A connected client: the request goes to the node and the task awaits the
\* reply, leaving the queue alone meanwhile.
Forward(m) ==
    /\ Receive(m)
    /\ m.kind = "Request" /\ m.retry > 0
    /\ client = "connected"
    /\ queue' = Tail(queue)
    /\ current' = m
    /\ sent' = [sent EXCEPT ![m.id] = @ + 1]
    /\ task' = "requesting"
    /\ UNCHANGED <<listener, client, caller, tries>>

\* The node replies, or the request times out, fails or loses its connection
\* (all of them Error::ClientError), and the caller is still there.
Reply(outcome) ==
    /\ task = "requesting"
    /\ outcome = "value" => client = "connected"
    /\ caller[current.id] = "waiting"
    /\ caller' = [caller EXCEPT ![current.id] = outcome]
    /\ current' = NoMessage
    /\ task' = "signal"
    /\ UNCHANGED <<listener, queue, client, sent, tries>>

\* The reply comes when the caller is gone: res_tx.send(..).unwrap() panics
\* and takes the task with it.
ReplyUnwanted ==
    /\ task = "requesting"
    /\ caller[current.id] # "waiting"
    /\ DropReceiver
    /\ task' = "panicked"
    /\ UNCHANGED <<listener, client, sent, tries>>

StartConnect(m) ==
    /\ Receive(m)
    /\ m.kind = "TryConnect"
    /\ queue' = Tail(queue)
    /\ task' = "connecting"
    /\ UNCHANGED <<listener, current, client, caller, sent, tries>>

\* try_connect ends within the connection timeout.  Its result replaces the
\* client whether the old one was still good or not.
Connect(established) ==
    /\ task = "connecting"
    /\ client' = IF established THEN "connected" ELSE "none"
    /\ tries' = [r \in Requests |->
                   IF Queued(r) /\ tries[r] < Retries THEN tries[r] + 1
                   ELSE tries[r]]
    /\ task' = "signal"
    /\ UNCHANGED <<listener, queue, current, caller, sent>>

\* The WebSocket breaks; the client object stays.
ConnectionLost ==
    /\ client = "connected"
    /\ TaskAlive
    /\ client' = "lost"
    /\ UNCHANGED <<listener, queue, task, current, caller, sent, tries>>

-----------------------------------------------------------------------------
Handle(m) == GiveUp(m) \/ Requeue(m) \/ Forward(m) \/ StartConnect(m)

Turn ==
    \/ NoCtrlC
    \/ \E m \in Message : Handle(m)
    \/ RequeueRequest
    \/ \E outcome \in {"value", "error"} : Reply(outcome)
    \/ ReplyUnwanted
    \/ \E established \in BOOLEAN : Connect(established)

Next ==
    \/ \E r \in Requests : Submit(r) \/ SubmitRefused(r) \/ Cancel(r)
    \/ CtrlC
    \/ Turn
    \/ ConnectionLost

\* What the runtime owes the task: it is polled when it can go on, a
\* connection attempt ends (connection_timeout) and so does a request
\* (request_timeout).  Ctrl-C need never come.
Fairness == WF_vars(Turn)

Spec     == Init /\ [][Next]_vars
FairSpec == Spec /\ Fairness

-----------------------------------------------------------------------------
(* Properties.                                                             *)

TypeOK ==
    /\ listener \in BOOLEAN
    /\ queue \in Seq(Message)
    /\ task \in TaskStates
    /\ current \in RequestMessage \cup {NoMessage}
    /\ client \in {"none", "connected", "lost"}
    /\ caller \in [Requests -> CallerStates]
    /\ sent \in [Requests -> Nat]
    /\ tries \in [Requests -> 0 .. Retries]

\* However often a request is put back in the queue and the connection is
\* remade, the node is given it at most once: a transaction is never
\* submitted twice by the retry loop.
AtMostOnce == \A r \in Requests : sent[r] <= 1

\* RequestFailed, whether the retries ran out or the task went away, means
\* that the node has never seen the request; the caller may safely repeat it.
FailedMeansUnsent ==
    \A r \in Requests : caller[r] \in {"exhausted", "closed"} => sent[r] = 0

\* A request is given up only after its full budget of connection attempts
\* made while it waited: attempts other requests asked for may serve it too,
\* but no retry is spent without one.
RetryBudget ==
    \A r \in Requests : caller[r] = "exhausted" => tries[r] = Retries

\* Whoever waits for an answer still has a message, in the queue or in the
\* task's hands, and a task that will get to it; nobody waits on a oneshot
\* whose other end is lost or left behind by a task that ended.
NoWaiterForgotten ==
    \A r \in Requests : caller[r] = "waiting" => TaskAlive /\ Pending(r)

\* The task feeds its own unbounded queue, but never with more than one
\* TryConnect for each request that is pending.
QueueBounded ==
    Len(queue) <= 2 * Cardinality({r \in Requests : Pending(r)})

\* How far a waiting request is from its outcome: the retries it has left (a
\* half more while the task holds it back), the messages that come before it,
\* and what the task has to do before it receives the next of them.
PlaceIn(q, r) == CHOOSE i \in 1 .. Len(q) : Carries(q[i], r)
Place(r)      == IF Queued(r) THEN PlaceIn(queue, r) ELSE 0
Round(r)      == IF Queued(r) THEN 2 * queue[Place(r)].retry
                 ELSE IF task = "requeue" THEN 2 * current.retry + 1
                                          ELSE 2 * current.retry
Stage         == CASE task = "recv" -> 0 [] task = "signal" -> 1 [] OTHER -> 2

Nearer(r) ==
    \/ Round(r)' < Round(r)
    \/ Round(r)' = Round(r) /\ Place(r)' < Place(r)
    \/ Round(r)' = Round(r) /\ Place(r)' = Place(r) /\ Stage' < Stage

\* Each turn of the task brings every request that waits nearer to its outcome,
\* and nothing else takes one back: not the connections that break or fail, nor
\* the messages the task and other callers put in the queue, between its two
\* sends too.  So a request waits for a bounded number of turns only.
EveryTurnHelps ==
    [][\A r \in Requests :
          caller[r] = "waiting" =>
              \/ caller'[r] # "waiting"
              \/ IF Turn THEN Nearer(r) ELSE UNCHANGED <<Round(r), Place(r), Stage>>]_vars

\* Where no listener can be installed every caller is answered (or gives up):
\* the retries end, and whatever the connection does the queue moves.
Answered ==
    \A r \in Requests : ~listener /\ caller[r] = "waiting" ~> caller[r] # "waiting"

\* What the configuration's request timeout says: so it is everywhere.
AnsweredInTime ==
    \A r \in Requests : caller[r] = "waiting" ~> caller[r] # "waiting"

\* The queue, the retries and the connection implement the promise made to
\* the callers of Client::request.
statusBar == [r \in Requests |->
                CASE caller[r] = "idle"                     -> "idle"
                  [] caller[r] = "waiting"                  -> "pending"
                  [] caller[r] \in {"value", "error"}       -> "answered"
                  [] caller[r] \in {"exhausted", "closed"}  -> "refused"
                  [] caller[r] = "cancelled"                -> "abandoned"]

Service == INSTANCE RequestService WITH status <- statusBar, executions <- sent

ServiceSpec == Service!Spec

\* What res_tx.send(response).unwrap() asserts: the receiver of a reply is
\* alive when the reply comes.
ReplyWanted == task # "panicked"
=============================================================================
