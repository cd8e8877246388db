-------------------------- MODULE NodeClientProofs --------------------------
(***************************************************************************)
(* The safety properties of NodeClient, for every set of requests and      *)
(* every number of retries.                                                *)
(***************************************************************************)
EXTENDS NodeClient, FiniteSetTheorems, TLAPS

-----------------------------------------------------------------------------
(* The inductive invariant.                                                *)

IsRequest(i) == queue[i].kind = "Request"

\* A request is in the queue at most once, and not while the task holds it.
Distinct ==
    /\ \A i, j \in 1 .. Len(queue) :
         IsRequest(i) /\ IsRequest(j) /\ queue[i].id = queue[j].id => i = j
    /\ \A i \in 1 .. Len(queue) : ~(IsRequest(i) /\ Carries(current, queue[i].id))

\* The task holds a request exactly between taking it and putting it back or
\* replying to it.
HandShape == (current.kind = "Request") <=> task \in {"requeue", "requesting"}

\* A task that has ended left nothing in the queue.
NothingLeft == TaskAlive \/ queue = <<>>

\* A queued request has a caller that is waiting or has gone away, and the
\* node has not seen it.
QueuedUnsent ==
    \A i \in 1 .. Len(queue) :
        IsRequest(i) => /\ caller[queue[i].id] \in {"waiting", "cancelled"}
                        /\ sent[queue[i].id] = 0

\* The same of the request in the task's hands, which has been given to the
\* node exactly when the task awaits the reply.
HeldRequest ==
    current.kind = "Request" =>
        /\ caller[current.id] \in {"waiting", "cancelled"}
        /\ sent[current.id] = IF task = "requesting" THEN 1 ELSE 0

IdleUnsent == \A r \in Requests : caller[r] = "idle" => sent[r] = 0

AnsweredSent ==
    \A r \in Requests : caller[r] \in {"value", "error"} => sent[r] = 1

\* A TryConnect comes before position n of the queue, or is being handled.
ConnectBefore(n) == \/ task = "connecting"
                    \/ \E j \in 1 .. (n - 1) : queue[j].kind = "TryConnect"

\* Retries spent are attempts made, but for the one still ahead in the queue.
Budget ==
    /\ \A i \in 1 .. Len(queue) :
         IsRequest(i) =>
           \/ tries[queue[i].id] + queue[i].retry >= Retries
           \/ /\ tries[queue[i].id] + queue[i].retry + 1 >= Retries
              /\ ConnectBefore(i)
    /\ task = "requeue" => /\ tries[current.id] + current.retry + 1 >= Retries
                           /\ ConnectBefore(Len(queue) + 1)

IInv ==
    /\ TypeOK
    /\ Distinct
    /\ HandShape
    /\ NothingLeft
    /\ QueuedUnsent
    /\ HeldRequest
    /\ IdleUnsent
    /\ AnsweredSent
    /\ Budget
    /\ AtMostOnce
    /\ FailedMeansUnsent
    /\ RetryBudget
    /\ NoWaiterForgotten

-----------------------------------------------------------------------------
(* What the queue looks like after a send and after a receive.             *)

\* A send adds the message at the end and moves nothing.
LEMMA AppendFacts ==
    ASSUME NEW S, NEW s \in Seq(S), NEW e \in S
    PROVE  /\ Append(s, e) \in Seq(S)
           /\ Len(s) \in Nat
           /\ Len(Append(s, e)) = Len(s) + 1
           /\ \A i \in 1 .. Len(s) : Append(s, e)[i] = s[i]
           /\ Append(s, e)[Len(s) + 1] = e
  OBVIOUS

\* A receive takes the first message and moves every other one up.
LEMMA TailFacts ==
    ASSUME NEW S, NEW s \in Seq(S), s # <<>>
    PROVE  /\ Tail(s) \in Seq(S)
           /\ Len(s) \in Nat \ {0}
           /\ Len(Tail(s)) = Len(s) - 1
           /\ \A i \in 1 .. Len(s) - 1 : Tail(s)[i] = s[i + 1]
           /\ Head(s) = s[1]
           /\ Head(s) \in S
  OBVIOUS

\* Messages of the two kinds.
LEMMA MessageFacts ==
    /\ \A r \in Requests, k \in 0 .. Retries : Request(r, k) \in RequestMessage
    /\ TryConnect \in Message
    /\ RequestMessage \subseteq Message
    /\ \A m \in Message : m.kind = "Request" => m \in RequestMessage
    /\ \A m \in RequestMessage :
         m.kind = "Request" /\ m.id \in Requests /\ m.retry \in 0 .. Retries
  BY DEF Request, RequestMessage, Message, TryConnect

-----------------------------------------------------------------------------
(* Types.                                                                  *)

\* Every step keeps the types (the task holds a request when it puts one back).
LEMMA TypeStep == TypeOK /\ HandShape /\ [Next]_vars => TypeOK'
<1> SUFFICES ASSUME TypeOK, HandShape, [Next]_vars PROVE TypeOK'
    OBVIOUS
<1> USE RetriesAssumption
<1>1. ASSUME NEW r \in Requests, Submit(r) PROVE TypeOK'
  <2>1. Request(r, Retries) \in Message
      BY MessageFacts
  <2>2. queue' \in Seq(Message)
      BY <1>1, <2>1, AppendFacts DEF TypeOK, Submit
  <2> QED
      BY <1>1, <2>2 DEF TypeOK, Submit, CallerStates
<1>2. ASSUME NEW r \in Requests, SubmitRefused(r) PROVE TypeOK'
    BY <1>2 DEF TypeOK, SubmitRefused, CallerStates
<1>3. ASSUME NEW r \in Requests, Cancel(r) PROVE TypeOK'
    BY <1>3 DEF TypeOK, Cancel, CallerStates
<1>4. ASSUME CtrlC PROVE TypeOK'
    BY <1>4 DEF TypeOK, CtrlC, DropReceiver, CallerStates, TaskStates
<1>5. ASSUME NoCtrlC PROVE TypeOK'
    BY <1>5 DEF TypeOK, NoCtrlC, TaskStates
<1>6. ASSUME NEW m \in Message, GiveUp(m) PROVE TypeOK'
  <2>1. queue' \in Seq(Message)
      BY <1>6, TailFacts DEF TypeOK, GiveUp, Receive
  <2> QED
      BY <1>6, <2>1 DEF TypeOK, GiveUp, CallerStates, TaskStates
<1>7. ASSUME NEW m \in Message, Requeue(m) PROVE TypeOK'
  <2>1. Tail(queue) \in Seq(Message)
      BY <1>7, TailFacts DEF TypeOK, Requeue, Receive
  <2>2. queue' \in Seq(Message)
      BY <1>7, <2>1, AppendFacts, MessageFacts DEF Requeue
  <2>3. m.id \in Requests /\ m.retry - 1 \in 0 .. Retries
      BY <1>7, MessageFacts DEF Requeue
  <2>4. current' \in RequestMessage
      BY <1>7, <2>3, MessageFacts DEF Requeue
  <2> QED
      BY <1>7, <2>2, <2>4 DEF TypeOK, Requeue, TaskStates
<1>8. ASSUME RequeueRequest PROVE TypeOK'
  <2>1. current \in Message
      BY <1>8, MessageFacts DEF TypeOK, RequeueRequest, HandShape, NoMessage
  <2>2. queue' \in Seq(Message)
      BY <1>8, <2>1, AppendFacts DEF TypeOK, RequeueRequest
  <2> QED
      BY <1>8, <2>2 DEF TypeOK, RequeueRequest, TaskStates
<1>9. ASSUME NEW m \in Message, Forward(m) PROVE TypeOK'
  <2>1. queue' \in Seq(Message)
      BY <1>9, TailFacts DEF TypeOK, Forward, Receive
  <2>2. m \in RequestMessage
      BY <1>9, MessageFacts DEF Forward
  <2> QED
      BY <1>9, <2>1, <2>2, MessageFacts DEF TypeOK, Forward, TaskStates
<1>10. ASSUME NEW outcome \in {"value", "error"}, Reply(outcome) PROVE TypeOK'
    BY <1>10 DEF TypeOK, Reply, CallerStates, TaskStates
<1>11. ASSUME ReplyUnwanted PROVE TypeOK'
    BY <1>11 DEF TypeOK, ReplyUnwanted, DropReceiver, CallerStates, TaskStates
<1>12. ASSUME NEW m \in Message, StartConnect(m) PROVE TypeOK'
  <2>1. queue' \in Seq(Message)
      BY <1>12, TailFacts DEF TypeOK, StartConnect, Receive
  <2> QED
      BY <1>12, <2>1 DEF TypeOK, StartConnect, TaskStates
<1>13. ASSUME NEW established \in BOOLEAN, Connect(established) PROVE TypeOK'
  <2>1. tries' \in [Requests -> 0 .. Retries]
      BY <1>13 DEF TypeOK, Connect
  <2> QED
      BY <1>13, <2>1 DEF TypeOK, Connect, TaskStates
<1>14. ASSUME ConnectionLost PROVE TypeOK'
    BY <1>14 DEF TypeOK, ConnectionLost
<1>15. ASSUME UNCHANGED vars PROVE TypeOK'
    BY <1>15 DEF TypeOK, vars
<1> QED
    BY <1>1, <1>2, <1>3, <1>4, <1>5, <1>6, <1>7, <1>8, <1>9, <1>10, <1>11,
       <1>12, <1>13, <1>14, <1>15 DEF Next, Turn, Handle

-----------------------------------------------------------------------------
(* Every action preserves the invariant.                                   *)

\* Submit appends a request nothing in the queue carries yet.
LEMMA SubmitStep ==
    ASSUME IInv, NEW r \in Requests, Submit(r)
    PROVE  IInv'
<1> USE RetriesAssumption DEF IInv
<1>1. TypeOK'
    BY TypeStep DEF Next
<1>2. TypeOK /\ Request(r, Retries) \in Message
    BY MessageFacts
<1>n. PICK n \in Nat : n = Len(queue)
    BY <1>2, AppendFacts DEF TypeOK
<1>3. /\ n \in Nat
      /\ Len(queue') = n + 1
      /\ \A i \in 1 .. n : queue'[i] = queue[i]
      /\ queue'[n + 1] = Request(r, Retries)
      /\ \A i \in 1 .. n : queue[i] \in Message
    BY <1>n, <1>2, AppendFacts DEF TypeOK, Submit
<1>4. /\ caller[r] = "idle" /\ caller' = [caller EXCEPT ![r] = "waiting"]
      /\ caller \in [Requests -> CallerStates]
      /\ task' = task /\ current' = current /\ sent' = sent /\ tries' = tries
      /\ TaskAlive /\ TaskAlive'
    BY DEF Submit, TypeOK, TaskAlive
<1>5. \A i \in 1 .. n : IsRequest(i) => queue[i].id \in Requests /\ queue[i].id # r
    BY <1>n, <1>3, <1>4, MessageFacts DEF QueuedUnsent, IsRequest
<1>6. ~Carries(current, r)
    BY <1>4 DEF HeldRequest, Carries
<1>7. /\ \A i \in 1 .. n : IsRequest(i)' <=> IsRequest(i)
      /\ Request(r, Retries).kind = "Request"
      /\ Request(r, Retries).id = r /\ Request(r, Retries).retry = Retries
    BY <1>3 DEF IsRequest, Request
<1>8. Distinct'
    BY <1>n, <1>3, <1>4, <1>5, <1>6, <1>7 DEF Distinct, Carries, IsRequest
<1>9. HandShape' /\ NothingLeft'
    BY <1>4 DEF HandShape, NothingLeft
<1>10. QueuedUnsent'
    BY <1>n, <1>3, <1>4, <1>5, <1>7 DEF QueuedUnsent, IdleUnsent, IsRequest
<1>11. HeldRequest'
    BY <1>4, <1>6 DEF HeldRequest, Carries, TypeOK, NoMessage
<1>12. IdleUnsent' /\ AnsweredSent' /\ AtMostOnce' /\ FailedMeansUnsent'
    BY <1>4 DEF IdleUnsent, AnsweredSent, AtMostOnce, FailedMeansUnsent
<1>13. RetryBudget'
    BY <1>4 DEF RetryBudget
<1>14. Budget'
  <2>1. \A i \in 1 .. n : ConnectBefore(i) => ConnectBefore(i)'
      BY <1>3, <1>4 DEF ConnectBefore
  <2>2. tries[r] \in 0 .. Retries /\ tries[r] + Retries >= Retries
      BY <1>2 DEF TypeOK
  <2>3. task = "requeue" => ConnectBefore(n + 1)
      BY <1>n DEF Budget
  <2>4. ConnectBefore(n + 1) => ConnectBefore(n + 2)'
      BY <1>3, <1>4 DEF ConnectBefore
  <2>5. \A i \in 1 .. n + 1 :
          IsRequest(i)' =>
            \/ tries'[queue'[i].id] + queue'[i].retry >= Retries
            \/ /\ tries'[queue'[i].id] + queue'[i].retry + 1 >= Retries
               /\ ConnectBefore(i)'
    <3> SUFFICES ASSUME NEW i \in 1 .. n + 1, IsRequest(i)'
                 PROVE  \/ tries[queue'[i].id] + queue'[i].retry >= Retries
                        \/ /\ tries[queue'[i].id] + queue'[i].retry + 1 >= Retries
                           /\ ConnectBefore(i)'
        BY <1>4
    <3>1. CASE i = n + 1
        BY <3>1, <1>3, <1>7, <2>2
    <3>2. CASE i \in 1 .. n
        BY <1>n, <3>2, <1>3, <1>7, <2>1 DEF Budget
    <3> QED
        BY <3>1, <3>2, <1>3
  <2> QED
      BY <1>n, <2>3, <2>4, <2>5, <1>3, <1>4 DEF Budget
<1>15. NoWaiterForgotten'
    BY <1>n, <1>3, <1>4, <1>7 DEF NoWaiterForgotten, Pending, Queued, Carries
<1> QED
    BY <1>1, <1>8, <1>9, <1>10, <1>11, <1>12, <1>13, <1>14, <1>15

\* Steps that touch neither the queue nor what the task holds: at most one
\* caller is refused before it queued anything, or stops waiting.
LEMMA QuietStep ==
    ASSUME IInv,
           \/ \E r \in Requests : SubmitRefused(r) \/ Cancel(r)
           \/ NoCtrlC \/ ConnectionLost \/ UNCHANGED vars
    PROVE  IInv'
<1> USE RetriesAssumption DEF IInv
<1>1. TypeOK'
    BY TypeStep DEF Next, Turn
<1>2. /\ UNCHANGED <<queue, current, sent, tries>>
      /\ \/ UNCHANGED task
         \/ task = "signal" /\ task' = "recv"
    BY DEF SubmitRefused, Cancel, NoCtrlC, ConnectionLost, vars
<1>3. /\ caller \in [Requests -> CallerStates]
      /\ caller' \in [Requests -> CallerStates]
      /\ \A r \in Requests : \/ caller'[r] = caller[r]
                             \/ /\ caller[r] = "idle" /\ caller'[r] = "closed"
                                /\ ~TaskAlive
                             \/ caller[r] = "waiting" /\ caller'[r] = "cancelled"
    BY <1>1 DEF SubmitRefused, Cancel, NoCtrlC, ConnectionLost, vars, TypeOK
<1>4. \A i \in 1 .. Len(queue) : IsRequest(i) => queue[i].id \in Requests
    BY MessageFacts DEF TypeOK, IsRequest
<1>5. current.kind = "Request" => current.id \in Requests
    BY MessageFacts DEF TypeOK, NoMessage
<1>6. Distinct' /\ HandShape' /\ NothingLeft'
    BY <1>2 DEF Distinct, HandShape, NothingLeft, IsRequest, Carries, TaskAlive
<1>7. QueuedUnsent'
    BY <1>2, <1>3, <1>4 DEF QueuedUnsent, IsRequest
<1>8. HeldRequest'
    BY <1>2, <1>3, <1>5 DEF HeldRequest, HandShape
<1>9. IdleUnsent' /\ AnsweredSent' /\ AtMostOnce' /\ FailedMeansUnsent'
    BY <1>2, <1>3 DEF IdleUnsent, AnsweredSent, AtMostOnce, FailedMeansUnsent
<1>10. RetryBudget'
    BY <1>2, <1>3 DEF RetryBudget
<1>11. Budget'
    BY <1>2 DEF Budget, ConnectBefore, IsRequest
<1>12. NoWaiterForgotten'
    BY <1>2, <1>3 DEF NoWaiterForgotten, Pending, Queued, Carries, TaskAlive
<1> QED
    BY <1>1, <1>6, <1>7, <1>8, <1>9, <1>10, <1>11, <1>12

\* The end of the task, by Ctrl-C or by the panic on an unwanted reply, closes
\* every queued request; a request the task holds has no caller by then.
LEMMA EndStep ==
    ASSUME IInv, CtrlC \/ ReplyUnwanted
    PROVE  IInv'
<1> USE RetriesAssumption DEF IInv
<1>1. TypeOK'
    BY TypeStep DEF Next, Turn
<1>2. /\ queue' = <<>> /\ current' = NoMessage /\ ~TaskAlive'
      /\ task' \in {"stopped", "panicked"}
      /\ UNCHANGED <<sent, tries>>
    BY DEF CtrlC, ReplyUnwanted, DropReceiver, TaskAlive
<1>3. /\ caller \in [Requests -> CallerStates]
      /\ \A r \in Requests :
           caller'[r] = IF caller[r] = "waiting" /\ Queued(r) THEN "closed"
                        ELSE caller[r]
    BY DEF CtrlC, ReplyUnwanted, DropReceiver, TypeOK
<1>4. \A r \in Requests : Queued(r) => sent[r] = 0
    BY DEF Queued, QueuedUnsent, Carries, IsRequest
<1>5. \A r \in Requests : caller[r] = "waiting" => Queued(r)
  <2> SUFFICES ASSUME NEW r \in Requests, caller[r] = "waiting", ~Queued(r)
               PROVE FALSE
      OBVIOUS
  <2>1. Carries(current, r)
      BY DEF NoWaiterForgotten, Pending
  <2>2. CASE CtrlC
      BY <2>1, <2>2 DEF CtrlC, HandShape, Carries
  <2>3. CASE ReplyUnwanted
      BY <2>1, <2>3 DEF ReplyUnwanted, Carries
  <2> QED
      BY <2>2, <2>3
<1>6. Distinct' /\ HandShape' /\ NothingLeft' /\ QueuedUnsent' /\ HeldRequest'
    BY <1>2 DEF Distinct, HandShape, NothingLeft, QueuedUnsent, HeldRequest,
                NoMessage
<1>7. IdleUnsent' /\ AnsweredSent' /\ AtMostOnce' /\ RetryBudget'
    BY <1>2, <1>3 DEF IdleUnsent, AnsweredSent, AtMostOnce, RetryBudget
<1>8. FailedMeansUnsent'
    BY <1>2, <1>3, <1>4 DEF FailedMeansUnsent
<1>9. Budget'
    BY <1>2 DEF Budget
<1>10. NoWaiterForgotten'
    BY <1>3, <1>5 DEF NoWaiterForgotten
<1> QED
    BY <1>1, <1>6, <1>7, <1>8, <1>9, <1>10

\* A reply to a caller that waits: the node has executed its request.
LEMMA ReplyStep ==
    ASSUME IInv, NEW outcome \in {"value", "error"}, Reply(outcome)
    PROVE  IInv'
<1> USE RetriesAssumption DEF IInv
<1>1. TypeOK'
    BY TypeStep DEF Next, Turn
<1>2. /\ UNCHANGED <<queue, sent, tries>>
      /\ task = "requesting" /\ task' = "signal" /\ current' = NoMessage
    BY DEF Reply
<1>3. /\ caller \in [Requests -> CallerStates]
      /\ caller' = [caller EXCEPT ![current.id] = outcome]
      /\ caller[current.id] = "waiting"
    BY DEF Reply, TypeOK
<1>4. current.kind = "Request" /\ current.id \in Requests /\ sent[current.id] = 1
    BY <1>2, MessageFacts DEF HandShape, TypeOK, NoMessage, HeldRequest
<1>5. \A i \in 1 .. Len(queue) :
        IsRequest(i) => queue[i].id \in Requests /\ queue[i].id # current.id
    BY <1>4, MessageFacts DEF TypeOK, IsRequest, Distinct, Carries
<1>6. Distinct' /\ HandShape' /\ NothingLeft' /\ HeldRequest'
    BY <1>2 DEF Distinct, HandShape, NothingLeft, HeldRequest, IsRequest,
                Carries, NoMessage, TaskAlive
<1>7. QueuedUnsent'
    BY <1>2, <1>3, <1>5 DEF QueuedUnsent, IsRequest
<1>8. IdleUnsent' /\ AnsweredSent' /\ AtMostOnce' /\ FailedMeansUnsent'
    BY <1>2, <1>3, <1>4 DEF IdleUnsent, AnsweredSent, AtMostOnce, FailedMeansUnsent
<1>9. RetryBudget'
    BY <1>2, <1>3 DEF RetryBudget
<1>10. Budget'
    BY <1>2 DEF Budget, ConnectBefore, IsRequest
<1>11. NoWaiterForgotten'
    BY <1>2, <1>3, <1>4 DEF NoWaiterForgotten, Pending, Queued, Carries, TaskAlive
<1> QED
    BY <1>1, <1>6, <1>7, <1>8, <1>9, <1>10, <1>11

\* A connection attempt counts for every request in the queue, and so makes
\* good what the TryConnect just taken had promised.
LEMMA ConnectStep ==
    ASSUME IInv, NEW established \in BOOLEAN, Connect(established)
    PROVE  IInv'
<1> USE RetriesAssumption DEF IInv
<1>1. TypeOK'
    BY TypeStep DEF Next, Turn
<1>2. /\ UNCHANGED <<queue, current, caller, sent>>
      /\ task = "connecting" /\ task' = "signal"
    BY DEF Connect
<1>3. /\ tries \in [Requests -> 0 .. Retries]
      /\ \A r \in Requests : tries'[r] = IF Queued(r) /\ tries[r] < Retries
                                         THEN tries[r] + 1 ELSE tries[r]
    BY DEF Connect, TypeOK
<1>4. \A i \in 1 .. Len(queue) :
        IsRequest(i) => /\ queue[i].id \in Requests
                        /\ queue[i].retry \in 0 .. Retries
                        /\ Queued(queue[i].id)
    BY MessageFacts DEF TypeOK, IsRequest, Queued, Carries
<1>5. Distinct' /\ HandShape' /\ NothingLeft' /\ QueuedUnsent' /\ HeldRequest'
    BY <1>2 DEF Distinct, HandShape, NothingLeft, QueuedUnsent, HeldRequest,
                IsRequest, Carries, TaskAlive
<1>6. IdleUnsent' /\ AnsweredSent' /\ AtMostOnce' /\ FailedMeansUnsent'
    BY <1>2 DEF IdleUnsent, AnsweredSent, AtMostOnce, FailedMeansUnsent
<1>7. RetryBudget'
    BY <1>2, <1>3 DEF RetryBudget
<1>8. \A i \in 1 .. Len(queue) :
        IsRequest(i) => tries'[queue[i].id] + queue[i].retry >= Retries
  <2> SUFFICES ASSUME NEW i \in 1 .. Len(queue), IsRequest(i)
               PROVE  tries'[queue[i].id] + queue[i].retry >= Retries
      OBVIOUS
  <2>1. /\ queue[i].id \in Requests /\ queue[i].retry \in 0 .. Retries
        /\ tries[queue[i].id] \in 0 .. Retries
      BY <1>3, <1>4
  <2>2. tries'[queue[i].id] = IF tries[queue[i].id] < Retries
                              THEN tries[queue[i].id] + 1 ELSE tries[queue[i].id]
      BY <1>3, <1>4
  <2>3. tries[queue[i].id] + queue[i].retry + 1 >= Retries
      BY <2>1 DEF Budget
  <2> QED
      BY <2>1, <2>2, <2>3
<1>9. Budget'
    BY <1>2, <1>8 DEF Budget, IsRequest
<1>10. NoWaiterForgotten'
    BY <1>2 DEF NoWaiterForgotten, Pending, Queued, Carries, TaskAlive
<1> QED
    BY <1>1, <1>5, <1>6, <1>7, <1>9, <1>10

\* A receive finds at least one message.
LEMMA ReceiveLength ==
    ASSUME TypeOK, NEW m \in Message, Receive(m)
    PROVE  \E n \in Nat : n = Len(queue) - 1
<1>1. Len(queue) \in Nat \ {0}
    BY TailFacts DEF Receive, TypeOK
<1> QED
    BY <1>1

\* What a receive finds: a message of the right kind at the head, carrying a
\* request nothing else carries, and the rest of the queue one place ahead.
LEMMA ReceiveFacts ==
    ASSUME IInv, NEW m \in Message, Receive(m), NEW n \in Nat, n = Len(queue) - 1
    PROVE  /\ current = NoMessage /\ TaskAlive
           /\ m = queue[1]
           /\ Len(queue) = n + 1
           /\ Tail(queue) \in Seq(Message)
           /\ Len(Tail(queue)) = n
           /\ \A i \in 1 .. n : /\ Tail(queue)[i] = queue[i + 1]
                                /\ Tail(queue)[i] \in Message
           /\ m.kind = "Request" =>
                /\ m.id \in Requests /\ m.retry \in 0 .. Retries
                /\ caller[m.id] \in {"waiting", "cancelled"} /\ sent[m.id] = 0
                /\ \A i \in 1 .. n : ~Carries(Tail(queue)[i], m.id)
<1> USE DEF IInv
<1>1. queue \in Seq(Message) /\ queue # <<>> /\ m = Head(queue) /\ task = "recv"
    BY DEF Receive, TypeOK
<1>2. /\ m = queue[1] /\ Len(queue) = n + 1
      /\ Tail(queue) \in Seq(Message)
      /\ Len(Tail(queue)) = n
      /\ \A i \in 1 .. n : Tail(queue)[i] = queue[i + 1]
    BY <1>1, TailFacts
<1>3. \A i \in 1 .. n : Tail(queue)[i] \in Message
    BY <1>2
<1>4. current = NoMessage /\ TaskAlive
    BY <1>1, MessageFacts DEF HandShape, TypeOK, TaskAlive
<1>5. ASSUME m.kind = "Request"
      PROVE  /\ m.id \in Requests /\ m.retry \in 0 .. Retries
             /\ caller[m.id] \in {"waiting", "cancelled"} /\ sent[m.id] = 0
    BY <1>2, <1>5, MessageFacts DEF QueuedUnsent, IsRequest
<1>6. ASSUME m.kind = "Request", NEW i \in 1 .. n
      PROVE  ~Carries(Tail(queue)[i], m.id)
    BY <1>2, <1>6 DEF Distinct, IsRequest, Carries
<1> QED
    BY <1>2, <1>3, <1>4, <1>5, <1>6

\* Giving up answers the caller of a request the node has not seen, after as
\* many attempts as the request had retries.
LEMMA GiveUpStep ==
    ASSUME IInv, NEW m \in Message, GiveUp(m)
    PROVE  IInv'
<1> USE RetriesAssumption DEF IInv
<1>1. TypeOK'
    BY TypeStep DEF Next, Turn, Handle
<1>2. PICK n \in Nat : n = Len(queue) - 1
    BY ReceiveLength DEF GiveUp
<1>3. /\ current = NoMessage /\ TaskAlive /\ m = queue[1]
      /\ Len(queue) = n + 1 /\ Len(queue') = n
      /\ \A i \in 1 .. n : queue'[i] = queue[i + 1] /\ queue'[i] \in Message
      /\ m.id \in Requests /\ sent[m.id] = 0 /\ m.kind = "Request" /\ m.retry = 0
      /\ \A i \in 1 .. n : ~Carries(queue'[i], m.id)
    BY <1>2, ReceiveFacts DEF GiveUp
<1>4. /\ task = "recv" /\ task' = "signal"
      /\ UNCHANGED <<current, sent, tries>>
      /\ caller \in [Requests -> CallerStates]
      /\ caller' = [caller EXCEPT ![m.id] =
                      IF @ = "waiting" THEN "exhausted" ELSE @]
    BY DEF GiveUp, Receive, TypeOK
<1>5. \A i \in 1 .. n : IsRequest(i)' <=> IsRequest(i + 1)
    BY <1>3 DEF IsRequest
<1>6. Distinct'
    BY <1>3, <1>4, <1>5 DEF Distinct, NoMessage, Carries
<1>7. HandShape' /\ NothingLeft' /\ HeldRequest'
    BY <1>3, <1>4 DEF HandShape, NothingLeft, HeldRequest, NoMessage, TaskAlive
<1>8. QueuedUnsent'
  <2> SUFFICES ASSUME NEW i \in 1 .. n, IsRequest(i)'
               PROVE /\ caller'[queue'[i].id] \in {"waiting", "cancelled"}
                     /\ sent'[queue'[i].id] = 0
      BY <1>3 DEF QueuedUnsent
  <2>1. queue'[i].id \in Requests /\ queue'[i].id # m.id
      BY <1>3, MessageFacts DEF IsRequest, Carries
  <2>2. IsRequest(i + 1) /\ queue[i + 1] = queue'[i] /\ i + 1 \in 1 .. Len(queue)
      BY <1>3, <1>5
  <2> QED
      BY <1>4, <2>1, <2>2 DEF QueuedUnsent
<1>9. IdleUnsent' /\ AnsweredSent' /\ AtMostOnce' /\ FailedMeansUnsent'
    BY <1>3, <1>4 DEF IdleUnsent, AnsweredSent, AtMostOnce, FailedMeansUnsent
<1>10. tries[m.id] = Retries
  <2>1. tries[m.id] \in 0 .. Retries /\ 1 \in 1 .. Len(queue) /\ IsRequest(1)
      BY <1>3 DEF TypeOK, IsRequest
  <2>2. ~ConnectBefore(1)
      BY <1>4 DEF ConnectBefore
  <2> QED
      BY <1>3, <2>1, <2>2 DEF Budget
<1>11. RetryBudget'
    BY <1>4, <1>10 DEF RetryBudget
<1>12. Budget'
  <2> SUFFICES ASSUME NEW i \in 1 .. n, IsRequest(i)'
               PROVE  \/ tries[queue'[i].id] + queue'[i].retry >= Retries
                      \/ /\ tries[queue'[i].id] + queue'[i].retry + 1 >= Retries
                         /\ ConnectBefore(i)'
      BY <1>3, <1>4 DEF Budget
  <2>1. IsRequest(i + 1) /\ queue[i + 1] = queue'[i] /\ i + 1 \in 1 .. Len(queue)
      BY <1>3, <1>5
  <2>2. ConnectBefore(i + 1) => ConnectBefore(i)'
    <3> SUFFICES ASSUME ConnectBefore(i + 1) PROVE ConnectBefore(i)'
        OBVIOUS
    <3>1. PICK j \in 1 .. i : queue[j].kind = "TryConnect"
        BY <1>4 DEF ConnectBefore
    <3>2. j # 1 /\ j - 1 \in 1 .. (i - 1) /\ queue'[j - 1] = queue[j]
        BY <1>3, <3>1
    <3> QED
        BY <3>1, <3>2 DEF ConnectBefore
  <2> QED
      BY <2>1, <2>2 DEF Budget
<1>13. NoWaiterForgotten'
  <2> SUFFICES ASSUME NEW r \in Requests, caller'[r] = "waiting"
               PROVE  TaskAlive' /\ Queued(r)'
      BY DEF NoWaiterForgotten, Pending
  <2>1. caller[r] = "waiting" /\ r # m.id
      BY <1>3, <1>4
  <2>2. PICK i \in 1 .. Len(queue) : Carries(queue[i], r)
      BY <1>3, <2>1 DEF NoWaiterForgotten, Pending, Queued, Carries, NoMessage
  <2>3. i - 1 \in 1 .. n /\ queue'[i - 1] = queue[i]
      BY <1>3, <2>1, <2>2 DEF Carries
  <2> QED
      BY <1>3, <1>4, <2>2, <2>3 DEF Queued, TaskAlive
<1> QED
    BY <1>1, <1>6, <1>7, <1>8, <1>9, <1>11, <1>12, <1>13

\* Taking a TryConnect begins the attempt every request behind it waits for.
LEMMA StartConnectStep ==
    ASSUME IInv, NEW m \in Message, StartConnect(m)
    PROVE  IInv'
<1> USE RetriesAssumption DEF IInv
<1>1. TypeOK'
    BY TypeStep DEF Next, Turn, Handle
<1>2. PICK n \in Nat : n = Len(queue) - 1
    BY ReceiveLength DEF StartConnect
<1>3. /\ current = NoMessage /\ TaskAlive /\ m = queue[1]
      /\ Len(queue) = n + 1 /\ Len(queue') = n
      /\ \A i \in 1 .. n : queue'[i] = queue[i + 1]
    BY <1>2, ReceiveFacts DEF StartConnect
<1>4. /\ m.kind = "TryConnect" /\ task = "recv" /\ task' = "connecting"
      /\ UNCHANGED <<current, caller, sent, tries>>
    BY DEF StartConnect, Receive
<1>5. \A i \in 1 .. n : IsRequest(i)' <=> IsRequest(i + 1)
    BY <1>3 DEF IsRequest
<1>6. Distinct'
    BY <1>3, <1>4, <1>5 DEF Distinct, NoMessage, Carries
<1>7. HandShape' /\ NothingLeft' /\ HeldRequest'
    BY <1>3, <1>4 DEF HandShape, NothingLeft, HeldRequest, NoMessage, TaskAlive
<1>8. QueuedUnsent'
    BY <1>3, <1>4, <1>5 DEF QueuedUnsent
<1>9. IdleUnsent' /\ AnsweredSent' /\ AtMostOnce' /\ FailedMeansUnsent'
    BY <1>4 DEF IdleUnsent, AnsweredSent, AtMostOnce, FailedMeansUnsent
<1>10. RetryBudget'
    BY <1>4 DEF RetryBudget
<1>11. Budget'
  <2>1. \A i \in 1 .. n : ConnectBefore(i)'
      BY <1>4 DEF ConnectBefore
  <2> SUFFICES ASSUME NEW i \in 1 .. n, IsRequest(i)'
               PROVE  tries[queue'[i].id] + queue'[i].retry + 1 >= Retries
      BY <1>3, <1>4, <2>1 DEF Budget
  <2>2. IsRequest(i + 1) /\ queue[i + 1] = queue'[i] /\ i + 1 \in 1 .. Len(queue)
      BY <1>3, <1>5
  <2>3. queue'[i] \in Message
      BY <1>3, <2>2 DEF TypeOK
  <2>4. /\ queue'[i].id \in Requests /\ queue'[i].retry \in 0 .. Retries
        /\ tries[queue'[i].id] \in 0 .. Retries
      BY <2>2, <2>3, MessageFacts DEF IsRequest, TypeOK
  <2> QED
      BY <2>2, <2>4 DEF Budget
<1>12. NoWaiterForgotten'
  <2> SUFFICES ASSUME NEW r \in Requests, caller[r] = "waiting"
               PROVE  TaskAlive' /\ Queued(r)'
      BY <1>4 DEF NoWaiterForgotten, Pending
  <2>1. PICK i \in 1 .. Len(queue) : Carries(queue[i], r)
      BY <1>3 DEF NoWaiterForgotten, Pending, Queued, Carries, NoMessage
  <2>2. i - 1 \in 1 .. n /\ queue'[i - 1] = queue[i]
      BY <1>3, <1>4, <2>1 DEF Carries
  <2> QED
      BY <1>3, <1>4, <2>1, <2>2 DEF Queued, TaskAlive
<1> QED
    BY <1>1, <1>6, <1>7, <1>8, <1>9, <1>10, <1>11, <1>12

\* Forwarding is what makes a request sent; it leaves the queue for good.
LEMMA ForwardStep ==
    ASSUME IInv, NEW m \in Message, Forward(m)
    PROVE  IInv'
<1> USE RetriesAssumption DEF IInv
<1>1. TypeOK'
    BY TypeStep DEF Next, Turn, Handle
<1>2. PICK n \in Nat : n = Len(queue) - 1
    BY ReceiveLength DEF Forward
<1>3. /\ current = NoMessage /\ TaskAlive /\ m = queue[1]
      /\ Len(queue) = n + 1 /\ Len(queue') = n
      /\ \A i \in 1 .. n : queue'[i] = queue[i + 1] /\ queue'[i] \in Message
      /\ m.id \in Requests /\ sent[m.id] = 0 /\ m.kind = "Request"
      /\ caller[m.id] \in {"waiting", "cancelled"}
      /\ \A i \in 1 .. n : ~Carries(queue'[i], m.id)
    BY <1>2, ReceiveFacts DEF Forward
<1>4. /\ task = "recv" /\ task' = "requesting" /\ current' = m
      /\ UNCHANGED <<caller, tries>>
      /\ sent \in [Requests -> Nat]
      /\ sent' = [sent EXCEPT ![m.id] = @ + 1]
    BY DEF Forward, Receive, TypeOK
<1>5. \A i \in 1 .. n : IsRequest(i)' <=> IsRequest(i + 1)
    BY <1>3 DEF IsRequest
<1>6. Distinct'
    BY <1>3, <1>4, <1>5 DEF Distinct, Carries, IsRequest
<1>7. HandShape' /\ NothingLeft' /\ HeldRequest'
    BY <1>3, <1>4 DEF HandShape, NothingLeft, HeldRequest, TaskAlive
<1>8. QueuedUnsent'
  <2> SUFFICES ASSUME NEW i \in 1 .. n, IsRequest(i)'
               PROVE /\ caller'[queue'[i].id] \in {"waiting", "cancelled"}
                     /\ sent'[queue'[i].id] = 0
      BY <1>3 DEF QueuedUnsent
  <2>1. queue'[i].id \in Requests /\ queue'[i].id # m.id
      BY <1>3, MessageFacts DEF IsRequest, Carries
  <2>2. IsRequest(i + 1) /\ queue[i + 1] = queue'[i] /\ i + 1 \in 1 .. Len(queue)
      BY <1>3, <1>5
  <2> QED
      BY <1>4, <2>1, <2>2 DEF QueuedUnsent
<1>9. IdleUnsent' /\ AnsweredSent' /\ AtMostOnce' /\ FailedMeansUnsent'
    BY <1>3, <1>4 DEF IdleUnsent, AnsweredSent, AtMostOnce, FailedMeansUnsent
<1>10. RetryBudget'
    BY <1>4 DEF RetryBudget
<1>11. Budget'
  <2> SUFFICES ASSUME NEW i \in 1 .. n, IsRequest(i)'
               PROVE  \/ tries[queue'[i].id] + queue'[i].retry >= Retries
                      \/ /\ tries[queue'[i].id] + queue'[i].retry + 1 >= Retries
                         /\ ConnectBefore(i)'
      BY <1>3, <1>4 DEF Budget
  <2>1. IsRequest(i + 1) /\ queue[i + 1] = queue'[i] /\ i + 1 \in 1 .. Len(queue)
      BY <1>3, <1>5
  <2>2. ConnectBefore(i + 1) => ConnectBefore(i)'
    <3> SUFFICES ASSUME ConnectBefore(i + 1) PROVE ConnectBefore(i)'
        OBVIOUS
    <3>1. PICK j \in 1 .. i : queue[j].kind = "TryConnect"
        BY <1>4 DEF ConnectBefore
    <3>2. j # 1 /\ j - 1 \in 1 .. (i - 1) /\ queue'[j - 1] = queue[j]
        BY <1>3, <3>1
    <3> QED
        BY <3>1, <3>2 DEF ConnectBefore
  <2> QED
      BY <2>1, <2>2 DEF Budget
<1>12. NoWaiterForgotten'
  <2> SUFFICES ASSUME NEW r \in Requests, caller[r] = "waiting", r # m.id
               PROVE  Queued(r)'
      BY <1>3, <1>4 DEF NoWaiterForgotten, Pending, Carries, TaskAlive
  <2>1. PICK i \in 1 .. Len(queue) : Carries(queue[i], r)
      BY <1>3 DEF NoWaiterForgotten, Pending, Queued, Carries, NoMessage
  <2>2. i - 1 \in 1 .. n /\ queue'[i - 1] = queue[i]
      BY <1>3, <2>1 DEF Carries
  <2> QED
      BY <1>3, <2>1, <2>2 DEF Queued
<1> QED
    BY <1>1, <1>6, <1>7, <1>8, <1>9, <1>10, <1>11, <1>12

\* A retry is spent against the TryConnect put into the queue before the
\* request.
LEMMA RequeueStep ==
    ASSUME IInv, NEW m \in Message, Requeue(m)
    PROVE  IInv'
<1> USE RetriesAssumption DEF IInv
<1>1. TypeOK'
    BY TypeStep DEF Next, Turn, Handle
<1>2. PICK n \in Nat : n = Len(queue) - 1
    BY ReceiveLength DEF Requeue
<1>3. /\ current = NoMessage /\ TaskAlive /\ m = queue[1]
      /\ Len(queue) = n + 1 /\ Tail(queue) \in Seq(Message) /\ Len(Tail(queue)) = n
      /\ \A i \in 1 .. n : Tail(queue)[i] = queue[i + 1]
      /\ m.id \in Requests /\ sent[m.id] = 0 /\ m.kind = "Request"
      /\ m.retry \in 0 .. Retries /\ m.retry # 0
      /\ caller[m.id] \in {"waiting", "cancelled"}
      /\ \A i \in 1 .. n : ~Carries(Tail(queue)[i], m.id)
  <2>1. Receive(m) /\ m.kind = "Request" /\ m.retry > 0
      BY DEF Requeue
  <2>2. m.retry \in 0 .. Retries /\ m.retry # 0
      BY <1>2, <2>1, ReceiveFacts
  <2> QED
      BY <1>2, <2>1, <2>2, ReceiveFacts
<1>4. /\ task = "recv" /\ task' = "requeue"
      /\ current' = Request(m.id, m.retry - 1)
      /\ queue' = Append(Tail(queue), TryConnect)
      /\ UNCHANGED <<caller, sent, tries>>
    BY DEF Requeue, Receive
<1>5. /\ Len(queue') = n + 1
      /\ \A i \in 1 .. n : queue'[i] = queue[i + 1] /\ ~Carries(queue'[i], m.id)
      /\ queue'[n + 1] = TryConnect
    BY <1>3, <1>4, MessageFacts, AppendFacts
<1>6. /\ current'.kind = "Request" /\ current'.id = m.id
      /\ current'.retry = m.retry - 1 /\ TryConnect.kind = "TryConnect"
    BY <1>4 DEF Request, TryConnect
<1>7. /\ \A i \in 1 .. n : IsRequest(i)' <=> IsRequest(i + 1)
      /\ ~IsRequest(n + 1)'
    BY <1>5, <1>6 DEF IsRequest
<1>8. Distinct'
  <2>1. \A i, j \in 1 .. n + 1 :
          (IsRequest(i) /\ IsRequest(j) /\ queue[i].id = queue[j].id)' => i = j
      BY <1>3, <1>5, <1>7 DEF Distinct
  <2>2. \A i \in 1 .. n + 1 : IsRequest(i)' => ~Carries(current, queue[i].id)'
      BY <1>5, <1>6, <1>7 DEF Carries, IsRequest
  <2> QED
      BY <1>5, <2>1, <2>2 DEF Distinct
<1>9. HandShape' /\ NothingLeft' /\ HeldRequest'
    BY <1>3, <1>4, <1>6 DEF HandShape, NothingLeft, HeldRequest, TaskAlive
<1>10. QueuedUnsent'
    BY <1>3, <1>4, <1>5, <1>7 DEF QueuedUnsent
<1>11. IdleUnsent' /\ AnsweredSent' /\ AtMostOnce' /\ FailedMeansUnsent'
    BY <1>4 DEF IdleUnsent, AnsweredSent, AtMostOnce, FailedMeansUnsent
<1>12. RetryBudget'
    BY <1>4 DEF RetryBudget
<1>13. Budget'
  <2>1. \A i \in 1 .. n : ConnectBefore(i + 1) => ConnectBefore(i)'
    <3> SUFFICES ASSUME NEW i \in 1 .. n, ConnectBefore(i + 1)
                 PROVE  ConnectBefore(i)'
        OBVIOUS
    <3>1. PICK j \in 1 .. i : queue[j].kind = "TryConnect"
        BY <1>4 DEF ConnectBefore
    <3>2. j # 1 /\ j - 1 \in 1 .. (i - 1) /\ queue'[j - 1] = queue[j]
        BY <1>3, <1>5, <3>1
    <3> QED
        BY <3>1, <3>2 DEF ConnectBefore
  <2>2. tries[m.id] + m.retry >= Retries
    <3>1. ~ConnectBefore(1)
        BY <1>4 DEF ConnectBefore
    <3>2. IsRequest(1) /\ 1 \in 1 .. Len(queue)
        BY <1>3 DEF IsRequest
    <3> QED
        BY <1>3, <3>1, <3>2 DEF Budget
  <2>3. ConnectBefore(n + 2)'
      BY <1>5, <1>6 DEF ConnectBefore
  <2>4. tries[m.id] \in 0 .. Retries
      BY <1>3 DEF TypeOK
  <2>5. ASSUME NEW i \in 1 .. n + 1, IsRequest(i)'
        PROVE  \/ tries[queue'[i].id] + queue'[i].retry >= Retries
               \/ /\ tries[queue'[i].id] + queue'[i].retry + 1 >= Retries
                  /\ ConnectBefore(i)'
    <3>1. i \in 1 .. n
        BY <1>7, <2>5
    <3>2. IsRequest(i + 1) /\ queue[i + 1] = queue'[i] /\ i + 1 \in 1 .. Len(queue)
        BY <1>3, <1>5, <1>7, <2>5, <3>1
    <3> QED
        BY <2>1, <3>1, <3>2 DEF Budget
  <2> QED
      BY <1>3, <1>4, <1>5, <1>6, <2>2, <2>3, <2>4, <2>5 DEF Budget
<1>14. NoWaiterForgotten'
  <2> SUFFICES ASSUME NEW r \in Requests, caller[r] = "waiting", r # m.id
               PROVE  Queued(r)'
      BY <1>3, <1>4, <1>6 DEF NoWaiterForgotten, Pending, Carries, TaskAlive
  <2>1. PICK i \in 1 .. Len(queue) : Carries(queue[i], r)
      BY <1>3 DEF NoWaiterForgotten, Pending, Queued, Carries, NoMessage
  <2>2. i - 1 \in 1 .. n /\ queue'[i - 1] = queue[i]
      BY <1>3, <1>5, <2>1 DEF Carries
  <2> QED
      BY <1>5, <2>1, <2>2 DEF Queued
<1> QED
    BY <1>1, <1>8, <1>9, <1>10, <1>11, <1>12, <1>13, <1>14

\* The request follows its TryConnect into the queue; other messages may have
\* come in between.
LEMMA RequeueRequestStep ==
    ASSUME IInv, RequeueRequest
    PROVE  IInv'
<1> USE RetriesAssumption DEF IInv
<1>1. TypeOK'
    BY TypeStep DEF Next, Turn
<1>2. /\ task = "requeue" /\ task' = "signal" /\ current' = NoMessage
      /\ queue' = Append(queue, current)
      /\ UNCHANGED <<caller, sent, tries>>
    BY DEF RequeueRequest
<1>3. /\ current.kind = "Request" /\ current \in Message /\ current.id \in Requests
      /\ caller[current.id] \in {"waiting", "cancelled"} /\ sent[current.id] = 0
    BY <1>2, MessageFacts DEF HandShape, HeldRequest, TypeOK, NoMessage
<1>4. PICK n \in Nat : n = Len(queue)
    BY <1>3, AppendFacts DEF TypeOK
<1>5. /\ Len(queue') = n + 1
      /\ \A i \in 1 .. n : queue'[i] = queue[i]
      /\ queue'[n + 1] = current
    BY <1>2, <1>3, <1>4, AppendFacts DEF TypeOK
<1>6. /\ \A i \in 1 .. n : IsRequest(i)' <=> IsRequest(i)
      /\ IsRequest(n + 1)'
    BY <1>3, <1>5 DEF IsRequest
<1>7. Distinct'
    BY <1>2, <1>3, <1>4, <1>5, <1>6 DEF Distinct, Carries, NoMessage
<1>8. HandShape' /\ NothingLeft' /\ HeldRequest'
    BY <1>2 DEF HandShape, NothingLeft, HeldRequest, NoMessage, TaskAlive
<1>9. QueuedUnsent'
    BY <1>2, <1>3, <1>4, <1>5, <1>6 DEF QueuedUnsent
<1>10. IdleUnsent' /\ AnsweredSent' /\ AtMostOnce' /\ FailedMeansUnsent'
    BY <1>2 DEF IdleUnsent, AnsweredSent, AtMostOnce, FailedMeansUnsent
<1>11. RetryBudget'
    BY <1>2 DEF RetryBudget
<1>12. Budget'
  <2>1. \A i \in 1 .. n + 1 : ConnectBefore(i) => ConnectBefore(i)'
      BY <1>2, <1>5 DEF ConnectBefore
  <2>2. tries[current.id] + current.retry + 1 >= Retries /\ ConnectBefore(n + 1)
      BY <1>2, <1>4 DEF Budget
  <2>3. ASSUME NEW i \in 1 .. n + 1, IsRequest(i)'
        PROVE  \/ tries[queue'[i].id] + queue'[i].retry >= Retries
               \/ /\ tries[queue'[i].id] + queue'[i].retry + 1 >= Retries
                  /\ ConnectBefore(i)'
    <3>1. CASE i = n + 1
        BY <3>1, <1>5, <2>1, <2>2
    <3>2. CASE i \in 1 .. n
        BY <3>2, <1>4, <1>5, <1>6, <2>1, <2>3 DEF Budget
    <3> QED
        BY <3>1, <3>2
  <2> QED
      BY <1>2, <1>5, <2>3 DEF Budget
<1>13. NoWaiterForgotten'
    BY <1>2, <1>3, <1>4, <1>5 DEF NoWaiterForgotten, Pending, Queued, Carries,
                                  TaskAlive
<1> QED
    BY <1>1, <1>7, <1>8, <1>9, <1>10, <1>11, <1>12, <1>13

-----------------------------------------------------------------------------
(* The safety properties.                                                  *)

LEMMA InvariantInit == Init => IInv
<1> SUFFICES ASSUME Init PROVE IInv
    OBVIOUS
<1> USE RetriesAssumption DEF Init
<1>1. TypeOK
    BY DEF TypeOK, TaskStates, CallerStates
<1>2. Distinct /\ HandShape /\ NothingLeft /\ QueuedUnsent /\ HeldRequest /\ Budget
    BY DEF Distinct, HandShape, NothingLeft, QueuedUnsent, HeldRequest, Budget,
           NoMessage, TaskAlive
<1>3. /\ IdleUnsent /\ AnsweredSent /\ AtMostOnce /\ FailedMeansUnsent
      /\ RetryBudget /\ NoWaiterForgotten
    BY DEF IdleUnsent, AnsweredSent, AtMostOnce, FailedMeansUnsent, RetryBudget,
           NoWaiterForgotten
<1> QED
    BY <1>1, <1>2, <1>3 DEF IInv

LEMMA InvariantStep == IInv /\ [Next]_vars => IInv'
    BY SubmitStep, QuietStep, EndStep, GiveUpStep, RequeueStep,
       RequeueRequestStep, ForwardStep, ReplyStep, StartConnectStep, ConnectStep
    DEF Next, Turn, Handle

\* The inductive invariant holds in every reachable state of the client, with
\* or without a Ctrl-C listener.
THEOREM Invariance == Spec => []IInv
<1>1. Init => IInv
    BY InvariantInit
<1>2. IInv /\ [Next]_vars => IInv'
    BY InvariantStep
<1> QED
    BY <1>1, <1>2, PTL DEF Spec

\* Every variable of the client keeps its type; in particular the retry count
\* never leaves 0 .. Retries, so its saturating_sub never saturates.
THEOREM TypeCorrect == Spec => []TypeOK
<1>1. IInv => TypeOK
    BY DEF IInv
<1> QED
    BY <1>1, Invariance, PTL

\* However requests, retries, reconnections and vanishing callers interleave,
\* the task gives a request to the node at most once.
THEOREM NeverSentTwice == Spec => []AtMostOnce
<1>1. IInv => AtMostOnce
    BY DEF IInv
<1> QED
    BY <1>1, Invariance, PTL

\* A caller that is told RequestFailed can rely on the node never having been
\* given its request.
THEOREM FailureIsClean == Spec => []FailedMeansUnsent
<1>1. IInv => FailedMeansUnsent
    BY DEF IInv
<1> QED
    BY <1>1, Invariance, PTL

\* Retries run out only after as many connection attempts as there are retries,
\* each finished while the request was in the queue.
THEOREM BudgetKept == Spec => []RetryBudget
<1>1. IInv => RetryBudget
    BY DEF IInv
<1> QED
    BY <1>1, Invariance, PTL

\* Nobody waits for a message that is lost or for a task that has ended.
THEOREM NobodyForgotten == Spec => []NoWaiterForgotten
<1>1. IInv => NoWaiterForgotten
    BY DEF IInv
<1> QED
    BY <1>1, Invariance, PTL

-----------------------------------------------------------------------------
(* The queue is bounded: each TryConnect in it can be put down to a request *)
(* of its own that is still behind it, or about to be.                      *)

ConnectsOf(q) == {i \in 1 .. Len(q) : q[i].kind = "TryConnect"}
RequestsOf(q) == {i \in 1 .. Len(q) : q[i].kind = "Request"}

\* The request whose TryConnect was put in the queue before it.
HeldBack == IF task = "requeue" THEN current ELSE NoMessage

Behind(q, m, i, r) == \/ \E j \in 1 .. Len(q) : j > i /\ Carries(q[j], r)
                      \/ Carries(m, r)

PairedBy(g, q, m) ==
    /\ g \in [ConnectsOf(q) -> Requests]
    /\ \A i \in ConnectsOf(q) : Behind(q, m, i, g[i])
    /\ \A i, j \in ConnectsOf(q) : g[i] = g[j] => i = j

Paired == \E g \in [ConnectsOf(queue) -> Requests] : PairedBy(g, queue, HeldBack)

\* A receive takes nothing that something before it was paired with.
LEMMA PairedTail ==
    ASSUME IInv, Paired, NEW m \in Message, Receive(m), NEW n \in Nat, n = Len(queue) - 1
    PROVE  \E g \in [ConnectsOf(Tail(queue)) -> Requests] :
               /\ PairedBy(g, Tail(queue), NoMessage)
               /\ m.kind = "Request" => \A i \in ConnectsOf(Tail(queue)) : g[i] # m.id
<1>1. /\ m = queue[1] /\ Len(queue) = n + 1 /\ Len(Tail(queue)) = n
      /\ \A i \in 1 .. n : Tail(queue)[i] = queue[i + 1]
      /\ m.kind = "Request" => \A i \in 1 .. n : ~Carries(Tail(queue)[i], m.id)
    BY ReceiveFacts
<1>2. PICK f \in [ConnectsOf(queue) -> Requests] : PairedBy(f, queue, HeldBack)
    BY DEF Paired
<1>3. \A r \in Requests : ~Carries(HeldBack, r)
    BY DEF HeldBack, Receive, Carries, NoMessage
<1> DEFINE g == [i \in ConnectsOf(Tail(queue)) |-> f[i + 1]]
<1>4. \A i \in ConnectsOf(Tail(queue)) :
         i \in 1 .. n /\ i + 1 \in ConnectsOf(queue) /\ g[i] = f[i + 1]
    BY <1>1 DEF ConnectsOf
<1>5. g \in [ConnectsOf(Tail(queue)) -> Requests]
    BY <1>4
<1> HIDE DEF g
<1>6. ASSUME NEW i \in ConnectsOf(Tail(queue))
      PROVE  \E j \in 1 .. n : j > i /\ Carries(Tail(queue)[j], g[i])
  <2>1. Behind(queue, HeldBack, i + 1, f[i + 1])
      BY <1>2, <1>4 DEF PairedBy
  <2>2. PICK k \in 1 .. n + 1 : k > i + 1 /\ Carries(queue[k], f[i + 1])
      BY <1>1, <1>3, <1>4, <2>1 DEF Behind
  <2>3. i \in 1 .. n /\ k - 1 \in 1 .. n /\ k - 1 > i /\ Tail(queue)[k - 1] = queue[k]
      BY <1>1, <1>4, <2>2
  <2> QED
      BY <1>4, <2>2, <2>3
<1>7. \A i, j \in ConnectsOf(Tail(queue)) : g[i] = g[j] => i = j
  <2> SUFFICES ASSUME NEW i \in ConnectsOf(Tail(queue)), NEW j \in ConnectsOf(Tail(queue)),
                      g[i] = g[j]
               PROVE  i = j
      OBVIOUS
  <2>1. i + 1 = j + 1
      BY <1>2, <1>4 DEF PairedBy
  <2> QED
      BY <1>4, <2>1
<1>8. PairedBy(g, Tail(queue), NoMessage)
    BY <1>1, <1>5, <1>6, <1>7 DEF PairedBy, Behind
<1>9. m.kind = "Request" => \A i \in ConnectsOf(Tail(queue)) : g[i] # m.id
    BY <1>1, <1>6
<1> QED
    BY <1>5, <1>8, <1>9

\* What a send leaves in its place.
LEMMA PairedAppend ==
    ASSUME NEW q \in Seq(Message), NEW e \in Message, NEW i \in 1 .. Len(q)
    PROVE  /\ i \in ConnectsOf(Append(q, e)) <=> i \in ConnectsOf(q)
           /\ \A m, r : Behind(q, m, i, r) => Behind(Append(q, e), m, i, r)
<1>1. /\ Len(q) \in Nat /\ Len(Append(q, e)) = Len(q) + 1
      /\ \A j \in 1 .. Len(q) : Append(q, e)[j] = q[j]
    BY AppendFacts
<1>2. 1 .. Len(q) \subseteq 1 .. Len(Append(q, e))
    BY <1>1
<1>3. i \in ConnectsOf(Append(q, e)) <=> i \in ConnectsOf(q)
    BY <1>1, <1>2 DEF ConnectsOf
<1>4. ASSUME NEW m, NEW r, Behind(q, m, i, r)
      PROVE  Behind(Append(q, e), m, i, r)
    BY <1>1, <1>2, <1>4 DEF Behind
<1> QED
    BY <1>3, <1>4

\* A send of a request by its caller, or by the task that held it back.
LEMMA PairedSend ==
    ASSUME TypeOK, Paired, NEW e \in RequestMessage, queue' = Append(queue, e),
           \A r \in Requests : Carries(HeldBack, r) => Carries(HeldBack', r) \/ Carries(e, r)
    PROVE  Paired'
<1>1. PICK f \in [ConnectsOf(queue) -> Requests] : PairedBy(f, queue, HeldBack)
    BY DEF Paired
<1>2. /\ queue \in Seq(Message) /\ e \in Message /\ e.kind = "Request"
      /\ Len(queue) \in Nat /\ Len(queue') = Len(queue) + 1 /\ queue'[Len(queue) + 1] = e
    BY AppendFacts, MessageFacts DEF TypeOK
<1>3. ConnectsOf(queue') = ConnectsOf(queue)
  <2>1. Len(queue) + 1 \notin ConnectsOf(queue')
      BY <1>2 DEF ConnectsOf
  <2>2. \A i \in 1 .. Len(queue) : i \in ConnectsOf(queue') <=> i \in ConnectsOf(queue)
      BY <1>2, PairedAppend
  <2>3. /\ ConnectsOf(queue') \subseteq 1 .. Len(queue) + 1
        /\ ConnectsOf(queue) \subseteq 1 .. Len(queue)
      BY <1>2 DEF ConnectsOf
  <2>4. \A i \in 1 .. Len(queue) + 1 : i \in 1 .. Len(queue) \/ i = Len(queue) + 1
      BY <1>2
  <2> QED
      BY <2>1, <2>2, <2>3, <2>4
<1>4. ASSUME NEW i \in ConnectsOf(queue)
      PROVE  Behind(queue', HeldBack', i, f[i])
  <2>1. i \in 1 .. Len(queue) /\ f[i] \in Requests /\ Behind(queue, HeldBack, i, f[i])
      BY <1>1 DEF PairedBy, ConnectsOf
  <2>2. CASE Carries(HeldBack, f[i])
    <3>1. Carries(HeldBack', f[i]) \/ Carries(queue'[Len(queue) + 1], f[i])
        BY <1>2, <2>1, <2>2
    <3>2. Len(queue) + 1 \in 1 .. Len(queue') /\ Len(queue) + 1 > i
        BY <1>2, <2>1
    <3> QED
        BY <3>1, <3>2 DEF Behind
  <2>3. CASE ~Carries(HeldBack, f[i])
    <3>1. Behind(queue, HeldBack', i, f[i])
        BY <2>1, <2>3 DEF Behind
    <3> QED
        BY <1>2, <2>1, <3>1, PairedAppend
  <2> QED
      BY <2>2, <2>3
<1>5. PairedBy(f, queue', HeldBack')
    BY <1>1, <1>3, <1>4 DEF PairedBy
<1> QED
    BY <1>1, <1>3, <1>5 DEF Paired

\* A TryConnect is put in the queue with the request held back behind it.
LEMMA PairedRequeue ==
    ASSUME IInv, Paired, NEW m \in Message, Requeue(m)
    PROVE  Paired'
<1> DEFINE t == Tail(queue)
<1>0. Receive(m) /\ m.kind = "Request" /\ TypeOK
    BY DEF Requeue, IInv
<1>1. PICK n \in Nat : n = Len(queue) - 1
    BY <1>0, ReceiveLength
<1>2. /\ t \in Seq(Message) /\ Len(t) = n /\ m.id \in Requests
    BY <1>0, <1>1, ReceiveFacts
<1>3. PICK f \in [ConnectsOf(t) -> Requests] :
         PairedBy(f, t, NoMessage) /\ \A i \in ConnectsOf(t) : f[i] # m.id
    BY <1>0, <1>1, PairedTail
<1>4. /\ queue' = Append(t, TryConnect) /\ Carries(HeldBack', m.id)
    BY DEF Requeue, HeldBack, Carries, Request
<1>5. /\ Len(queue') = n + 1 /\ queue'[n + 1] = TryConnect
    BY <1>2, <1>4, AppendFacts, MessageFacts
<1>6. \A i \in 1 .. n : i \in ConnectsOf(queue') <=> i \in ConnectsOf(t)
    BY <1>2, <1>4, PairedAppend, MessageFacts
<1> HIDE DEF t
<1>7. ConnectsOf(queue') = ConnectsOf(t) \cup {n + 1} /\ n + 1 \notin ConnectsOf(t)
  <2>1. n + 1 \in ConnectsOf(queue')
      BY <1>5 DEF ConnectsOf, TryConnect
  <2>2. ConnectsOf(queue') \subseteq 1 .. n + 1 /\ ConnectsOf(t) \subseteq 1 .. n
      BY <1>2, <1>5 DEF ConnectsOf
  <2>3. \A i \in 1 .. n + 1 : i \in 1 .. n \/ i = n + 1
      BY <1>1
  <2>4. n + 1 \notin 1 .. n
      BY <1>1
  <2> QED
      BY <1>6, <2>1, <2>2, <2>3, <2>4
<1> DEFINE g == [i \in ConnectsOf(queue') |-> IF i = n + 1 THEN m.id ELSE f[i]]
<1>8. /\ g \in [ConnectsOf(queue') -> Requests]
      /\ g[n + 1] = m.id
      /\ \A i \in ConnectsOf(t) : g[i] = f[i]
    BY <1>2, <1>7
<1> HIDE DEF g
<1>9. ASSUME NEW i \in ConnectsOf(queue')
      PROVE  Behind(queue', HeldBack', i, g[i])
  <2>1. CASE i = n + 1
      BY <1>4, <1>8, <2>1 DEF Behind
  <2>2. CASE i \in ConnectsOf(t)
    <3>1. i \in 1 .. Len(t) /\ Behind(t, NoMessage, i, f[i])
        BY <1>3, <2>2 DEF PairedBy, ConnectsOf
    <3>2. Behind(t, HeldBack', i, f[i])
        BY <3>1 DEF Behind, Carries, NoMessage
    <3> QED
        BY <1>2, <1>4, <1>8, <2>2, <3>1, <3>2, PairedAppend, MessageFacts
  <2> QED
      BY <1>7, <2>1, <2>2
<1>10. \A i, j \in ConnectsOf(queue') : g[i] = g[j] => i = j
    BY <1>3, <1>7, <1>8 DEF PairedBy
<1>11. PairedBy(g, queue', HeldBack')
    BY <1>8, <1>9, <1>10 DEF PairedBy
<1> QED
    BY <1>8, <1>11 DEF Paired

LEMMA PairedStep == IInv /\ Paired /\ [Next]_vars => Paired'
<1> SUFFICES ASSUME IInv, Paired, [Next]_vars PROVE Paired'
    OBVIOUS
<1>0. TypeOK /\ HandShape
    BY DEF IInv
<1>1. ASSUME NEW r \in Requests, Submit(r) PROVE Paired'
  <2>1. Request(r, Retries) \in RequestMessage
      BY RetriesAssumption, MessageFacts
  <2>2. HeldBack' = HeldBack
      BY <1>1 DEF Submit, HeldBack
  <2> QED
      BY <1>0, <1>1, <2>1, <2>2, PairedSend DEF Submit
<1>2. CASE RequeueRequest
  <2>1. current \in RequestMessage /\ HeldBack = current
      BY <1>0, <1>2 DEF RequeueRequest, HandShape, TypeOK, NoMessage, HeldBack
  <2> QED
      BY <1>0, <1>2, <2>1, PairedSend DEF RequeueRequest
<1>3. ASSUME NEW m \in Message, Requeue(m) PROVE Paired'
    BY <1>3, PairedRequeue
<1>4. ASSUME NEW m \in Message, GiveUp(m) \/ Forward(m) \/ StartConnect(m) PROVE Paired'
  <2>1. Receive(m) /\ queue' = Tail(queue) /\ HeldBack' = NoMessage
      BY <1>4 DEF GiveUp, Forward, StartConnect, HeldBack
  <2>2. PICK n \in Nat : n = Len(queue) - 1
      BY <1>0, <2>1, ReceiveLength
  <2>3. \E g \in [ConnectsOf(queue') -> Requests] : PairedBy(g, queue', NoMessage)
      BY <2>1, <2>2, PairedTail
  <2> QED
      BY <2>1, <2>3 DEF Paired
<1>5. CASE CtrlC \/ ReplyUnwanted
  <2>1. queue' = <<>>
      BY <1>5 DEF CtrlC, ReplyUnwanted, DropReceiver
  <2>2. ConnectsOf(queue') = {}
      BY <2>1 DEF ConnectsOf
  <2>3. PairedBy([i \in {} |-> 0], queue', HeldBack')
      BY <2>2 DEF PairedBy
  <2> QED
      BY <2>2, <2>3 DEF Paired
<1>6. CASE \/ \E r \in Requests : SubmitRefused(r) \/ Cancel(r)
           \/ NoCtrlC \/ ConnectionLost \/ UNCHANGED vars
           \/ \E outcome \in {"value", "error"} : Reply(outcome)
           \/ \E established \in BOOLEAN : Connect(established)
  <2>1. queue' = queue /\ HeldBack' = HeldBack
      BY <1>6 DEF SubmitRefused, Cancel, NoCtrlC, ConnectionLost, Reply, Connect, HeldBack, vars
  <2> QED
      BY <2>1 DEF Paired
<1> QED
    BY <1>1, <1>2, <1>3, <1>4, <1>5, <1>6 DEF Next, Turn, Handle

\* A pairing bounds the queue: as many requests as are in it, and as many
\* TryConnects as can be put down to them.
LEMMA PairedBounds ==
    ASSUME TypeOK, Distinct, Paired
    PROVE  QueueBounded
<1> DEFINE P == {r \in Requests : Pending(r)}
           C == ConnectsOf(queue)
           Q == RequestsOf(queue)
<1>1. Len(queue) \in Nat /\ \A i \in 1 .. Len(queue) : queue[i] \in Message
    BY DEF TypeOK
<1>2. /\ \A i \in Q : queue[i].kind = "Request" /\ queue[i].id \in Requests
      /\ 1 .. Len(queue) = C \cup Q /\ C \cap Q = {}
    BY <1>1, MessageFacts DEF Message, TryConnect, ConnectsOf, RequestsOf
<1>3. IsFiniteSet(1 .. Len(queue)) /\ Cardinality(1 .. Len(queue)) = Len(queue)
  <2>1. 1 \in Int /\ Len(queue) \in Int
      BY <1>1
  <2>2. /\ IsFiniteSet(1 .. Len(queue))
        /\ Cardinality(1 .. Len(queue)) = IF 1 > Len(queue) THEN 0 ELSE Len(queue) - 1 + 1
      BY <2>1, FS_Interval
  <2> QED
      BY <1>1, <2>2
<1>4. IsFiniteSet(C) /\ IsFiniteSet(Q) /\ Cardinality({}) = 0
    BY <1>2, <1>3, FS_Subset, FS_EmptySet
<1>5. Len(queue) = Cardinality(C) + Cardinality(Q)
  <2>1. Cardinality(C \cup Q) = Cardinality(C) + Cardinality(Q) - Cardinality(C \cap Q)
      BY <1>4, FS_Union
  <2>2. Cardinality(C) \in Nat /\ Cardinality(Q) \in Nat
      BY <1>4, FS_CardinalityType
  <2>3. Cardinality(C \cup Q) = Len(queue) /\ Cardinality(C \cap Q) = 0
      BY <1>2, <1>3, <1>4
  <2> HIDE DEF C, Q
  <2> QED
      BY <2>1, <2>2, <2>3
<1>6. IsFiniteSet(P)
  <2> DEFINE held == {r \in Requests : Carries(current, r)}
             back == {r \in Requests : Queued(r)}
             h == [i \in Q |-> queue[i].id]
  <2>1. IsFiniteSet(held)
    <3>1. held \subseteq {current.id}
        BY DEF Carries
    <3> QED
        BY <3>1, FS_Singleton, FS_Subset
  <2>2. h \in Surjection(Q, back)
    <3>1. \A i \in Q : queue[i].id \in back
        BY <1>2 DEF Queued, Carries, RequestsOf
    <3>2. \A r \in back : \E i \in Q : queue[i].id = r
        BY DEF Queued, Carries, RequestsOf
    <3> QED
        BY <3>1, <3>2 DEF Surjection
  <2>3. IsFiniteSet(back)
      BY <1>4, <2>2, FS_Surjection
  <2>4. P = back \cup held
      BY DEF Pending
  <2> QED
      BY <2>1, <2>3, <2>4, FS_Union
<1>7. Cardinality(Q) <= Cardinality(P)
  <2> DEFINE h == [i \in Q |-> queue[i].id]
  <2>1. \A i \in Q : queue[i].id \in P
      BY <1>2 DEF Pending, Queued, Carries, RequestsOf
  <2>2. \A i, j \in Q : queue[i].id = queue[j].id => i = j
      BY DEF Distinct, IsRequest, RequestsOf
  <2>3. h \in Injection(Q, P)
      BY <2>1, <2>2 DEF Injection, IsInjective
  <2> QED
      BY <1>6, <2>3, FS_Injection
<1>8. Cardinality(C) <= Cardinality(P)
  <2>1. PICK g \in [C -> Requests] : PairedBy(g, queue, HeldBack)
      BY DEF Paired
  <2>2. \A i \in C : g[i] \in P
      BY <2>1 DEF PairedBy, Behind, HeldBack, Pending, Queued, Carries, NoMessage
  <2>3. g \in Injection(C, P)
      BY <2>1, <2>2 DEF PairedBy, Injection, IsInjective
  <2> QED
      BY <1>6, <2>3, FS_Injection
<1>9. /\ Cardinality(P) \in Nat /\ Cardinality(C) \in Nat /\ Cardinality(Q) \in Nat
    BY <1>4, <1>6, FS_CardinalityType
<1> HIDE DEF P, C, Q
<1>10. Len(queue) <= 2 * Cardinality(P)
    BY <1>5, <1>7, <1>8, <1>9
<1> QED
    BY <1>10 DEF P, QueueBounded

\* However many requests there are, and however often their connections are
\* lost, the task never has more than two messages for each of them queued.
THEOREM QueueIsBounded == Spec => []QueueBounded
<1>1. Init => Paired
  <2> SUFFICES ASSUME Init PROVE Paired
      OBVIOUS
  <2>1. ConnectsOf(queue) = {}
      BY DEF Init, ConnectsOf
  <2>2. PairedBy([i \in {} |-> 0], queue, HeldBack)
      BY <2>1 DEF PairedBy
  <2> QED
      BY <2>1, <2>2 DEF Paired
<1>2. IInv /\ Paired /\ [Next]_vars => Paired'
    BY PairedStep
<1>3. IInv /\ Paired => QueueBounded
    BY PairedBounds DEF IInv
<1> QED
    BY <1>1, <1>2, <1>3, Invariance, PTL DEF Spec

-----------------------------------------------------------------------------
(* Every turn of the task helps everybody who waits.                       *)

\* What carries a request is in one place, which gives its distance.
Located ==
    /\ \A i \in 1 .. Len(queue), r \in Requests :
         Carries(queue[i], r) => /\ Queued(r) /\ Place(r) = i
                                 /\ Round(r) = 2 * queue[i].retry
                                 /\ ~Carries(current, r)
    /\ \A r \in Requests :
         Carries(current, r) => /\ ~Queued(r) /\ Place(r) = 0
                                /\ Round(r) = IF task = "requeue"
                                              THEN 2 * current.retry + 1
                                              ELSE 2 * current.retry

LEMMA LocatedInv == IInv => Located
<1> SUFFICES ASSUME IInv PROVE Located
    OBVIOUS
<1>1. \A i, j \in 1 .. Len(queue), r \in Requests :
         Carries(queue[i], r) /\ Carries(queue[j], r) => i = j
    BY DEF IInv, Distinct, IsRequest, Carries
<1>2. \A i \in 1 .. Len(queue), r \in Requests :
         Carries(queue[i], r) => ~Carries(current, r)
    BY DEF IInv, Distinct, IsRequest, Carries
<1>3. ASSUME NEW i \in 1 .. Len(queue), NEW r \in Requests, Carries(queue[i], r)
      PROVE  Queued(r) /\ Place(r) = i /\ Round(r) = 2 * queue[i].retry
  <2>1. Queued(r)
      BY <1>3 DEF Queued
  <2>2. PlaceIn(queue, r) = i
      BY <1>1, <1>3 DEF PlaceIn
  <2> QED
      BY <2>1, <2>2 DEF Place, Round
<1>4. ASSUME NEW r \in Requests, Carries(current, r)
      PROVE  /\ ~Queued(r) /\ Place(r) = 0
             /\ Round(r) = IF task = "requeue" THEN 2 * current.retry + 1
                                               ELSE 2 * current.retry
  <2>1. ~Queued(r)
      BY <1>2, <1>4 DEF Queued
  <2> QED
      BY <2>1 DEF Place, Round
<1> QED
    BY <1>2, <1>3, <1>4 DEF Located

LEMMA LocatedNext == IInv' => Located'
    BY LocatedInv, PTL

\* The task puts back the request it held back: half a retry less to go.
LEMMA HeldTurn ==
    ASSUME IInv, IInv', Turn, NEW r \in Requests, Carries(current, r),
           caller[r] = "waiting", caller'[r] = "waiting"
    PROVE  Nearer(r)
<1>1. task \in {"requeue", "requesting"} /\ current.retry \in 0 .. Retries
    BY MessageFacts DEF IInv, HandShape, TypeOK, Carries, NoMessage
<1>2. CASE RequeueRequest
  <2>1. current \in Message
      BY <1>2, MessageFacts DEF RequeueRequest, IInv, HandShape, TypeOK, NoMessage
  <2>2. PICK n \in Nat : n = Len(queue) + 1 /\ Len(queue') = n /\ queue'[n] = current
      BY <1>2, <2>1, AppendFacts DEF RequeueRequest, IInv, TypeOK
  <2>3. Round(r)' = 2 * current.retry
      BY <2>2, LocatedNext DEF Located
  <2>4. Round(r) = 2 * current.retry + 1
      BY <1>2, LocatedInv DEF Located, RequeueRequest
  <2> QED
      BY <1>1, <2>3, <2>4, RetriesAssumption DEF Nearer
<1>3. ASSUME NEW outcome \in {"value", "error"}, Reply(outcome) PROVE FALSE
    BY <1>3 DEF Reply, Carries, IInv, TypeOK
<1>4. ~ReplyUnwanted
    BY DEF ReplyUnwanted, Carries
<1>5. /\ ~NoCtrlC
      /\ \A m \in Message : ~Handle(m)
      /\ \A established \in BOOLEAN : ~Connect(established)
    BY <1>1 DEF NoCtrlC, Handle, GiveUp, Requeue, Forward, StartConnect, Receive, Connect
<1> QED
    BY <1>2, <1>3, <1>4, <1>5 DEF Turn

\* The message at the head of the queue is handled: it was r's, which is held
\* or forwarded now, or everything behind it moves up.
LEMMA HandleTurn ==
    ASSUME IInv, IInv', NEW m \in Message, Handle(m), NEW r \in Requests,
           NEW i \in 1 .. Len(queue), Carries(queue[i], r), caller'[r] = "waiting"
    PROVE  Nearer(r)
<1>1. Place(r) = i /\ Round(r) = 2 * queue[i].retry /\ i \in Nat \ {0}
    BY LocatedInv DEF Located
<1>2. Receive(m) /\ queue[i] \in Message
    BY DEF Handle, GiveUp, Requeue, Forward, StartConnect, IInv, TypeOK
<1>n. PICK n \in Nat : n = Len(queue) - 1
    BY <1>2, ReceiveLength DEF IInv
<1>3. /\ Len(queue) = n + 1 /\ m = queue[1]
      /\ Len(Tail(queue)) = n /\ Tail(queue) \in Seq(Message)
      /\ \A j \in 1 .. n : Tail(queue)[j] = queue[j + 1]
    BY <1>2, <1>n, ReceiveFacts
<1>4. CASE i = 1
  <2>1. m \in RequestMessage /\ m.id = r /\ m.kind = "Request" /\ m.retry \in 0 .. Retries
      BY <1>3, <1>4, MessageFacts DEF Carries
  <2>2. ~GiveUp(m)
      BY <2>1 DEF GiveUp, IInv, TypeOK
  <2>3. CASE Requeue(m)
    <3>1. /\ m.retry > 0 /\ task' = "requeue"
          /\ current' = Request(r, m.retry - 1) /\ Carries(current', r)
          /\ current'.retry = m.retry - 1
        BY <2>1, <2>3 DEF Requeue, Request, Carries
    <3>2. Round(r)' = 2 * (m.retry - 1) + 1
        BY <3>1, LocatedNext DEF Located
    <3> QED
        BY <1>1, <1>3, <1>4, <2>1, <3>1, <3>2, RetriesAssumption DEF Nearer
  <2>4. CASE Forward(m)
    <3>1. task' = "requesting" /\ current' = m /\ Carries(current', r)
        BY <2>1, <2>4 DEF Forward, Carries
    <3>2. Round(r)' = 2 * m.retry /\ Place(r)' = 0
        BY <3>1, LocatedNext DEF Located
    <3> QED
        BY <1>1, <1>3, <1>4, <3>2 DEF Nearer
  <2>5. ~StartConnect(m)
      BY <2>1 DEF StartConnect
  <2> QED
      BY <2>2, <2>3, <2>4, <2>5 DEF Handle
<1>5. CASE i # 1
  <2>1. i - 1 \in 1 .. n /\ Tail(queue)[i - 1] = queue[i]
      BY <1>1, <1>3, <1>5
  <2>2. i - 1 \in 1 .. Len(queue') /\ queue'[i - 1] = queue[i]
    <3>1. CASE queue' = Tail(queue)
        BY <1>3, <2>1, <3>1
    <3>2. CASE queue' = Append(Tail(queue), TryConnect)
        BY <1>3, <2>1, <3>2, AppendFacts, MessageFacts
    <3> QED
        BY <3>1, <3>2 DEF Handle, GiveUp, Requeue, Forward, StartConnect
  <2>3. Place(r)' = i - 1 /\ Round(r)' = 2 * queue[i].retry
      BY <2>2, LocatedNext DEF Located
  <2> QED
      BY <1>1, <2>3 DEF Nearer
<1> QED
    BY <1>4, <1>5

\* Nothing is taken from the queue: r keeps its place, and the task gets on.
LEMMA QueuedTurn ==
    ASSUME IInv, IInv', Turn, NEW r \in Requests, NEW i \in 1 .. Len(queue),
           Carries(queue[i], r), caller[r] = "waiting", caller'[r] = "waiting"
    PROVE  Nearer(r)
<1>1. Place(r) = i /\ Round(r) = 2 * queue[i].retry /\ Queued(r)
    BY LocatedInv DEF Located
<1>2. ASSUME i \in 1 .. Len(queue'), queue'[i] = queue[i],
             \/ task = "signal" /\ task' = "recv"
             \/ task \in {"requeue", "requesting", "connecting"} /\ task' = "signal"
      PROVE  Nearer(r)
  <2>1. Place(r)' = i /\ Round(r)' = 2 * queue[i].retry
      BY <1>2, LocatedNext DEF Located
  <2>2. Stage' < Stage
      BY <1>2 DEF Stage
  <2> QED
      BY <1>1, <2>1, <2>2 DEF Nearer
<1>3. ASSUME NEW m \in Message, Handle(m) PROVE Nearer(r)
    BY <1>3, HandleTurn
<1>4. CASE RequeueRequest
  <2>1. current \in Message
      BY <1>4, MessageFacts DEF RequeueRequest, IInv, HandShape, TypeOK, NoMessage
  <2>2. i \in 1 .. Len(queue') /\ queue'[i] = queue[i]
      BY <1>4, <2>1, AppendFacts DEF RequeueRequest, IInv, TypeOK
  <2> QED
      BY <1>2, <1>4, <2>2 DEF RequeueRequest
<1>5. ~ReplyUnwanted
    BY <1>1 DEF ReplyUnwanted, DropReceiver
<1>6. CASE \/ NoCtrlC
           \/ \E outcome \in {"value", "error"} : Reply(outcome)
           \/ \E established \in BOOLEAN : Connect(established)
    BY <1>2, <1>6 DEF NoCtrlC, Reply, Connect
<1> QED
    BY <1>3, <1>4, <1>5, <1>6 DEF Turn

\* Other callers, the connection and Ctrl-C do not push it back.
LEMMA SubmitAside ==
    ASSUME IInv, IInv', NEW r \in Requests, Pending(r), NEW s \in Requests, Submit(s)
    PROVE  UNCHANGED <<Round(r), Place(r), Stage>>
<1>1. UNCHANGED <<current, task>>
    BY DEF Submit
<1>2. CASE Carries(current, r)
  <2>1. Carries(current', r)
      BY <1>1, <1>2
  <2>2. Place(r) = 0 /\ Place(r)' = 0 /\ Round(r)' = Round(r)
      BY <1>1, <1>2, <2>1, LocatedInv, LocatedNext DEF Located
  <2> QED
      BY <1>1, <2>2 DEF Stage
<1>3. ASSUME NEW i \in 1 .. Len(queue), Carries(queue[i], r)
      PROVE  UNCHANGED <<Round(r), Place(r), Stage>>
  <2>1. Request(s, Retries) \in Message
      BY MessageFacts, RetriesAssumption
  <2>2. i \in 1 .. Len(queue') /\ queue'[i] = queue[i]
      BY <2>1, AppendFacts DEF Submit, IInv, TypeOK
  <2>3. Place(r) = i /\ Place(r)' = i /\ Round(r)' = Round(r)
      BY <1>3, <2>2, LocatedInv, LocatedNext DEF Located
  <2> QED
      BY <1>1, <2>3 DEF Stage
<1> QED
    BY <1>2, <1>3 DEF Pending, Queued

LEMMA KeptAside ==
    ASSUME NEW r \in Requests, UNCHANGED <<queue, current, task>>
    PROVE  UNCHANGED <<Round(r), Place(r), Stage>>
  BY DEF Round, Place, Stage, Queued

LEMMA CtrlCAnswers ==
    ASSUME IInv, CtrlC, NEW r \in Requests, caller[r] = "waiting"
    PROVE  caller'[r] # "waiting"
<1>1. Queued(r)
    BY DEF CtrlC, IInv, NoWaiterForgotten, HandShape, Carries, Pending
<1> QED
    BY <1>1 DEF CtrlC, DropReceiver

LEMMA OthersStandAside ==
    ASSUME IInv, IInv', [Next]_vars, ~Turn, NEW r \in Requests,
           caller[r] = "waiting", caller'[r] = "waiting"
    PROVE  UNCHANGED <<Round(r), Place(r), Stage>>
<1>1. Pending(r)
    BY DEF IInv, NoWaiterForgotten
<1>2. ~CtrlC
    BY CtrlCAnswers
<1>3. \/ \E s \in Requests : Submit(s)
      \/ UNCHANGED <<queue, current, task>>
    BY <1>2 DEF Next, SubmitRefused, Cancel, ConnectionLost, vars
<1> QED
    BY <1>1, <1>3, SubmitAside, KeptAside

LEMMA TurnStep ==
    ASSUME IInv, IInv', [Next]_vars, NEW r \in Requests,
           caller[r] = "waiting", caller'[r] = "waiting"
    PROVE  IF Turn THEN Nearer(r) ELSE UNCHANGED <<Round(r), Place(r), Stage>>
<1>1. Pending(r)
    BY DEF IInv, NoWaiterForgotten
<1>2. CASE Turn
  <2>1. CASE Carries(current, r)
      BY <1>2, <2>1, HeldTurn
  <2>2. ASSUME NEW i \in 1 .. Len(queue), Carries(queue[i], r) PROVE Nearer(r)
      BY <1>2, <2>2, QueuedTurn
  <2> QED
      BY <1>1, <1>2, <2>1, <2>2 DEF Pending, Queued
<1>3. CASE ~Turn
    BY <1>3, OthersStandAside
<1> QED
    BY <1>2, <1>3

\* Whatever the connection does and whoever else uses the queue: a request that
\* waits is nearer to its outcome after every turn of the task, and after no
\* other step farther from it.
THEOREM TurnsHelp == Spec => EveryTurnHelps
<1>1. IInv /\ IInv' /\ [Next]_vars =>
        [\A r \in Requests :
           caller[r] = "waiting" =>
               \/ caller'[r] # "waiting"
               \/ IF Turn THEN Nearer(r)
                          ELSE UNCHANGED <<Round(r), Place(r), Stage>>]_vars
    BY TurnStep
<1> QED
    BY <1>1, Invariance, PTL DEF Spec, EveryTurnHelps

\* The guards of the turn's disjuncts: with one of these the task can go on.
CanTurn == \/ task = "signal" /\ ~listener
           \/ task = "recv" /\ queue # <<>>
           \/ task \in {"requeue", "requesting", "connecting"}

TurnAhead == \A r \in Requests : ~listener /\ caller[r] = "waiting" => CanTurn

\* And as long as somebody waits there is a turn to take, where no Ctrl-C
\* listener can be installed: the task is never stuck with a caller unanswered.
THEOREM NeverStuck == Spec => []TurnAhead
<1>1. IInv => TurnAhead
  <2> SUFFICES ASSUME IInv, NEW r \in Requests, ~listener, caller[r] = "waiting"
               PROVE  CanTurn
      BY DEF TurnAhead
  <2>1. TaskAlive /\ Pending(r)
      BY DEF IInv, NoWaiterForgotten
  <2>2. task \in TaskStates
      BY DEF IInv, TypeOK
  <2>3. CASE task = "recv"
    <3>1. Queued(r)
        BY <2>1, <2>3 DEF Pending, Carries, IInv, HandShape
    <3>2. queue # <<>>
        BY <3>1 DEF Queued, IInv, TypeOK
    <3> QED
        BY <2>3, <3>2 DEF CanTurn
  <2> QED
      BY <2>1, <2>2, <2>3 DEF CanTurn, TaskAlive, TaskStates
<1> QED
    BY <1>1, Invariance, PTL

-----------------------------------------------------------------------------
(* The client implements the promise of Client::request.                   *)

Outcome(c) == CASE c = "idle"                     -> "idle"
                [] c = "waiting"                  -> "pending"
                [] c \in {"value", "error"}       -> "answered"
                [] c \in {"exhausted", "closed"}  -> "refused"
                [] c = "cancelled"                -> "abandoned"

\* The mapped status is the outcome of each caller's state, before and after a
\* step.
LEMMA StatusFacts ==
    /\ statusBar = [r \in Requests |-> Outcome(caller[r])]
    /\ statusBar' = [r \in Requests |-> Outcome(caller'[r])]
    /\ Outcome("idle") = "idle" /\ Outcome("waiting") = "pending"
    /\ Outcome("value") = "answered" /\ Outcome("error") = "answered"
    /\ Outcome("exhausted") = "refused" /\ Outcome("closed") = "refused"
    /\ Outcome("cancelled") = "abandoned"
  BY DEF statusBar, Outcome

LEMMA ServiceInit == Init => Service!Init
  BY StatusFacts DEF Init, Service!Init

LEMMA ServiceStep == IInv /\ [Next]_vars => [Service!Next]_(Service!svars)
<1> SUFFICES ASSUME IInv, [Next]_vars
             PROVE  Service!Next \/ UNCHANGED <<statusBar, sent>>
    BY DEF Service!svars
<1> USE RetriesAssumption DEF Service!Next
<1>0. caller \in [Requests -> CallerStates] /\ sent \in [Requests -> Nat]
    BY DEF IInv, TypeOK
<1>q. ASSUME UNCHANGED <<caller, sent>> PROVE UNCHANGED <<statusBar, sent>>
    BY <1>q, StatusFacts
<1>1. ASSUME NEW r \in Requests, Submit(r) PROVE Service!Submit(r)
    BY <1>0, <1>1, StatusFacts DEF Submit, Service!Submit
<1>2. ASSUME NEW r \in Requests, SubmitRefused(r) PROVE Service!Refuse({r})
    BY <1>0, <1>2, StatusFacts DEF SubmitRefused, Service!Refuse, IInv, IdleUnsent
<1>3. ASSUME NEW r \in Requests, Cancel(r) PROVE Service!Abandon(r)
    BY <1>0, <1>3, StatusFacts DEF Cancel, Service!Abandon
<1>4. ASSUME CtrlC \/ ReplyUnwanted
      PROVE  Service!Refuse({r \in Requests : caller[r] = "waiting" /\ Queued(r)})
  <2>1. /\ sent' = sent
        /\ \A r \in Requests :
             caller'[r] = IF caller[r] = "waiting" /\ Queued(r) THEN "closed"
                          ELSE caller[r]
      BY <1>4 DEF CtrlC, ReplyUnwanted, DropReceiver
  <2>2. \A r \in Requests : Queued(r) => sent[r] = 0
      BY DEF IInv, Queued, QueuedUnsent, Carries, IsRequest
  <2> QED
      BY <1>0, <2>1, <2>2, StatusFacts DEF Service!Refuse
<1>5. ASSUME NEW m \in Message, GiveUp(m)
      PROVE  Service!Refuse({m.id}) \/ UNCHANGED <<statusBar, sent>>
  <2>1. m.id \in Requests /\ sent[m.id] = 0 /\ caller[m.id] \in {"waiting", "cancelled"}
      BY <1>5, ReceiveLength, ReceiveFacts DEF GiveUp, IInv
  <2>2. CASE caller[m.id] = "waiting"
      BY <1>0, <1>5, <2>1, <2>2, StatusFacts DEF GiveUp, Service!Refuse
  <2>3. CASE caller[m.id] = "cancelled"
    <3>1. UNCHANGED <<caller, sent>>
        BY <1>0, <1>5, <2>1, <2>3 DEF GiveUp
    <3> QED
        BY <1>q, <3>1
  <2> QED
      BY <2>1, <2>2, <2>3
<1>6. ASSUME NEW m \in Message, Forward(m) PROVE Service!Execute(m.id)
  <2>1. m.id \in Requests /\ sent[m.id] = 0 /\ caller[m.id] \in {"waiting", "cancelled"}
      BY <1>6, ReceiveLength, ReceiveFacts DEF Forward, IInv
  <2> QED
      BY <1>0, <1>6, <2>1, StatusFacts DEF Forward, Service!Execute
<1>7. ASSUME NEW outcome \in {"value", "error"}, Reply(outcome)
      PROVE  Service!Answer(current.id)
  <2>1. current.id \in Requests /\ sent[current.id] = 1
      BY <1>7, MessageFacts DEF Reply, IInv, HandShape, TypeOK, NoMessage, HeldRequest
  <2> QED
      BY <1>0, <1>7, <2>1, StatusFacts DEF Reply, Service!Answer
<1>8. ASSUME \/ NoCtrlC \/ RequeueRequest \/ ConnectionLost \/ UNCHANGED vars
             \/ \E m \in Message : Requeue(m) \/ StartConnect(m)
             \/ \E established \in BOOLEAN : Connect(established)
      PROVE  UNCHANGED <<statusBar, sent>>
  <2>1. UNCHANGED <<caller, sent>>
      BY <1>8 DEF NoCtrlC, RequeueRequest, ConnectionLost, vars, Requeue,
                  StartConnect, Connect
  <2> QED
      BY <1>q, <2>1
<1>9. ASSUME NEW m \in Message, GiveUp(m) \/ Forward(m) PROVE m.id \in Requests
    BY <1>9, MessageFacts DEF GiveUp, Forward
<1>10. ASSUME NEW outcome \in {"value", "error"}, Reply(outcome)
       PROVE  current.id \in Requests
    BY <1>10, MessageFacts DEF Reply, IInv, HandShape, TypeOK, NoMessage
<1> QED
    BY <1>1, <1>2, <1>3, <1>4, <1>5, <1>6, <1>7, <1>8, <1>9, <1>10
    DEF Next, Turn, Handle

\* Queue, retries, reconnections and the end of the task implement what
\* Client::request promises: at most one execution, an answer only after it, a
\* refusal only without it, and one outcome for each caller.
THEOREM Refinement == Spec => ServiceSpec
<1>1. Init => Service!Init
    BY ServiceInit
<1>2. IInv /\ [Next]_vars => [Service!Next]_(Service!svars)
    BY ServiceStep
<1> QED
    BY <1>1, <1>2, Invariance, PTL DEF Spec, ServiceSpec, Service!Spec
=============================================================================
