--------------------------- MODULE MockSvmProofs ---------------------------
(***************************************************************************)
(* What each step of the mock backend keeps, for every set of requests.    *)
(* The process that takes these steps is in Sidecar.                       *)
(***************************************************************************)
EXTENDS MockSvm, TLAPS

-----------------------------------------------------------------------------
(* The inductive invariant.                                                *)

IsRequest(i) == channel[i].method = "request"

\* A request is in the channel at most once, and not while the thread has it.
Distinct ==
    /\ \A i, j \in 1 .. Len(channel) :
         IsRequest(i) /\ IsRequest(j) /\ channel[i].id = channel[j].id => i = j
    /\ \A i \in 1 .. Len(channel) : ~(IsRequest(i) /\ Carries(held, channel[i].id))

HeldShape == held.method = "request" <=> thread = "working"

\* A thread that has ended left nothing in the channel.
NothingLeft == Running \/ channel = <<>>

\* A request in the channel has a caller that waits or has gone away, and the
\* SVM has not seen it.
QueuedUnsent ==
    \A i \in 1 .. Len(channel) :
        IsRequest(i) => /\ caller[channel[i].id] \in {"waiting", "cancelled"}
                        /\ sent[channel[i].id] = 0

HeldSent ==
    held.method = "request" => /\ caller[held.id] \in {"waiting", "cancelled"}
                               /\ sent[held.id] = 1

\* Who has a result had his request executed, who was refused did not.
Fates ==
    \A r \in Requests :
        /\ caller[r] \in {"idle", "closed"} => sent[r] = 0
        /\ caller[r] \in {"value", "error"} => sent[r] = 1

Waiters == \A r \in Requests : caller[r] = "waiting" => Running /\ Pending(r)

SvmInv ==
    /\ TypeOK
    /\ Distinct
    /\ HeldShape
    /\ NothingLeft
    /\ QueuedUnsent
    /\ HeldSent
    /\ Fates
    /\ Waiters

-----------------------------------------------------------------------------
(* The channel.                                                            *)

\* A send adds the message at the end and moves nothing.
LEMMA SendFacts ==
    ASSUME channel \in Seq(Message), NEW e \in Message, channel' = Append(channel, e)
    PROVE  /\ channel' \in Seq(Message)
           /\ Len(channel) \in Nat
           /\ Len(channel') = Len(channel) + 1
           /\ \A i \in 1 .. Len(channel) : channel'[i] = channel[i]
           /\ channel'[Len(channel) + 1] = e
  OBVIOUS

\* A receive takes the first message and moves every other one up.
LEMMA ReceiveFacts ==
    ASSUME channel \in Seq(Message), channel # <<>>
    PROVE  /\ Tail(channel) \in Seq(Message)
           /\ Len(channel) \in Nat \ {0}
           /\ Len(Tail(channel)) = Len(channel) - 1
           /\ \A i \in 1 .. Len(channel) - 1 : Tail(channel)[i] = channel[i + 1]
           /\ Head(channel) = channel[1]
           /\ Head(channel) \in Message
  OBVIOUS

\* Messages of the two kinds.
LEMMA MessageFacts ==
    /\ \A r \in Requests : /\ SvmRequest(r) \in Message
                           /\ SvmRequest(r).method = "request"
                           /\ SvmRequest(r).id = r
    /\ TerminateSvm \in Message
    /\ TerminateSvm.method # "request"
    /\ \A m \in Message : m.method = "request" => m.id \in Requests
    /\ Nothing.method # "request"
  BY DEF SvmRequest, TerminateSvm, Message, Nothing

-----------------------------------------------------------------------------
(* The steps.                                                              *)

LEMMA StutterStep == SvmInv /\ UNCHANGED svmvars => SvmInv'
  BY DEF SvmInv, svmvars, TypeOK, Distinct, HeldShape, NothingLeft, QueuedUnsent,
         HeldSent, Fates, Waiters, IsRequest, Carries, Running, Pending, Queued

\* A new request: nothing in the channel carries it yet, as its caller was idle.
LEMMA SubmitStep ==
    ASSUME SvmInv, NEW r \in Requests, Submit(r)
    PROVE  SvmInv'
<1> USE DEF SvmInv
<1>1. /\ SvmRequest(r) \in Message
      /\ SvmRequest(r).method = "request" /\ SvmRequest(r).id = r
    BY MessageFacts
<1>n. PICK n \in Nat : n = Len(channel)
    BY <1>1, SendFacts DEF TypeOK, Submit
<1>2. /\ channel' \in Seq(Message)
      /\ Len(channel') = n + 1
      /\ \A i \in 1 .. n : channel'[i] = channel[i]
      /\ channel'[n + 1] = SvmRequest(r)
    BY <1>1, <1>n, SendFacts DEF TypeOK, Submit
<1>3. /\ UNCHANGED <<thread, held, sent>>
      /\ caller[r] = "idle" /\ caller'[r] = "waiting"
      /\ \A q \in Requests : q # r => caller'[q] = caller[q]
      /\ caller' \in [Requests -> {"idle", "waiting", "value", "error", "closed",
                                   "cancelled"}]
    BY DEF Submit, TypeOK
<1>4. \A i \in 1 .. n : IsRequest(i) => channel[i].id # r /\ channel[i].id \in Requests
    BY <1>3, <1>n, MessageFacts DEF QueuedUnsent, TypeOK, IsRequest
<1>5. held.method = "request" => held.id # r /\ held.id \in Requests
    BY <1>3, MessageFacts DEF HeldSent, TypeOK
<1>6. TypeOK'
    BY <1>2, <1>3 DEF TypeOK
<1>7. Distinct'
    BY <1>1, <1>2, <1>3, <1>4, <1>5, <1>n DEF Distinct, IsRequest, Carries
<1>8. QueuedUnsent'
    BY <1>1, <1>2, <1>3, <1>4, <1>n DEF QueuedUnsent, IsRequest, Fates
<1>9. HeldShape' /\ NothingLeft' /\ HeldSent'
    BY <1>3, <1>5 DEF HeldShape, NothingLeft, HeldSent, Running, Submit
<1>10. Fates'
    BY <1>3 DEF Fates
<1>11. Waiters'
  <2> SUFFICES ASSUME NEW q \in Requests, caller'[q] = "waiting"
               PROVE  Running' /\ Pending(q)'
      BY DEF Waiters
  <2>1. Running'
      BY <1>3 DEF Running, Submit
  <2>2. CASE q = r
      BY <1>1, <1>2, <2>1, <2>2 DEF Pending, Queued, Carries
  <2>3. CASE q # r
    <3>1. Pending(q)
        BY <1>3, <2>3 DEF Waiters
    <3>2. ASSUME Carries(held, q) PROVE Pending(q)'
        BY <3>2, <1>3 DEF Pending, Carries
    <3>3. ASSUME NEW i \in 1 .. n, Carries(channel[i], q) PROVE Pending(q)'
      <4>1. i \in 1 .. Len(channel') /\ Carries(channel'[i], q)
          BY <1>2, <3>3
      <4>2. Queued(q)'
          BY <4>1 DEF Queued, Carries
      <4> QED
          BY <4>2 DEF Pending
    <3> QED
        BY <2>1, <3>1, <3>2, <3>3, <1>n DEF Pending, Queued
  <2> QED
      BY <2>1, <2>2, <2>3
<1> QED
    BY <1>6, <1>7, <1>8, <1>9, <1>10, <1>11

\* Steps that leave channel and thread alone: a caller is refused because the
\* thread has ended, or goes away.
LEMMA CallerStep ==
    ASSUME SvmInv, NEW r \in Requests,
           SubmitRefused(r) \/ /\ caller[r] = "waiting"
                               /\ caller' = [caller EXCEPT ![r] = "cancelled"]
                               /\ UNCHANGED <<channel, thread, held, sent>>
    PROVE  SvmInv'
<1> USE DEF SvmInv
<1>1. /\ UNCHANGED <<channel, thread, held, sent>>
      /\ \A q \in Requests : q # r => caller'[q] = caller[q]
      /\ \/ caller[r] = "idle" /\ caller'[r] = "closed"
         \/ caller[r] = "waiting" /\ caller'[r] = "cancelled"
      /\ caller' \in [Requests -> {"idle", "waiting", "value", "error", "closed",
                                   "cancelled"}]
    BY DEF SubmitRefused, TypeOK
<1>2. TypeOK' /\ Distinct' /\ HeldShape' /\ NothingLeft'
    BY <1>1 DEF TypeOK, Distinct, HeldShape, NothingLeft, IsRequest, Carries, Running
<1>3. QueuedUnsent'
    BY <1>1, MessageFacts DEF QueuedUnsent, IsRequest, TypeOK
<1>4. HeldSent'
    BY <1>1, MessageFacts DEF HeldSent, TypeOK
<1>5. Fates'
  <2>1. caller[r] = "waiting" \/ caller'[r] = "closed"
      BY <1>1
  <2> QED
      BY <1>1 DEF Fates
<1>6. Waiters'
    BY <1>1 DEF Waiters, Running, Pending, Queued, Carries
<1> QED
    BY <1>2, <1>3, <1>4, <1>5, <1>6

\* terminateSvm is sent.
LEMMA SendTerminateStep ==
    ASSUME SvmInv, SendTerminate
    PROVE  SvmInv'
<1> USE DEF SvmInv
<1>1. TerminateSvm \in Message /\ TerminateSvm.method # "request"
    BY MessageFacts
<1>n. PICK n \in Nat : n = Len(channel)
    BY <1>1, SendFacts DEF TypeOK, SendTerminate
<1>2. /\ channel' \in Seq(Message)
      /\ Len(channel') = n + 1
      /\ \A i \in 1 .. n : channel'[i] = channel[i]
      /\ channel'[n + 1] = TerminateSvm
    BY <1>1, <1>n, SendFacts DEF TypeOK, SendTerminate
<1>3. UNCHANGED <<thread, held, caller, sent>> /\ Running
    BY DEF SendTerminate
<1>4. TypeOK' /\ HeldShape' /\ NothingLeft' /\ HeldSent' /\ Fates'
    BY <1>2, <1>3 DEF TypeOK, HeldShape, NothingLeft, HeldSent, Fates, Running
<1>5. Distinct' /\ QueuedUnsent'
    BY <1>1, <1>2, <1>3, <1>n DEF Distinct, QueuedUnsent, IsRequest, Carries
<1>6. Waiters'
  <2> SUFFICES ASSUME NEW q \in Requests, caller[q] = "waiting"
               PROVE  Running' /\ Pending(q)'
      BY <1>3 DEF Waiters
  <2>1. Running' /\ Pending(q)
      BY <1>3 DEF Waiters, Running
  <2>2. ASSUME NEW i \in 1 .. n, Carries(channel[i], q) PROVE Pending(q)'
    <3>1. i \in 1 .. Len(channel') /\ channel'[i] = channel[i]
        BY <1>2, <2>2
    <3> QED
        BY <2>2, <3>1 DEF Pending, Queued, Carries
  <2> QED
      BY <2>1, <2>2, <1>3, <1>n DEF Pending, Queued, Carries
<1> QED
    BY <1>4, <1>5, <1>6

\* The thread receives a request: it was in the channel once, unsent.
LEMMA TakeStep ==
    ASSUME SvmInv, Take
    PROVE  SvmInv'
<1> USE DEF SvmInv
<1>1. /\ Tail(channel) \in Seq(Message)
      /\ Len(channel) \in Nat \ {0}
      /\ Len(Tail(channel)) = Len(channel) - 1
      /\ \A i \in 1 .. Len(channel) - 1 : Tail(channel)[i] = channel[i + 1]
      /\ Head(channel) = channel[1]
      /\ Head(channel) \in Message
    BY ReceiveFacts DEF TypeOK, Take
<1>n. PICK n \in Nat \ {0} : n = Len(channel)
    BY <1>1
<1>r. PICK r \in Requests : r = Head(channel).id
    BY <1>1, MessageFacts DEF Take
<1>2. /\ channel' \in Seq(Message)
      /\ Len(channel') = n - 1
      /\ \A i \in 1 .. n - 1 : channel'[i] = channel[i + 1]
      /\ held' = channel[1] /\ held'.method = "request" /\ held'.id = r
      /\ held' \in Message
    BY <1>1, <1>n, <1>r DEF Take
<1>3. /\ UNCHANGED caller
      /\ thread = "polling" /\ thread' = "working"
      /\ sent' = [sent EXCEPT ![r] = @ + 1]
      /\ held.method # "request"
    BY <1>r DEF Take, HeldShape
<1>4. caller[r] \in {"waiting", "cancelled"} /\ sent[r] = 0
    BY <1>1, <1>r, <1>2 DEF QueuedUnsent, IsRequest
<1>5. /\ sent'[r] = 1
      /\ \A q \in Requests : q # r => sent'[q] = sent[q]
      /\ sent' \in [Requests -> Nat]
    BY <1>3, <1>4 DEF TypeOK
<1>6. \A i \in 1 .. n - 1 : channel'[i].method = "request" =>
                                 channel'[i].id # r /\ channel'[i].id \in Requests
  <2> SUFFICES ASSUME NEW i \in 1 .. n - 1, channel'[i].method = "request"
               PROVE  channel'[i].id # r /\ channel'[i].id \in Requests
      OBVIOUS
  <2>1. channel'[i] = channel[i + 1] /\ channel'[i] \in Message
      BY <1>2
  <2>2. i + 1 \in 1 .. Len(channel) /\ 1 \in 1 .. Len(channel) /\ i + 1 # 1
      BY <1>n
  <2>3. channel[1].method = "request" /\ channel[1].id = r
      BY <1>2
  <2>4. channel[i + 1].id # r
      BY <2>1, <2>2, <2>3 DEF Distinct, IsRequest
  <2> QED
      BY <2>1, <2>4, MessageFacts
<1>7. TypeOK'
    BY <1>2, <1>3, <1>5 DEF TypeOK
<1>8. Distinct'
  <2>1. \A i, j \in 1 .. n - 1 :
            /\ channel'[i].method = "request" /\ channel'[j].method = "request"
            /\ channel'[i].id = channel'[j].id
            => i = j
    <3> SUFFICES ASSUME NEW i \in 1 .. n - 1, NEW j \in 1 .. n - 1,
                        channel'[i].method = "request", channel'[j].method = "request",
                        channel'[i].id = channel'[j].id
                 PROVE  i = j
        OBVIOUS
    <3>1. i + 1 \in 1 .. Len(channel) /\ j + 1 \in 1 .. Len(channel)
        BY <1>n
    <3>2. i + 1 = j + 1
        BY <1>2, <3>1 DEF Distinct, IsRequest
    <3> QED
        BY <3>2
  <2> QED
      BY <2>1, <1>2, <1>6 DEF Distinct, IsRequest, Carries
<1>9. QueuedUnsent'
  <2> SUFFICES ASSUME NEW i \in 1 .. n - 1, channel'[i].method = "request"
               PROVE  /\ caller[channel'[i].id] \in {"waiting", "cancelled"}
                      /\ sent'[channel'[i].id] = 0
      BY <1>2, <1>3 DEF QueuedUnsent, IsRequest
  <2>1. channel'[i] = channel[i + 1] /\ i + 1 \in 1 .. Len(channel)
      BY <1>2, <1>n
  <2>2. caller[channel'[i].id] \in {"waiting", "cancelled"} /\ sent[channel'[i].id] = 0
      BY <2>1 DEF QueuedUnsent, IsRequest
  <2> QED
      BY <2>2, <1>5, <1>6
<1>10. HeldShape' /\ NothingLeft' /\ HeldSent'
    BY <1>2, <1>3, <1>4, <1>5 DEF HeldShape, NothingLeft, HeldSent, Running
<1>11. Fates'
    BY <1>3, <1>4, <1>5 DEF Fates
<1>12. Waiters'
  <2> SUFFICES ASSUME NEW q \in Requests, caller[q] = "waiting"
               PROVE  Pending(q)'
      BY <1>3 DEF Waiters, Running
  <2>1. ASSUME NEW i \in 1 .. n, Carries(channel[i], q) PROVE Pending(q)'
    <3>1. CASE i = 1
        BY <1>2, <2>1, <3>1 DEF Pending, Carries
    <3>2. CASE i # 1
      <4>1. i - 1 \in 1 .. Len(channel') /\ channel'[i - 1] = channel[i]
          BY <1>2, <3>2
      <4>2. Queued(q)'
          BY <2>1, <4>1 DEF Queued, Carries
      <4> QED
          BY <4>2 DEF Pending
    <3> QED
        BY <3>1, <3>2
  <2> QED
      BY <2>1, <1>3, <1>n DEF Waiters, Pending, Queued, Carries
<1> QED
    BY <1>7, <1>8, <1>9, <1>10, <1>11, <1>12

\* The thread is through with a request: its caller, if there is one, has the
\* result, and nothing else in the channel was his.
LEMMA FinishStep ==
    ASSUME SvmInv, NEW outcome \in {"value", "error"}, Finish(outcome)
    PROVE  SvmInv'
<1> USE DEF SvmInv
<1>1. held.method = "request" /\ thread = "working"
    BY DEF Finish, HeldShape
<1>r. PICK r \in Requests : r = held.id
    BY <1>1, MessageFacts DEF TypeOK
<1>2. /\ UNCHANGED <<channel, sent>>
      /\ held' = Nothing /\ thread' = "polling"
      /\ caller' \in [Requests -> {"idle", "waiting", "value", "error", "closed",
                                   "cancelled"}]
      /\ \A q \in Requests : q # r => caller'[q] = caller[q]
      /\ caller'[r] \in {outcome, "cancelled"}
    BY <1>1, <1>r DEF Finish, TypeOK, HeldSent
<1>3. \A i \in 1 .. Len(channel) : IsRequest(i) =>
            channel[i].id # r /\ channel[i].id \in Requests
    BY <1>1, <1>r, MessageFacts DEF Distinct, Carries, IsRequest, TypeOK
<1>4. sent[r] = 1
    BY <1>1, <1>r DEF HeldSent
<1>5. TypeOK'
    BY <1>2 DEF TypeOK
<1>6. Distinct' /\ HeldShape' /\ NothingLeft' /\ HeldSent'
    BY <1>1, <1>2, MessageFacts
    DEF Distinct, HeldShape, NothingLeft, HeldSent, IsRequest, Carries, Running
<1>7. QueuedUnsent'
    BY <1>2, <1>3 DEF QueuedUnsent, IsRequest
<1>8. Fates'
    BY <1>2, <1>4 DEF Fates
<1>9. Waiters'
  <2> SUFFICES ASSUME NEW q \in Requests, caller'[q] = "waiting"
               PROVE  Running' /\ Pending(q)'
      BY DEF Waiters
  <2>1. q # r /\ caller[q] = "waiting"
      BY <1>2
  <2>2. ~Carries(held, q)
      BY <1>r, <2>1 DEF Carries
  <2>3. Queued(q)
      BY <2>1, <2>2 DEF Waiters, Pending
  <2>4. Queued(q)'
      BY <2>3, <1>2 DEF Queued, Carries
  <2> QED
      BY <2>4, <1>2 DEF Pending, Running
<1> QED
    BY <1>5, <1>6, <1>7, <1>8, <1>9

\* terminateSvm is received: whoever is in the channel is refused, and his
\* request was never executed.
LEMMA StopStep ==
    ASSUME SvmInv, Stop
    PROVE  SvmInv'
<1> USE DEF SvmInv
<1>1. /\ channel' = <<>> /\ thread = "polling" /\ thread' = "ended"
      /\ UNCHANGED <<held, sent>>
      /\ held.method # "request"
    BY DEF Stop, HeldShape
<1>2. \A r \in Requests :
          caller'[r] = IF caller[r] = "waiting" /\ Queued(r) THEN "closed" ELSE caller[r]
    BY DEF Stop
<1>3. caller' \in [Requests -> {"idle", "waiting", "value", "error", "closed", "cancelled"}]
    BY DEF Stop, TypeOK
<1>4. \A r \in Requests : Queued(r) => sent[r] = 0
    BY DEF Queued, Carries, QueuedUnsent, IsRequest
<1>5. \A r \in Requests : caller[r] = "waiting" => Queued(r)
    BY <1>1 DEF Waiters, Pending, Carries
<1>6. TypeOK'
    BY <1>1, <1>3 DEF TypeOK
<1>7. Distinct' /\ HeldShape' /\ NothingLeft' /\ QueuedUnsent' /\ HeldSent'
    BY <1>1 DEF Distinct, HeldShape, NothingLeft, QueuedUnsent, HeldSent, Running
<1>8. Fates'
    BY <1>1, <1>2, <1>4 DEF Fates
<1>9. Waiters'
    BY <1>2, <1>5 DEF Waiters
<1> QED
    BY <1>6, <1>7, <1>8, <1>9

-----------------------------------------------------------------------------
(* Every turn of the thread helps everybody who waits.                     *)

\* What carries a request is in one place, which gives its distance.
Located ==
    /\ \A i \in 1 .. Len(channel), r \in Requests :
         Carries(channel[i], r) => Place(r) = i
    /\ \A r \in Requests : Carries(held, r) => Place(r) = 0

LEMMA LocatedInv == SvmInv => Located
<1> SUFFICES ASSUME SvmInv PROVE Located
    OBVIOUS
<1>1. \A i, j \in 1 .. Len(channel), r \in Requests :
         Carries(channel[i], r) /\ Carries(channel[j], r) => i = j
    BY DEF SvmInv, Distinct, IsRequest, Carries
<1>2. \A i \in 1 .. Len(channel), r \in Requests :
         Carries(channel[i], r) => ~Carries(held, r)
    BY DEF SvmInv, Distinct, IsRequest, Carries
<1> QED
    BY <1>1, <1>2 DEF Located, Place, Queued

LEMMA LocatedNext == SvmInv' => Located'
    BY LocatedInv, PTL

LEMMA TurnHelps ==
    ASSUME SvmInv, SvmInv', Turn, NEW r \in Requests,
           caller[r] = "waiting", caller'[r] = "waiting"
    PROVE  Left(r)' < Left(r)
<1>1. Running /\ Pending(r)
    BY DEF SvmInv, Waiters
<1>2. CASE Take
  <2>1. ~Carries(held, r)
      BY <1>2 DEF Take, SvmInv, HeldShape, Carries
  <2>2. PICK i \in 1 .. Len(channel) : Carries(channel[i], r)
      BY <1>1, <2>1 DEF Pending, Queued
  <2>3. Place(r) = i /\ i \in Nat /\ thread = "polling"
      BY <1>2, <2>2, LocatedInv DEF Located, Take
  <2>4. /\ channel \in Seq(Message) /\ channel # <<>>
        /\ channel' = Tail(channel) /\ held' = Head(channel) /\ thread' = "working"
      BY <1>2 DEF Take, SvmInv, TypeOK
  <2>5. Place(r)' = i - 1
    <3>1. CASE i = 1
      <4>1. Carries(held', r)
          BY <2>2, <2>4, <3>1, ReceiveFacts
      <4> QED
          BY <3>1, <4>1, LocatedNext DEF Located
    <3>2. CASE i # 1
      <4>1. i - 1 \in 1 .. Len(channel') /\ channel'[i - 1] = channel[i]
          BY <2>4, <3>2, ReceiveFacts
      <4> QED
          BY <2>2, <4>1, LocatedNext DEF Located
    <3> QED
        BY <3>1, <3>2
  <2> QED
      BY <2>3, <2>4, <2>5 DEF Left
<1>3. ASSUME NEW outcome \in {"value", "error"}, Finish(outcome)
      PROVE  Left(r)' < Left(r)
  <2>1. ~Carries(held, r)
      BY <1>3 DEF Finish, Carries, SvmInv, TypeOK
  <2>2. PICK i \in 1 .. Len(channel) : Carries(channel[i], r)
      BY <1>1, <2>1 DEF Pending, Queued
  <2>3. Place(r) = i /\ Place(r)' = i
      BY <1>3, <2>2, LocatedInv, LocatedNext DEF Located, Finish
  <2> QED
      BY <1>3, <2>3 DEF Left, Finish
<1>4. ~Stop
  <2> SUFFICES ASSUME Stop PROVE FALSE
      OBVIOUS
  <2>1. ~Carries(held, r)
      BY DEF Stop, SvmInv, HeldShape, Carries
  <2>2. Queued(r)
      BY <1>1, <2>1 DEF Pending
  <2> QED
      BY <2>2 DEF Stop
<1> QED
    BY <1>2, <1>3, <1>4 DEF Turn

\* What is sent behind it does not put a request off.
LEMMA SendersStandAside ==
    ASSUME SvmInv, SvmInv', NEW r \in Requests, Pending(r),
           UNCHANGED <<thread, held>>,
           \/ channel' = channel
           \/ \E m \in Message : channel' = Append(channel, m)
    PROVE  UNCHANGED Left(r)
<1>1. CASE Carries(held, r)
  <2>1. Place(r) = 0 /\ Place(r)' = 0
      BY <1>1, LocatedInv, LocatedNext DEF Located
  <2> QED
      BY <2>1 DEF Left
<1>2. ASSUME NEW i \in 1 .. Len(channel), Carries(channel[i], r)
      PROVE  UNCHANGED Left(r)
  <2>1. i \in 1 .. Len(channel') /\ channel'[i] = channel[i]
      BY SendFacts DEF SvmInv, TypeOK
  <2>2. Place(r) = i /\ Place(r)' = i
      BY <1>2, <2>1, LocatedInv, LocatedNext DEF Located
  <2> QED
      BY <2>2 DEF Left
<1> QED
    BY <1>1, <1>2 DEF Pending, Queued

-----------------------------------------------------------------------------
(* The message terminateSvm on its way to the thread.                      *)

IsEnd(i) == channel[i] = TerminateSvm

EndInSight == \E i \in 1 .. Len(channel) : IsEnd(i)

OneEnd == \A i, j \in 1 .. Len(channel) : IsEnd(i) /\ IsEnd(j) => i = j

LEMMA EndLocated ==
    ASSUME OneEnd, NEW i \in 1 .. Len(channel), IsEnd(i)
    PROVE  TerminatePlace = i
  BY DEF OneEnd, IsEnd, TerminatePlace

LEMMA EndLocatedNext ==
    ASSUME OneEnd', NEW i \in 1 .. Len(channel'), IsEnd(i)'
    PROVE  TerminatePlace' = i
  BY DEF OneEnd, IsEnd, TerminatePlace

\* Each turn takes it one message nearer, or finishes the request before that.
LEMMA TurnEnds ==
    ASSUME channel \in Seq(Message), OneEnd, Turn
    PROVE  /\ OneEnd'
           /\ ~EndInSight => ~EndInSight'
           /\ EndInSight => thread' = "ended" \/ EndInSight'
           /\ EndInSight => UntilEnd' < UntilEnd
<1>1. CASE Take
  <2>1. /\ channel \in Seq(Message) /\ channel # <<>> /\ ~IsEnd(1)
        /\ channel' = Tail(channel) /\ thread = "polling" /\ thread' = "working"
      BY <1>1, ReceiveFacts, MessageFacts DEF Take, IsEnd
  <2>2. /\ Len(channel) \in Nat \ {0} /\ Len(channel') = Len(channel) - 1
        /\ \A i \in 1 .. Len(channel') : IsEnd(i)' <=> IsEnd(i + 1)
      BY <2>1, ReceiveFacts DEF IsEnd
  <2>3. OneEnd'
    <3> SUFFICES ASSUME NEW i \in 1 .. Len(channel'), NEW j \in 1 .. Len(channel'),
                        IsEnd(i)', IsEnd(j)'
                 PROVE  i = j
        BY DEF OneEnd
    <3>1. /\ i + 1 \in 1 .. Len(channel) /\ j + 1 \in 1 .. Len(channel)
          /\ IsEnd(i + 1) /\ IsEnd(j + 1)
        BY <2>2
    <3>2. i + 1 = j + 1
        BY <3>1 DEF OneEnd
    <3> QED
        BY <3>2
  <2>4. ~EndInSight => ~EndInSight'
    <3> SUFFICES ASSUME NEW i \in 1 .. Len(channel'), IsEnd(i)' PROVE EndInSight
        BY DEF EndInSight
    <3>1. i + 1 \in 1 .. Len(channel) /\ IsEnd(i + 1)
        BY <2>2
    <3> QED
        BY <3>1 DEF EndInSight
  <2>5. ASSUME NEW i \in 1 .. Len(channel), IsEnd(i)
        PROVE  EndInSight' /\ UntilEnd' < UntilEnd
    <3>1. i \in Nat /\ i - 1 \in 1 .. Len(channel') /\ (i - 1) + 1 = i
        BY <2>1, <2>2, <2>5
    <3>2. IsEnd(i - 1)'
        BY <2>2, <2>5, <3>1
    <3>3. TerminatePlace = i /\ TerminatePlace' = i - 1
        BY <2>3, <2>5, <3>1, <3>2, EndLocated, EndLocatedNext
    <3>4. EndInSight'
        BY <3>1, <3>2 DEF EndInSight
    <3> QED
        BY <2>1, <3>1, <3>3, <3>4 DEF UntilEnd
  <2> QED
      BY <2>3, <2>4, <2>5 DEF EndInSight
<1>2. ASSUME NEW outcome \in {"value", "error"}, Finish(outcome)
      PROVE  /\ OneEnd'
             /\ ~EndInSight => ~EndInSight'
             /\ EndInSight => thread' = "ended" \/ EndInSight'
             /\ EndInSight => UntilEnd' < UntilEnd
  <2>1. channel' = channel /\ thread = "working" /\ thread' = "polling"
      BY <1>2 DEF Finish
  <2>2. OneEnd' /\ (EndInSight' <=> EndInSight)
      BY <2>1 DEF OneEnd, EndInSight, IsEnd
  <2>3. ASSUME NEW i \in 1 .. Len(channel), IsEnd(i) PROVE UntilEnd' < UntilEnd
    <3>1. TerminatePlace = i /\ TerminatePlace' = i
        BY <2>1, <2>2, <2>3, EndLocated, EndLocatedNext DEF IsEnd
    <3> QED
        BY <2>1, <3>1 DEF UntilEnd
  <2> QED
      BY <2>2, <2>3 DEF EndInSight
<1>3. CASE Stop
  <2>1. /\ channel \in Seq(Message) /\ channel # <<>> /\ Head(channel) = TerminateSvm
        /\ channel' = <<>> /\ thread = "polling" /\ thread' = "ended"
      BY <1>3 DEF Stop
  <2>2. 1 \in 1 .. Len(channel) /\ IsEnd(1)
      BY <2>1, ReceiveFacts DEF IsEnd
  <2>3. TerminatePlace = 1
      BY <2>2, EndLocated
  <2>4. OneEnd' /\ ~EndInSight'
      BY <2>1 DEF OneEnd, EndInSight
  <2> QED
      BY <2>1, <2>3, <2>4 DEF UntilEnd
<1> QED
    BY <1>1, <1>2, <1>3 DEF Turn

\* Requests that are sent behind it do not put it off.
LEMMA SendersLetEnd ==
    ASSUME channel \in Seq(Message), OneEnd, UNCHANGED thread,
           \/ channel' = channel
           \/ \E r \in Requests : channel' = Append(channel, SvmRequest(r))
    PROVE  /\ OneEnd'
           /\ EndInSight' <=> EndInSight
           /\ EndInSight => UNCHANGED UntilEnd
<1>1. /\ \A i \in 1 .. Len(channel) : i \in 1 .. Len(channel') /\ (IsEnd(i)' <=> IsEnd(i))
      /\ \A i \in 1 .. Len(channel') : IsEnd(i)' => i \in 1 .. Len(channel)
  <2>1. CASE channel' = channel
      BY <2>1 DEF IsEnd
  <2>2. ASSUME NEW r \in Requests, channel' = Append(channel, SvmRequest(r))
        PROVE  /\ \A i \in 1 .. Len(channel) : i \in 1 .. Len(channel') /\ (IsEnd(i)' <=> IsEnd(i))
               /\ \A i \in 1 .. Len(channel') : IsEnd(i)' => i \in 1 .. Len(channel)
    <3>1. SvmRequest(r) \in Message /\ SvmRequest(r) # TerminateSvm
        BY MessageFacts
    <3>2. /\ Len(channel) \in Nat /\ Len(channel') = Len(channel) + 1
          /\ \A i \in 1 .. Len(channel) : channel'[i] = channel[i]
          /\ channel'[Len(channel) + 1] # TerminateSvm
        BY <2>2, <3>1, SendFacts
    <3> QED
        BY <3>2 DEF IsEnd
  <2> QED
      BY <2>1, <2>2
<1>2. OneEnd' /\ (EndInSight' <=> EndInSight)
    BY <1>1 DEF OneEnd, EndInSight
<1>3. ASSUME NEW i \in 1 .. Len(channel), IsEnd(i) PROVE UNCHANGED UntilEnd
  <2>1. TerminatePlace = i /\ TerminatePlace' = i
      BY <1>1, <1>2, <1>3, EndLocated, EndLocatedNext
  <2> QED
      BY <2>1 DEF UntilEnd
<1> QED
    BY <1>2, <1>3 DEF EndInSight

\* The first that is sent is the only one.
LEMMA EndSent ==
    ASSUME channel \in Seq(Message), ~EndInSight, SendTerminate
    PROVE  OneEnd' /\ EndInSight'
<1>1. TerminateSvm \in Message
    BY MessageFacts
<1>n. PICK n \in Nat : n = Len(channel)
    BY <1>1, SendFacts DEF SendTerminate
<1>2. /\ Len(channel') = n + 1
      /\ \A i \in 1 .. n : channel'[i] = channel[i]
      /\ channel'[n + 1] = TerminateSvm
    BY <1>1, <1>n, SendFacts DEF SendTerminate
<1>3. \A i \in 1 .. n + 1 : IsEnd(i)' <=> i = n + 1
    BY <1>n, <1>2 DEF EndInSight, IsEnd
<1>4. OneEnd'
  <2> SUFFICES ASSUME NEW i \in 1 .. n + 1, NEW j \in 1 .. n + 1, IsEnd(i)', IsEnd(j)'
               PROVE  i = j
      BY <1>2 DEF OneEnd
  <2> QED
      BY <1>3
<1>5. n + 1 \in 1 .. n + 1
    OBVIOUS
<1> QED
    BY <1>2, <1>3, <1>4, <1>5 DEF EndInSight
=============================================================================
