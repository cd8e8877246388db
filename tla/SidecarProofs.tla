--------------------------- MODULE SidecarProofs ---------------------------
(***************************************************************************)
(* The safety properties of the process, for any HTTP requests, any number *)
(* of calls and of retries, and either backend.  The invariants of the     *)
(* backends and what their steps keep come from NodeClientProofs and       *)
(* MockSvmProofs.                                                          *)
(***************************************************************************)
EXTENDS Sidecar, TLAPS

NP == INSTANCE NodeClientProofs
SP == INSTANCE MockSvmProofs

-----------------------------------------------------------------------------
(* The inductive invariant.                                                *)

\* A handler makes its calls one after the other.
InTurn ==
    \A h \in Handlers, j, k \in 1 .. Calls :
        j < k /\ caller[<<h, k>>] # "idle" => caller[<<h, j>>] = "value"

\* Who waits is let in and not yet answered; who went away was not answered.
CallersOfOpen ==
    \A r \in Requests : /\ caller[r] = "waiting" => http[r[1]] = "open"
                        /\ caller[r] = "cancelled" => http[r[1]] \in {"timeout", "gone"}

\* Nobody is in before the server serves and after it has ended.
NobodyIn == server \in {"starting", "ended"} => \A h \in Handlers : http[h] # "open"

Leaving == process \in {"leaving", "exited"} => server = "ended"

Backend == IF Mock THEN SP!SvmInv ELSE NP!IInv

IInv ==
    /\ TypeOK
    /\ InTurn
    /\ CallersOfOpen
    /\ NobodyIn
    /\ Leaving
    /\ Backend

-----------------------------------------------------------------------------
(* The backends' actions and states, here and in the modules of their      *)
(* proofs, are the same.                                                   *)

LEMMA SameState ==
    /\ Node!Init => NP!Init
    /\ Node!TypeOK <=> NP!TypeOK
    /\ Node!TaskAlive <=> NP!TaskAlive
    /\ \A r \in Requests : Node!Pending(r) <=> NP!Pending(r)
    /\ Svm!Running <=> SP!Running
    /\ \A r \in Requests : Svm!Pending(r) <=> SP!Pending(r)
  BY DEF Node!Init, NP!Init, Node!NoMessage, NP!NoMessage, Node!TypeOK, NP!TypeOK,
         Node!Message, NP!Message, Node!RequestMessage, NP!RequestMessage,
         Node!TryConnect, NP!TryConnect, Node!TaskStates, NP!TaskStates,
         Node!CallerStates, NP!CallerStates, Node!TaskAlive, NP!TaskAlive,
         Node!Pending, NP!Pending, Node!Queued, NP!Queued, Node!Carries, NP!Carries,
         Svm!Running, SP!Running, Svm!Pending, SP!Pending, Svm!Queued, SP!Queued,
         Svm!Carries, SP!Carries

LEMMA SameCalls ==
    ASSUME NEW r \in Requests
    PROVE  /\ Node!Submit(r) => NP!Submit(r)
           /\ Node!SubmitRefused(r) => NP!SubmitRefused(r)
           /\ Svm!Submit(r) => SP!Submit(r)
           /\ Svm!SubmitRefused(r) => SP!SubmitRefused(r)
  BY DEF Node!Submit, NP!Submit, Node!SubmitRefused, NP!SubmitRefused,
         Node!Request, NP!Request, Node!TaskAlive, NP!TaskAlive,
         Svm!Submit, SP!Submit, Svm!SubmitRefused, SP!SubmitRefused,
         Svm!Running, SP!Running, Svm!SvmRequest, SP!SvmRequest

LEMMA SameTurn ==
    /\ Node!Turn => NP!Turn
    /\ Node!CtrlC => NP!CtrlC
    /\ Node!ConnectionLost => NP!ConnectionLost
    /\ Node!DropReceiver => NP!DropReceiver
  BY DEF Node!Turn, Node!NoCtrlC, Node!Handle, Node!GiveUp, Node!Requeue,
         Node!Forward, Node!StartConnect, Node!RequeueRequest, Node!Reply,
         Node!ReplyUnwanted, Node!Connect, Node!Receive, Node!Message,
         Node!RequestMessage, Node!Request, Node!TryConnect, Node!NoMessage,
         Node!DropReceiver, Node!Queued, Node!Carries, Node!CtrlC,
         Node!ConnectionLost, Node!TaskAlive,
         NP!Turn, NP!NoCtrlC, NP!Handle, NP!GiveUp, NP!Requeue,
         NP!Forward, NP!StartConnect, NP!RequeueRequest, NP!Reply,
         NP!ReplyUnwanted, NP!Connect, NP!Receive, NP!Message,
         NP!RequestMessage, NP!Request, NP!TryConnect, NP!NoMessage,
         NP!DropReceiver, NP!Queued, NP!Carries, NP!CtrlC,
         NP!ConnectionLost, NP!TaskAlive

LEMMA SameThread ==
    /\ Svm!Take => SP!Take
    /\ \A o \in {"value", "error"} : Svm!Finish(o) => SP!Finish(o)
    /\ Svm!Stop => SP!Stop
    /\ Svm!SendTerminate => SP!SendTerminate
  BY DEF Svm!Take, SP!Take, Svm!Finish, SP!Finish, Svm!Stop, SP!Stop,
         Svm!SendTerminate, SP!SendTerminate, Svm!Nothing, SP!Nothing,
         Svm!TerminateSvm, SP!TerminateSvm, Svm!Queued, SP!Queued,
         Svm!Carries, SP!Carries, Svm!Running, SP!Running

LEMMA SameNext ==
    /\ Node!TypeOK' <=> NP!TypeOK'
    /\ Node!TaskAlive' <=> NP!TaskAlive'
    /\ \A r \in Requests : Node!Pending(r)' <=> NP!Pending(r)'
    /\ Svm!Running' <=> SP!Running'
    /\ \A r \in Requests : Svm!Pending(r)' <=> SP!Pending(r)'
  BY DEF Node!TypeOK, NP!TypeOK, Node!Message, NP!Message,
         Node!RequestMessage, NP!RequestMessage, Node!TryConnect, NP!TryConnect,
         Node!NoMessage, NP!NoMessage, Node!TaskStates, NP!TaskStates,
         Node!CallerStates, NP!CallerStates, Node!TaskAlive, NP!TaskAlive,
         Node!Pending, NP!Pending, Node!Queued, NP!Queued, Node!Carries, NP!Carries,
         Svm!Running, SP!Running, Svm!Pending, SP!Pending, Svm!Queued, SP!Queued,
         Svm!Carries, SP!Carries

-----------------------------------------------------------------------------
(* The backends.                                                           *)

\* The types of whatever a backend works on.
BackendTypes ==
    /\ Node!TypeOK
    /\ channel \in Seq(Svm!Message)
    /\ thread \in {"polling", "working", "ended"}
    /\ held \in Svm!Message \cup {Svm!Nothing}

\* A step of one backend leaves what the other keeps alone.
LEMMA MockTypes ==
    ASSUME BackendTypes, SP!SvmInv', UNCHANGED <<listener, nodeown>>
    PROVE  BackendTypes'
<1>1. SP!TypeOK'
    BY DEF SP!SvmInv
<1>2. /\ caller' \in [Requests -> Node!CallerStates]
      /\ sent' \in [Requests -> Nat]
    BY <1>1 DEF SP!TypeOK, Node!CallerStates
<1>3. Node!TypeOK'
    BY <1>2 DEF BackendTypes, Node!TypeOK, nodeown
<1>4. /\ channel' \in Seq(Svm!Message)
      /\ thread' \in {"polling", "working", "ended"}
      /\ held' \in Svm!Message \cup {Svm!Nothing}
    BY <1>1 DEF SP!TypeOK, SP!Message, Svm!Message, SP!TerminateSvm, Svm!TerminateSvm,
                SP!Nothing, Svm!Nothing
<1> QED
    BY <1>3, <1>4 DEF BackendTypes

LEMMA NodeTypes ==
    ASSUME BackendTypes, NP!IInv', UNCHANGED svmown
    PROVE  BackendTypes'
<1>1. Node!TypeOK'
    BY SameNext DEF NP!IInv
<1> QED
    BY <1>1 DEF BackendTypes, svmown

\* A step of the client is one of NodeClient.
LEMMA NodeInvariant == NP!IInv /\ [NP!Next]_(NP!vars) => NP!IInv'
    BY NP!InvariantStep, RetriesAssumption

\* What waits is one call of an open handler.
LEMMA OneWaits ==
    ASSUME InTurn, NEW h \in Handlers, NEW j \in 1 .. Calls, NEW k \in 1 .. Calls,
           caller[<<h, j>>] = "waiting", caller[<<h, k>>] = "waiting"
    PROVE  j = k
<1>1. j \in Nat /\ k \in Nat
    BY CallsAssumption
<1>2. CASE j < k
    BY <1>2 DEF InTurn
<1>3. CASE k < j
    BY <1>3 DEF InTurn
<1> QED
    BY <1>1, <1>2, <1>3

\* So a dropped handler is one caller gone, or none.
LEMMA DropFacts ==
    ASSUME IInv, NEW h \in Handlers, NEW outcome, Drop(h, outcome)
    PROVE  \/ caller' = caller
           \/ \E r \in Requests : /\ caller[r] = "waiting"
                                  /\ caller' = [caller EXCEPT ![r] = "cancelled"]
<1>1. caller \in [Requests -> Node!CallerStates]
    BY DEF IInv, TypeOK, Node!TypeOK
<1>2. caller' = [r \in Requests |-> IF r[1] = h /\ caller[r] = "waiting"
                                    THEN "cancelled" ELSE caller[r]]
    BY DEF Drop
<1>3. CASE \A k \in 1 .. Calls : caller[<<h, k>>] # "waiting"
  <2>1. \A r \in Requests : ~(r[1] = h /\ caller[r] = "waiting")
      BY <1>3 DEF Requests
  <2> QED
      BY <1>1, <1>2, <2>1
<1>4. ASSUME NEW k \in 1 .. Calls, caller[<<h, k>>] = "waiting"
      PROVE  caller' = [caller EXCEPT ![<<h, k>>] = "cancelled"]
  <2>1. <<h, k>> \in Requests
      BY DEF Requests
  <2>2. \A r \in Requests : r[1] = h /\ caller[r] = "waiting" => r = <<h, k>>
    <3> SUFFICES ASSUME NEW j \in 1 .. Calls, caller[<<h, j>>] = "waiting"
                 PROVE  j = k
        BY DEF Requests
    <3> QED
        BY <1>4, OneWaits DEF IInv
  <2>3. PICK q \in Requests : q = <<h, k>>
      BY <2>1
  <2>4. q[1] = h /\ caller[q] = "waiting"
      BY <1>4, <2>3
  <2>5. \A r \in Requests : (r[1] = h /\ caller[r] = "waiting") <=> r = q
      BY <2>2, <2>3, <2>4
  <2>6. caller' = [caller EXCEPT ![q] = "cancelled"]
      BY <1>1, <1>2, <2>5
  <2> QED
      BY <2>3, <2>6
<1>5. \A k \in 1 .. Calls : <<h, k>> \in Requests
    BY DEF Requests
<1> QED
    BY <1>3, <1>4, <1>5

\* When the server has ended nobody waits.
LEMMA NobodyWaits ==
    ASSUME IInv, server = "ended", NEW r \in Requests
    PROVE  caller[r] # "waiting"
<1>1. r[1] \in Handlers
    BY DEF Requests
<1> QED
    BY <1>1 DEF IInv, NobodyIn, CallersOfOpen

\* Steps that concern neither backend.
Quiet == UNCHANGED <<built, nodeown, svmown, calls>>

LEMMA QuietBackend == ASSUME IInv, Quiet PROVE Backend' /\ BackendTypes'
<1>1. BackendTypes
    BY DEF IInv, TypeOK, BackendTypes
<1>2. CASE Mock
  <2>1. SP!SvmInv'
      BY <1>2, SP!StutterStep
      DEF IInv, Backend, Quiet, SP!svmvars, svmown, calls
  <2> QED
      BY <1>1, <1>2, <2>1, MockTypes DEF Backend, Mock, Quiet, built
<1>3. CASE ~Mock
  <2>1. NP!IInv'
      BY <1>3, NodeInvariant DEF IInv, Backend, Quiet, NP!vars, built, nodeown, calls
  <2> QED
      BY <1>1, <1>3, <2>1, NodeTypes DEF Backend, Mock, Quiet, built
<1> QED
    BY <1>2, <1>3

\* A step of the SVM's, and one of the client's.
LEMMA MockBackend ==
    ASSUME IInv, Mock, SP!SvmInv', UNCHANGED <<built, nodeown>>
    PROVE  Backend' /\ BackendTypes'
<1>1. BackendTypes
    BY DEF IInv, TypeOK, BackendTypes
<1> QED
    BY <1>1, MockTypes DEF Backend, Mock, built

LEMMA NodeBackend ==
    ASSUME IInv, ~Mock, NP!IInv', UNCHANGED <<feature, svmown>>
    PROVE  Backend' /\ BackendTypes'
<1>1. BackendTypes
    BY DEF IInv, TypeOK, BackendTypes
<1> QED
    BY <1>1, NodeTypes DEF Backend, Mock

LEMMA CallBackend ==
    ASSUME IInv, NEW h \in Handlers, NEW k \in 1 .. Calls, Call(h, k)
    PROVE  Backend' /\ BackendTypes'
<1>r. PICK r \in Requests : r = <<h, k>>
    BY DEF Requests
<1>1. CASE Mock
  <2>1. SP!SvmInv
      BY <1>1 DEF IInv, Backend
  <2>2. SP!Submit(r) \/ SP!SubmitRefused(r)
      BY <1>1, <1>r, SameCalls DEF Call, Submit
  <2>3. SP!SvmInv'
      BY <2>1, <2>2, SP!SubmitStep, SP!CallerStep
  <2> QED
      BY <1>1, <2>3, MockBackend DEF Call, Submit
<1>2. CASE ~Mock
  <2>1. NP!IInv
      BY <1>2 DEF IInv, Backend
  <2>2. NP!Submit(r) \/ NP!SubmitRefused(r)
      BY <1>2, <1>r, SameCalls DEF Call, Submit
  <2>3. NP!IInv'
      BY <2>1, <2>2, NodeInvariant DEF NP!Next
  <2> QED
      BY <1>2, <2>3, NodeBackend DEF Call, Submit, built
<1> QED
    BY <1>1, <1>2

LEMMA DropBackend ==
    ASSUME IInv, NEW h \in Handlers, NEW outcome, Drop(h, outcome)
    PROVE  Backend' /\ BackendTypes'
<1>0. UNCHANGED <<built, nodeown, svmown, sent>>
    BY DEF Drop
<1>1. CASE caller' = caller
    BY <1>0, <1>1, QuietBackend DEF Quiet, calls
<1>2. ASSUME NEW r \in Requests, caller[r] = "waiting",
             caller' = [caller EXCEPT ![r] = "cancelled"]
      PROVE  Backend' /\ BackendTypes'
  <2>1. CASE Mock
    <3>1. SP!SvmInv'
        BY <1>0, <1>2, <2>1, SP!CallerStep DEF IInv, Backend, svmown
    <3> QED
        BY <1>0, <2>1, <3>1, MockBackend
  <2>2. CASE ~Mock
    <3>1. NP!Cancel(r)
        BY <1>0, <1>2 DEF NP!Cancel, built, nodeown
    <3>2. NP!IInv'
        BY <2>2, <3>1, NodeInvariant DEF IInv, Backend, NP!Next
    <3> QED
        BY <1>0, <2>2, <3>2, NodeBackend DEF built
  <2> QED
      BY <2>1, <2>2
<1> QED
    BY <1>1, <1>2, DropFacts

LEMMA ClientBackend ==
    ASSUME IInv, ClientTurn \/ ClientStops \/ ConnectionLost
    PROVE  /\ Backend' /\ BackendTypes'
           /\ NP!IInv /\ NP!Next
<1>1. ~Mock /\ UNCHANGED <<feature, svmown>>
    BY DEF ClientTurn, ClientStops, ConnectionLost
<1>2. NP!Turn \/ NP!CtrlC \/ NP!ConnectionLost
    BY SameTurn DEF ClientTurn, ClientStops, ConnectionLost
<1>3. NP!IInv /\ NP!Next
    BY <1>1, <1>2 DEF IInv, Backend, NP!Next
<1>4. NP!IInv'
    BY <1>3, NodeInvariant
<1> QED
    BY <1>1, <1>3, <1>4, NodeBackend

LEMMA ThreadBackend ==
    ASSUME IInv, SvmTurn \/ SendTerminate
    PROVE  Backend' /\ BackendTypes'
<1>1. Mock /\ UNCHANGED <<built, nodeown>> /\ SP!SvmInv
    BY DEF SvmTurn, SendTerminate, IInv, Backend
<1>2. \/ SP!Take \/ SP!Stop \/ SP!SendTerminate
      \/ \E o \in {"value", "error"} : SP!Finish(o)
    BY SameThread DEF SvmTurn, SendTerminate, Svm!Turn
<1>3. SP!SvmInv'
    BY <1>1, <1>2, SP!TakeStep, SP!StopStep, SP!SendTerminateStep, SP!FinishStep
<1> QED
    BY <1>1, <1>3, MockBackend

\* main returns: the client task is dropped with its queue, and nobody waits.
LEMMA ReturnBackend ==
    ASSUME IInv, Return
    PROVE  /\ Backend' /\ BackendTypes'
           /\ caller' = caller
<1>0. /\ server = "ended"
      /\ UNCHANGED <<built, svmown, sent>>
    BY DEF Return
<1>1. \A r \in Requests : caller[r] # "waiting"
    BY <1>0, NobodyWaits
<1>2. CASE Mock
    BY <1>0, <1>2, QuietBackend DEF Return, Quiet, calls
<1>3. CASE ~Mock
  <2>1. /\ NP!DropReceiver
        /\ task' = IF NP!TaskAlive THEN "stopped" ELSE task
        /\ UNCHANGED <<listener, client, tries, sent>>
      BY <1>3, SameState, SameTurn DEF Return, built
  <2>2. NP!IInv /\ NP!TypeOK
      BY <1>3 DEF IInv, Backend, NP!IInv
  <2>3. caller' = caller
      BY <1>1, <2>1, <2>2 DEF NP!DropReceiver, NP!TypeOK
  <2>4. /\ queue' = <<>>
        /\ current' = NP!NoMessage
        /\ task' \in {"stopped", "panicked"}
      BY <2>1 DEF NP!DropReceiver, NP!TaskAlive
  <2>5. NP!TypeOK'
      BY <2>1, <2>2, <2>3, <2>4 DEF NP!TypeOK, NP!TaskStates
  <2>6. NP!Distinct' /\ NP!HandShape' /\ NP!NothingLeft' /\ NP!QueuedUnsent'
      BY <2>4 DEF NP!Distinct, NP!HandShape, NP!NothingLeft, NP!QueuedUnsent,
                  NP!NoMessage
  <2>7. NP!HeldRequest' /\ NP!Budget'
      BY <2>4 DEF NP!HeldRequest, NP!Budget, NP!NoMessage
  <2>8. NP!IdleUnsent' /\ NP!AnsweredSent' /\ NP!AtMostOnce'
      BY <2>1, <2>2, <2>3 DEF NP!IInv, NP!IdleUnsent, NP!AnsweredSent, NP!AtMostOnce
  <2>9. NP!FailedMeansUnsent' /\ NP!RetryBudget' /\ NP!NoWaiterForgotten'
      BY <1>1, <2>1, <2>2, <2>3
      DEF NP!IInv, NP!FailedMeansUnsent, NP!RetryBudget, NP!NoWaiterForgotten
  <2>10. NP!IInv'
      BY <2>5, <2>6, <2>7, <2>8, <2>9 DEF NP!IInv
  <2> QED
      BY <1>0, <1>3, <2>3, <2>10, NodeBackend DEF built
<1> QED
    BY <1>2, <1>3

\* The steps that concern neither backend.
LEMMA QuietSteps ==
    ASSUME \/ \E bound \in BOOLEAN : Start(bound)
           \/ \E h \in Handlers : Accept(h) \/ Ok(h) \/ Error(h)
           \/ Drain \/ Drained \/ Exit
           \/ \E t \in Listeners : Listen(t)
           \/ ShutdownSignalPanics \/ StopperGivesUp \/ CtrlC \/ SigTerm
           \/ UNCHANGED vars
    PROVE  Quiet
  BY DEF Start, Accept, Ok, Error, Reply, Drain, Drained, Exit, Listen,
         ShutdownSignalPanics, StopperGivesUp, CtrlC, SigTerm, Signal, vars, Quiet

LEMMA BackendStep == IInv /\ [Next]_vars => Backend' /\ BackendTypes'
<1> SUFFICES ASSUME IInv, [Next]_vars PROVE Backend' /\ BackendTypes'
    OBVIOUS
<1>1. CASE Quiet
    BY <1>1, QuietBackend
<1>2. CASE \E h \in Handlers : TimeOut(h) \/ HangUp(h)
    BY <1>2, DropBackend DEF TimeOut, HangUp
<1>3. CASE \E h \in Handlers, k \in 1 .. Calls : Call(h, k)
    BY <1>3, CallBackend
<1>4. CASE ClientTurn \/ ClientStops \/ ConnectionLost
    BY <1>4, ClientBackend
<1>5. CASE SvmTurn \/ SendTerminate
    BY <1>5, ThreadBackend
<1>6. CASE Return
    BY <1>6, ReturnBackend
<1> QED
    BY <1>1, <1>2, <1>3, <1>4, <1>5, <1>6, QuietSteps DEF Next, Handle

-----------------------------------------------------------------------------
(* What becomes of the callers.                                            *)

\* What a backend does on its own ends the wait of callers, and changes
\* nothing else.
LEMMA CallerMoves ==
    ASSUME IInv, ClientTurn \/ ClientStops \/ ConnectionLost \/ SvmTurn \/ SendTerminate,
           NEW r \in Requests
    PROVE  \/ caller'[r] = caller[r]
           \/ /\ caller[r] = "waiting"
              /\ caller'[r] \in {"value", "error", "exhausted", "closed"}
<1>1. CASE ConnectionLost \/ SendTerminate
    BY <1>1 DEF ConnectionLost, Node!ConnectionLost, SendTerminate, Svm!SendTerminate
<1>2. caller \in [Requests -> Node!CallerStates]
    BY DEF IInv, TypeOK, Node!TypeOK
<1>3. CASE ClientStops
    BY <1>2, <1>3 DEF ClientStops, Node!CtrlC, Node!DropReceiver
<1>4. CASE SvmTurn
    BY <1>2, <1>4 DEF SvmTurn, Svm!Turn, Svm!Take, Svm!Stop, Svm!Finish
<1>5. CASE ClientTurn
    BY <1>2, <1>5
    DEF ClientTurn, Node!Turn, Node!NoCtrlC, Node!Handle, Node!GiveUp, Node!Requeue,
        Node!Forward, Node!StartConnect, Node!RequeueRequest, Node!Reply,
        Node!ReplyUnwanted, Node!DropReceiver, Node!Connect
<1> QED
    BY <1>1, <1>3, <1>4, <1>5

\* Every step, seen from the callers: none moves, one makes a call, one goes
\* away, or a backend ends the wait of some.
Calling  == \E h \in Handlers, k \in 1 .. Calls :
                /\ Call(h, k)
                /\ caller[<<h, k>>] = "idle"
                /\ caller' \in {[caller EXCEPT ![<<h, k>>] = "waiting"],
                                [caller EXCEPT ![<<h, k>>] = "closed"]}
Serving  == \A r \in Requests :
                \/ caller'[r] = caller[r]
                \/ /\ caller[r] = "waiting"
                   /\ caller'[r] \in {"value", "error", "exhausted", "closed"}
Dropping == \E h \in Handlers, outcome \in {"timeout", "gone"} : Drop(h, outcome)

LEMMA CallFacts ==
    ASSUME NEW h \in Handlers, NEW k \in 1 .. Calls, Call(h, k)
    PROVE  Calling
  BY DEF Calling, Call, Submit, Node!Submit, Node!SubmitRefused, Svm!Submit,
         Svm!SubmitRefused

LEMMA StepsOfCallers ==
    ASSUME IInv, [Next]_vars
    PROVE  \/ UNCHANGED <<caller, sent>>
           \/ Calling \/ Dropping
           \/ /\ ClientTurn \/ ClientStops \/ ConnectionLost \/ SvmTurn \/ SendTerminate
              /\ Serving /\ UNCHANGED <<http, server, process>>
<1>1. CASE Quiet
    BY <1>1 DEF Quiet, calls
<1>2. CASE \E h \in Handlers : TimeOut(h) \/ HangUp(h)
    BY <1>2 DEF TimeOut, HangUp, Dropping
<1>3. CASE \E h \in Handlers, k \in 1 .. Calls : Call(h, k)
    BY <1>3, CallFacts
<1>4. CASE ClientTurn \/ ClientStops \/ ConnectionLost \/ SvmTurn \/ SendTerminate
  <2>1. Serving
      BY <1>4, CallerMoves DEF Serving
  <2> QED
      BY <1>4, <2>1 DEF ClientTurn, ClientStops, ConnectionLost, SvmTurn, SendTerminate
<1>5. CASE Return
    BY <1>5, ReturnBackend DEF Return
<1> QED
    BY <1>1, <1>2, <1>3, <1>4, <1>5, QuietSteps DEF Next, Handle

-----------------------------------------------------------------------------
(* The invariant is kept.                                                  *)

\* An answered call is never touched again, and a new one comes after
\* answered ones only.
LEMMA InTurnStep == IInv /\ [Next]_vars => InTurn'
<1> SUFFICES ASSUME IInv, [Next]_vars PROVE InTurn'
    OBVIOUS
<1>0. InTurn /\ caller \in [Requests -> Node!CallerStates]
    BY DEF IInv, TypeOK, Node!TypeOK
<1>1. CASE UNCHANGED caller
    BY <1>0, <1>1 DEF InTurn
<1>2. CASE Serving
  <2> SUFFICES ASSUME NEW h \in Handlers, NEW j \in 1 .. Calls, NEW k \in 1 .. Calls,
                      j < k, caller'[<<h, k>>] # "idle"
               PROVE  caller'[<<h, j>>] = "value"
      BY DEF InTurn
  <2>1. <<h, j>> \in Requests /\ <<h, k>> \in Requests
      BY DEF Requests
  <2>2. caller[<<h, k>>] # "idle"
      BY <1>2, <2>1 DEF Serving
  <2>3. caller[<<h, j>>] = "value"
      BY <1>0, <2>2 DEF InTurn
  <2> QED
      BY <1>2, <2>1, <2>3 DEF Serving
<1>3. CASE Dropping
  <2> SUFFICES ASSUME NEW h \in Handlers, NEW j \in 1 .. Calls, NEW k \in 1 .. Calls,
                      j < k, caller'[<<h, k>>] # "idle"
               PROVE  caller'[<<h, j>>] = "value"
      BY DEF InTurn
  <2>1. <<h, j>> \in Requests /\ <<h, k>> \in Requests
      BY DEF Requests
  <2>2. \A r \in Requests : \/ caller'[r] = caller[r]
                            \/ caller[r] = "waiting" /\ caller'[r] = "cancelled"
      BY <1>0, <1>3 DEF Dropping, Drop
  <2>3. caller[<<h, k>>] # "idle"
      BY <2>1, <2>2
  <2>4. caller[<<h, j>>] = "value"
      BY <1>0, <2>3 DEF InTurn
  <2> QED
      BY <2>1, <2>2, <2>4
<1>4. ASSUME NEW g \in Handlers, NEW n \in 1 .. Calls, Call(g, n),
             caller[<<g, n>>] = "idle",
             caller' \in {[caller EXCEPT ![<<g, n>>] = "waiting"],
                         [caller EXCEPT ![<<g, n>>] = "closed"]}
      PROVE  InTurn'
  <2> SUFFICES ASSUME NEW h \in Handlers, NEW j \in 1 .. Calls, NEW k \in 1 .. Calls,
                      j < k, caller'[<<h, k>>] # "idle"
               PROVE  caller'[<<h, j>>] = "value"
      BY DEF InTurn
  <2>r. PICK r \in Requests : r = <<g, n>>
      BY DEF Requests
  <2>p. PICK p \in Requests : p = <<h, k>>
      BY DEF Requests
  <2>q. PICK q \in Requests : q = <<h, j>>
      BY DEF Requests
  <2>1. \A x \in Requests : x # r => caller'[x] = caller[x]
      BY <1>0, <1>4, <2>r
  <2>2. caller[q] = "value" => caller'[q] = "value"
      BY <1>4, <2>1, <2>r
  <2>3. CASE p = r
    <3>0. <<h, k>> = <<g, n>>
        BY <2>3, <2>p, <2>r
    <3>1. h = g /\ k = n
        BY <3>0
    <3>2. n \in Nat /\ j \in Nat /\ n > 1 /\ n - 1 \in 1 .. Calls
        BY <3>1, CallsAssumption
    <3>3. caller[<<g, n - 1>>] = "value"
        BY <1>4, <3>2 DEF Call
    <3>4. CASE j = n - 1
        BY <2>2, <2>q, <3>1, <3>3, <3>4
    <3>5. CASE j # n - 1
      <4>1. j < n - 1
          BY <3>1, <3>2, <3>5
      <4>2. caller[<<h, j>>] = "value"
          BY <1>0, <3>1, <3>2, <3>3, <4>1 DEF InTurn
      <4> QED
          BY <2>2, <2>q, <4>2
    <3> QED
        BY <3>4, <3>5
  <2>4. CASE p # r
    <3>1. caller[<<h, k>>] # "idle"
        BY <2>1, <2>4, <2>p
    <3>2. caller[<<h, j>>] = "value"
        BY <1>0, <3>1 DEF InTurn
    <3> QED
        BY <2>2, <2>q, <3>2
  <2> QED
      BY <2>3, <2>4
<1> QED
    BY <1>1, <1>2, <1>3, <1>4, StepsOfCallers DEF Calling

\* A caller moves while its handler is open, and a handler that closes leaves
\* nobody waiting.
LEMMA CallersOfOpenStep == IInv /\ [Next]_vars => CallersOfOpen'
<1> SUFFICES ASSUME IInv, [Next]_vars, NEW r \in Requests
             PROVE  /\ caller'[r] = "waiting" => http'[r[1]] = "open"
                    /\ caller'[r] = "cancelled" => http'[r[1]] \in {"timeout", "gone"}
    BY DEF CallersOfOpen
<1>0. /\ caller \in [Requests -> Node!CallerStates]
      /\ http \in [Handlers -> {"new", "open", "ok", "error", "timeout", "gone"}]
      /\ caller[r] = "waiting" => http[r[1]] = "open"
      /\ caller[r] = "cancelled" => http[r[1]] \in {"timeout", "gone"}
    BY DEF IInv, TypeOK, Node!TypeOK, CallersOfOpen
<1>1. PICK g \in Handlers, n \in 1 .. Calls : r = <<g, n>> /\ r[1] = g
    BY DEF Requests
<1>2. CASE UNCHANGED <<caller, http>>
    BY <1>0, <1>2
<1>3. CASE Serving /\ UNCHANGED http
    BY <1>0, <1>3 DEF Serving
<1>4. CASE Dropping
  <2>1. PICK h \in Handlers, outcome \in {"timeout", "gone"} : Drop(h, outcome)
      BY <1>4 DEF Dropping
  <2> QED
      BY <1>0, <1>1, <2>1 DEF Drop, Open
<1>5. CASE Calling
  <2>1. PICK h \in Handlers, k \in 1 .. Calls :
            /\ Call(h, k)
            /\ caller' \in {[caller EXCEPT ![<<h, k>>] = "waiting"],
                            [caller EXCEPT ![<<h, k>>] = "closed"]}
      BY <1>5 DEF Calling
  <2>0. <<h, k>> \in Requests /\ <<h, k>>[1] = h
      BY DEF Requests
  <2>p. PICK p \in Requests : p = <<h, k>> /\ p[1] = h
      BY <2>0
  <2>2. http[h] = "open" /\ http' = http
      BY <2>1 DEF Call, Open
  <2>3. CASE r = p
      BY <1>0, <2>1, <2>2, <2>3, <2>p
  <2>4. CASE r # p
      BY <1>0, <2>1, <2>2, <2>4, <2>p
  <2> QED
      BY <2>3, <2>4
<1>6. CASE \E h \in Handlers : Accept(h)
    BY <1>0, <1>1, <1>6 DEF Accept, calls
<1>7. ASSUME NEW h \in Handlers, Ok(h) \/ Error(h)
      PROVE  /\ caller'[r] = "waiting" => http'[r[1]] = "open"
             /\ caller'[r] = "cancelled" => http'[r[1]] \in {"timeout", "gone"}
  <2>1. \A k \in 1 .. Calls : caller[<<h, k>>] # "waiting"
      BY <1>7 DEF Ok, Error
  <2>2. http[h] = "open" /\ UNCHANGED caller
      BY <1>7 DEF Ok, Error, Reply, Open, calls
  <2>3. PICK outcome \in {"ok", "error"} : http' = [http EXCEPT ![h] = outcome]
      BY <1>7 DEF Ok, Error, Reply
  <2> QED
      BY <1>0, <1>1, <2>1, <2>2, <2>3
<1>8. CASE \/ \E bound \in BOOLEAN : Start(bound)
           \/ Drain \/ Drained \/ Exit
           \/ \E t \in Listeners : Listen(t)
           \/ ShutdownSignalPanics \/ StopperGivesUp \/ CtrlC \/ SigTerm
           \/ UNCHANGED vars
    BY <1>2, <1>8
    DEF Start, Drain, Drained, Exit, Listen, ShutdownSignalPanics, StopperGivesUp,
        CtrlC, SigTerm, Signal, vars, calls
<1>9. CASE Return
    BY <1>2, <1>9, ReturnBackend DEF Return
<1>10. CASE \E h \in Handlers, k \in 1 .. Calls : Call(h, k)
    BY <1>5, <1>10, CallFacts
<1>11. CASE \E h \in Handlers : TimeOut(h) \/ HangUp(h)
    BY <1>4, <1>11 DEF TimeOut, HangUp, Dropping
<1>12. CASE ClientTurn \/ ClientStops \/ ConnectionLost \/ SvmTurn \/ SendTerminate
  <2>1. Serving
      BY <1>12, CallerMoves DEF Serving
  <2>2. UNCHANGED http
      BY <1>12 DEF ClientTurn, ClientStops, ConnectionLost, SvmTurn, SendTerminate
  <2> QED
      BY <1>3, <2>1, <2>2
<1> QED
    BY <1>6, <1>7, <1>8, <1>9, <1>10, <1>11, <1>12 DEF Next, Handle

\* The types of what the process itself keeps.
Outer ==
    /\ feature \in {"node", "mock"}
    /\ http \in [Handlers -> {"new", "open", "ok", "error", "timeout", "gone"}]
    /\ server \in {"starting", "serving", "draining", "ended"}
    /\ stopper \in {"waiting", "sent", "gone"}
    /\ heard \subseteq ears
    /\ ears \subseteq Listeners
    /\ process \in {"running", "leaving", "exited", "killed"}

LEMMA OuterStep == IInv /\ [Next]_vars => Outer' /\ NobodyIn' /\ Leaving'
<1> SUFFICES ASSUME IInv, [Next]_vars PROVE Outer' /\ NobodyIn' /\ Leaving'
    OBVIOUS
<1>0. Outer /\ NobodyIn /\ Leaving
    BY DEF IInv, TypeOK, Outer
<1> USE DEF Outer, Listeners, Mock, signals, built, NobodyIn, Leaving
<1>1. ASSUME NEW bound \in BOOLEAN, Start(bound) PROVE Outer' /\ NobodyIn' /\ Leaving'
    BY <1>0, <1>1 DEF Start
<1>2. ASSUME NEW h \in Handlers, Accept(h) PROVE Outer' /\ NobodyIn' /\ Leaving'
    BY <1>0, <1>2 DEF Accept
<1>3. ASSUME NEW h \in Handlers, Ok(h) \/ Error(h) PROVE Outer' /\ NobodyIn' /\ Leaving'
    BY <1>0, <1>3 DEF Ok, Error, Reply
<1>4. ASSUME NEW h \in Handlers, TimeOut(h) \/ HangUp(h)
      PROVE  Outer' /\ NobodyIn' /\ Leaving'
    BY <1>0, <1>4 DEF TimeOut, HangUp, Drop
<1>5. ASSUME NEW h \in Handlers, NEW k \in 1 .. Calls, Call(h, k)
      PROVE  Outer' /\ NobodyIn' /\ Leaving'
    BY <1>0, <1>5 DEF Call
<1>6. CASE Drain \/ Drained
    BY <1>0, <1>6 DEF Drain, Drained
<1>7. CASE ClientTurn \/ ClientStops \/ ConnectionLost \/ SvmTurn \/ SendTerminate
    BY <1>0, <1>7 DEF ClientTurn, ClientStops, ConnectionLost, SvmTurn, SendTerminate
<1>8. ASSUME NEW t \in Listeners, Listen(t) PROVE Outer' /\ NobodyIn' /\ Leaving'
    BY <1>0, <1>8 DEF Listen
<1>9. CASE ShutdownSignalPanics \/ StopperGivesUp
    BY <1>0, <1>9 DEF ShutdownSignalPanics, StopperGivesUp
<1>10. CASE CtrlC \/ SigTerm
    BY <1>0, <1>10 DEF CtrlC, SigTerm, Signal
<1>11. CASE Return \/ Exit
    BY <1>0, <1>11 DEF Return, Exit
<1>12. CASE UNCHANGED vars
    BY <1>0, <1>12 DEF vars
<1> QED
    BY <1>1, <1>2, <1>3, <1>4, <1>5, <1>6, <1>7, <1>8, <1>9, <1>10, <1>11, <1>12
    DEF Next, Handle

LEMMA InvariantInit == Init => IInv
<1> SUFFICES ASSUME Init PROVE IInv
    OBVIOUS
<1>1. NP!IInv
    BY SameState, NP!InvariantInit, RetriesAssumption DEF Init
<1>2. SP!SvmInv
    BY DEF Init, Svm!Init, SP!SvmInv, SP!TypeOK, SP!Distinct, SP!HeldShape,
           SP!NothingLeft, SP!QueuedUnsent, SP!HeldSent, SP!Fates, SP!Waiters,
           Svm!Nothing, SP!Nothing
<1>3. Node!TypeOK
    BY <1>1, SameState DEF NP!IInv
<1>4. TypeOK
  <2>1. /\ channel = <<>> /\ thread = "polling" /\ held = Svm!Nothing
      BY DEF Init, Svm!Init
  <2> QED
      BY <1>3, <2>1 DEF Init, TypeOK
<1>5. \A r \in Requests : caller[r] = "idle"
    BY DEF Init, Node!Init
<1>6. InTurn
    BY <1>5 DEF InTurn, Requests
<1>7. CallersOfOpen /\ NobodyIn /\ Leaving
    BY <1>5 DEF Init, CallersOfOpen, NobodyIn, Leaving
<1> QED
    BY <1>1, <1>2, <1>4, <1>6, <1>7 DEF IInv, Backend

LEMMA InvariantStep == IInv /\ [Next]_vars => IInv'
<1> SUFFICES ASSUME IInv, [Next]_vars PROVE IInv'
    OBVIOUS
<1>1. Backend' /\ BackendTypes' /\ Outer' /\ NobodyIn' /\ Leaving'
    BY BackendStep, OuterStep
<1>2. TypeOK'
    BY <1>1 DEF TypeOK, BackendTypes, Outer
<1> QED
    BY <1>1, <1>2, InTurnStep, CallersOfOpenStep DEF IInv

\* The inductive invariant holds in every reachable state of the process, with
\* either backend.
THEOREM Invariance == Spec => []IInv
<1>1. Init => IInv
    BY InvariantInit
<1>2. IInv /\ [Next]_vars => IInv'
    BY InvariantStep
<1> QED
    BY <1>1, <1>2, PTL DEF Spec

-----------------------------------------------------------------------------
(* The properties.                                                         *)

\* Everything keeps its type, and no task hears a signal it does not listen for.
THEOREM TypeCorrect == Spec => []TypeOK
<1>1. IInv => TypeOK
    BY DEF IInv
<1> QED
    BY <1>1, Invariance, PTL

\* Whatever times out, hangs up or is told to stop: who waits for a backend is
\* an open handler's call that a live backend has in its queue or its hands, and
\* the server does not end before everybody it has let in is through.
THEOREM NobodyIsStranded == Spec => []NobodyStranded
<1>1. IInv => NobodyStranded
  <2> SUFFICES ASSUME IInv PROVE NobodyStranded
      OBVIOUS
  <2>1. ASSUME NEW r \in Requests, caller[r] = "waiting"
        PROVE  /\ http[r[1]] = "open"
               /\ IF Mock THEN Svm!Running /\ Svm!Pending(r)
                          ELSE Node!TaskAlive /\ Node!Pending(r)
    <3>1. http[r[1]] = "open"
        BY <2>1 DEF IInv, CallersOfOpen
    <3>2. Mock => SP!Running /\ SP!Pending(r)
        BY <2>1 DEF IInv, Backend, SP!SvmInv, SP!Waiters
    <3>3. ~Mock => NP!TaskAlive /\ NP!Pending(r)
        BY <2>1 DEF IInv, Backend, NP!IInv, NP!NoWaiterForgotten
    <3> QED
        BY <3>1, <3>2, <3>3, SameState
  <2>2. server = "ended" \/ process \in {"leaving", "exited"} =>
            \A h \in Handlers : http[h] # "open"
      BY DEF IInv, NobodyIn, Leaving
  <2> QED
      BY <2>1, <2>2 DEF NobodyStranded
<1> QED
    BY <1>1, Invariance, PTL

-----------------------------------------------------------------------------
(* Both backends keep the promise of RequestService.                       *)

Known == Node!statusBar

\* What a caller's state comes to, before and after a step.
LEMMA KnownFacts ==
    /\ Known = [r \in Requests |-> NP!Outcome(caller[r])]
    /\ Known' = [r \in Requests |-> NP!Outcome(caller'[r])]
    /\ NP!Outcome("idle") = "idle" /\ NP!Outcome("waiting") = "pending"
    /\ NP!Outcome("value") = "answered" /\ NP!Outcome("error") = "answered"
    /\ NP!Outcome("exhausted") = "refused" /\ NP!Outcome("closed") = "refused"
    /\ NP!Outcome("cancelled") = "abandoned"
  BY DEF Known, Node!statusBar, NP!Outcome

LEMMA SameService ==
    [NP!Service!Next]_(NP!Service!svars) => [Service!Next]_(Service!svars)
  BY DEF NP!Service!Next, NP!Service!svars, Service!Next, Service!svars,
         NP!Service!Submit, Service!Submit, NP!Service!Execute, Service!Execute,
         NP!Service!Answer, Service!Answer, NP!Service!Refuse, Service!Refuse,
         NP!Service!Abandon, Service!Abandon, NP!statusBar, Node!statusBar

LEMMA QuietService ==
    UNCHANGED <<caller, sent>> => UNCHANGED Service!svars
  BY KnownFacts DEF Service!svars, Known

LEMMA CallService ==
    ASSUME IInv, Calling, sent' = sent
    PROVE  Service!Next
<1>1. PICK h \in Handlers, k \in 1 .. Calls :
          /\ caller[<<h, k>>] = "idle"
          /\ caller' \in {[caller EXCEPT ![<<h, k>>] = "waiting"],
                          [caller EXCEPT ![<<h, k>>] = "closed"]}
    BY DEF Calling
<1>2. PICK r \in Requests : r = <<h, k>>
    BY DEF Requests
<1>3. caller \in [Requests -> Node!CallerStates] /\ sent \in [Requests -> Nat]
    BY DEF IInv, TypeOK, Node!TypeOK
<1>4. sent[r] = 0
  <2>1. caller[r] = "idle"
      BY <1>1, <1>2
  <2>2. Mock => SP!Fates
      BY DEF IInv, Backend, SP!SvmInv
  <2>3. ~Mock => NP!IdleUnsent
      BY DEF IInv, Backend, NP!IInv
  <2> QED
      BY <2>1, <2>2, <2>3 DEF SP!Fates, NP!IdleUnsent
<1>5. CASE caller' = [caller EXCEPT ![r] = "waiting"]
  <2>1. Service!Submit(r)
      BY <1>1, <1>2, <1>3, <1>5, KnownFacts DEF Service!Submit, Known
  <2> QED
      BY <2>1 DEF Service!Next
<1>6. CASE caller' = [caller EXCEPT ![r] = "closed"]
  <2>1. Service!Refuse({r})
      BY <1>1, <1>2, <1>3, <1>4, <1>6, KnownFacts DEF Service!Refuse, Known
  <2> QED
      BY <2>1 DEF Service!Next
<1> QED
    BY <1>1, <1>2, <1>5, <1>6

LEMMA DropService ==
    ASSUME IInv, Dropping
    PROVE  [Service!Next]_(Service!svars)
<1>1. PICK h \in Handlers, outcome \in {"timeout", "gone"} : Drop(h, outcome)
    BY DEF Dropping
<1>2. sent' = sent
    BY <1>1 DEF Drop
<1>3. caller \in [Requests -> Node!CallerStates]
    BY DEF IInv, TypeOK, Node!TypeOK
<1>4. CASE caller' = caller
    BY <1>2, <1>4, QuietService
<1>5. ASSUME NEW r \in Requests, caller[r] = "waiting",
             caller' = [caller EXCEPT ![r] = "cancelled"]
      PROVE  Service!Next
  <2>1. Service!Abandon(r)
      BY <1>2, <1>3, <1>5, KnownFacts DEF Service!Abandon, Known
  <2> QED
      BY <2>1 DEF Service!Next
<1> QED
    BY <1>1, <1>4, <1>5, DropFacts

LEMMA ThreadService ==
    ASSUME IInv, SvmTurn
    PROVE  [Service!Next]_(Service!svars)
<1>1. SP!SvmInv
    BY DEF SvmTurn, IInv, Backend
<1>2. caller \in [Requests -> Node!CallerStates] /\ sent \in [Requests -> Nat]
    BY DEF IInv, TypeOK, Node!TypeOK
<1>3. CASE SP!Take
  <2>1. /\ Head(channel) = channel[1] /\ Head(channel) \in SP!Message
        /\ 1 \in 1 .. Len(channel)
      BY <1>1, <1>3, SP!ReceiveFacts DEF SP!Take, SP!SvmInv, SP!TypeOK
  <2>2. PICK r \in Requests : r = Head(channel).id
      BY <1>3, <2>1, SP!MessageFacts DEF SP!Take
  <2>3. caller[r] \in {"waiting", "cancelled"} /\ sent[r] = 0
      BY <1>1, <1>3, <2>1, <2>2
      DEF SP!Take, SP!SvmInv, SP!QueuedUnsent, SP!IsRequest
  <2>4. caller' = caller /\ sent' = [sent EXCEPT ![r] = 1]
      BY <1>2, <1>3, <2>2, <2>3 DEF SP!Take
  <2>5. Service!Execute(r)
      BY <1>2, <2>3, <2>4, KnownFacts DEF Service!Execute, Known
  <2> QED
      BY <2>5 DEF Service!Next
<1>4. ASSUME NEW o \in {"value", "error"}, SP!Finish(o)
      PROVE  [Service!Next]_(Service!svars)
  <2>1. held.method = "request"
      BY <1>1, <1>4 DEF SP!Finish, SP!SvmInv, SP!HeldShape
  <2>2. PICK r \in Requests : r = held.id
      BY <1>1, <2>1, SP!MessageFacts DEF SP!SvmInv, SP!TypeOK
  <2>3. sent[r] = 1 /\ caller[r] \in {"waiting", "cancelled"} /\ sent' = sent
      BY <1>1, <1>4, <2>1, <2>2 DEF SP!SvmInv, SP!HeldSent, SP!Finish
  <2>4. CASE caller[r] = "waiting"
    <3>1. caller' = [caller EXCEPT ![r] = o]
        BY <1>2, <1>4, <2>2, <2>4 DEF SP!Finish
    <3>2. Service!Answer(r)
        BY <1>2, <2>3, <2>4, <3>1, KnownFacts DEF Service!Answer, Known
    <3> QED
        BY <3>2 DEF Service!Next
  <2>5. CASE caller[r] = "cancelled"
    <3>1. caller' = caller
        BY <1>2, <1>4, <2>2, <2>5 DEF SP!Finish
    <3> QED
        BY <2>3, <3>1, QuietService
  <2> QED
      BY <2>3, <2>4, <2>5
<1>5. CASE SP!Stop
  <2>1. /\ sent' = sent
        /\ \A r \in Requests :
             caller'[r] = IF caller[r] = "waiting" /\ SP!Queued(r) THEN "closed"
                          ELSE caller[r]
      BY <1>5 DEF SP!Stop
  <2>2. \A r \in Requests : SP!Queued(r) => sent[r] = 0
      BY <1>1 DEF SP!SvmInv, SP!Queued, SP!Carries, SP!QueuedUnsent, SP!IsRequest
  <2>3. Service!Refuse({r \in Requests : caller[r] = "waiting" /\ SP!Queued(r)})
      BY <2>1, <2>2, KnownFacts DEF Service!Refuse, Known
  <2> QED
      BY <2>3 DEF Service!Next
<1> QED
    BY <1>3, <1>4, <1>5, SameThread DEF SvmTurn, Svm!Turn

LEMMA ServiceStep == IInv /\ [Next]_vars => [Service!Next]_(Service!svars)
<1> SUFFICES ASSUME IInv, [Next]_vars PROVE [Service!Next]_(Service!svars)
    OBVIOUS
<1>1. CASE UNCHANGED <<caller, sent>>
    BY <1>1, QuietService
<1>2. CASE Calling
  <2>1. sent' = sent
      BY <1>2 DEF Calling, Call, Submit, Node!Submit, Node!SubmitRefused,
                  Svm!Submit, Svm!SubmitRefused
  <2> QED
      BY <1>2, <2>1, CallService
<1>3. CASE Dropping
    BY <1>3, DropService
<1>4. CASE ClientTurn \/ ClientStops \/ ConnectionLost
    BY <1>4, ClientBackend, NP!ServiceStep, RetriesAssumption, SameService
<1>5. CASE SvmTurn
    BY <1>5, ThreadService
<1>6. CASE SendTerminate
    BY <1>1, <1>6 DEF SendTerminate, Svm!SendTerminate
<1> QED
    BY <1>1, <1>2, <1>3, <1>4, <1>5, <1>6, StepsOfCallers

\* Over the node client as over the mock, through every timeout, hang-up,
\* panic and shutdown: a call is executed at most once, answered only after it,
\* refused only without it, and has one outcome.
THEOREM Refinement == Spec => ServiceSpec
<1>1. Init => Service!Init
    BY KnownFacts DEF Init, Node!Init, Service!Init, Known
<1>2. IInv /\ [Next]_vars => [Service!Next]_(Service!svars)
    BY ServiceStep
<1> QED
    BY <1>1, <1>2, Invariance, PTL DEF Spec, ServiceSpec, Service!Spec

\* Once an HTTP request has its answer, no call it made is executed any more,
\* and once its handler was dropped, one at most: only a call somebody waits for,
\* or went away from, ever is, and a handler waits for one at a time.
THEOREM AtMostOneOutlives == Spec => OneCallOutlives
<1>1. ASSUME IInv, [Next]_vars
      PROVE  [\A h \in Handlers, k \in 1 .. Calls :
                http[h] \notin {"new", "open"} /\ sent'[<<h, k>>] # sent[<<h, k>>] =>
                    /\ http[h] \in {"timeout", "gone"}
                    /\ caller[<<h, k>>] = "cancelled"
                    /\ \A j \in 1 .. Calls : /\ j < k => caller[<<h, j>>] = "value"
                                             /\ j > k => caller[<<h, j>>] = "idle"]_vars
  <2> SUFFICES ASSUME NEW h \in Handlers, NEW k \in 1 .. Calls,
                      http[h] \notin {"new", "open"}, sent'[<<h, k>>] # sent[<<h, k>>]
               PROVE  /\ http[h] \in {"timeout", "gone"}
                      /\ caller[<<h, k>>] = "cancelled"
                      /\ \A j \in 1 .. Calls : /\ j < k => caller[<<h, j>>] = "value"
                                               /\ j > k => caller[<<h, j>>] = "idle"
      OBVIOUS
  <2>1. PICK r \in Requests : r = <<h, k>>
      BY DEF Requests
  <2>2. caller[r] \in Node!CallerStates /\ sent \in [Requests -> Nat]
      BY <1>1 DEF IInv, TypeOK, Node!TypeOK
  <2>3. [Service!Next]_(Service!svars)
      BY <1>1, ServiceStep
  <2>4. Known[r] \in {"pending", "abandoned"}
      BY <2>1, <2>2, <2>3
      DEF Service!Next, Service!svars, Service!Submit, Service!Execute, Service!Answer,
          Service!Refuse, Service!Abandon, Known
  <2>5. caller[r] \in {"waiting", "cancelled"}
      BY <2>2, <2>4, KnownFacts DEF Node!CallerStates
  <2>6. r[1] = h
      BY <2>1
  <2>7. caller[r] = "cancelled" /\ http[h] \in {"timeout", "gone"}
      BY <1>1, <2>5, <2>6 DEF IInv, CallersOfOpen
  <2>8. ASSUME NEW j \in 1 .. Calls
        PROVE  /\ j < k => caller[<<h, j>>] = "value"
               /\ j > k => caller[<<h, j>>] = "idle"
    <3>1. caller[<<h, k>>] = "cancelled"
        BY <2>1, <2>7
    <3>2. j \in Nat /\ k \in Nat
        BY CallsAssumption
    <3> QED
        BY <1>1, <3>1, <3>2 DEF IInv, InTurn
  <2> QED
      BY <2>1, <2>7, <2>8
<1> QED
    BY <1>1, Invariance, PTL DEF Spec, OneCallOutlives

-----------------------------------------------------------------------------
(* Every turn of a backend helps everybody who waits.                      *)

LEMMA SameDistance ==
    ASSUME NEW r \in Requests
    PROVE  /\ Node!Round(r) = NP!Round(r) /\ Node!Round(r)' = NP!Round(r)'
           /\ Node!Place(r) = NP!Place(r) /\ Node!Place(r)' = NP!Place(r)'
           /\ Node!Stage = NP!Stage /\ Node!Stage' = NP!Stage'
           /\ Svm!Left(r) = SP!Left(r) /\ Svm!Left(r)' = SP!Left(r)'
  BY DEF Node!Round, NP!Round, Node!Place, NP!Place, Node!PlaceIn, NP!PlaceIn,
         Node!Stage, NP!Stage, Node!Queued, NP!Queued, Node!Carries, NP!Carries,
         Svm!Left, SP!Left, Svm!Place, SP!Place, Svm!Queued, SP!Queued,
         Svm!Carries, SP!Carries

\* All that others than the thread and the stopper do to the channel is to put a
\* call at its end.
LEMMA ChannelAside ==
    ASSUME IInv, [Next]_vars, ~SvmTurn, ~SendTerminate
    PROVE  /\ UNCHANGED <<thread, held>>
           /\ \/ channel' = channel
              \/ \E r \in Requests : channel' = Append(channel, SP!SvmRequest(r))
<1>1. CASE Quiet
    BY <1>1 DEF Quiet, svmown
<1>2. CASE \E h \in Handlers : TimeOut(h) \/ HangUp(h)
    BY <1>2 DEF TimeOut, HangUp, Drop, svmown
<1>3. ASSUME NEW h \in Handlers, NEW k \in 1 .. Calls, Call(h, k)
      PROVE  /\ UNCHANGED <<thread, held>>
             /\ \/ channel' = channel
                \/ \E r \in Requests : channel' = Append(channel, SP!SvmRequest(r))
  <2>1. PICK r \in Requests : r = <<h, k>>
      BY DEF Requests
  <2>2. CASE UNCHANGED svmown
      BY <2>2 DEF svmown
  <2>3. CASE SP!Submit(r) \/ SP!SubmitRefused(r)
      BY <2>3 DEF SP!Submit, SP!SubmitRefused
  <2> QED
      BY <1>3, <2>1, <2>2, <2>3, SameCalls DEF Call, Submit
<1>4. CASE Return
    BY <1>4 DEF Return, svmown
<1>5. CASE ClientTurn \/ ClientStops \/ ConnectionLost
    BY <1>5 DEF ClientTurn, ClientStops, ConnectionLost, svmown
<1> QED
    BY <1>1, <1>2, <1>3, <1>4, <1>5, QuietSteps DEF Next, Handle

\* The steps that leave the backend's queue alone, or put a message at its end.
LEMMA MockAside ==
    ASSUME IInv, Mock, [Next]_vars, ~SvmTurn
    PROVE  /\ UNCHANGED <<thread, held>>
           /\ \/ channel' = channel
              \/ \E m \in SP!Message : channel' = Append(channel, m)
<1>1. CASE SendTerminate
    BY <1>1, SameThread, SP!MessageFacts DEF SendTerminate, SP!SendTerminate
<1>2. CASE ~SendTerminate
    BY <1>2, ChannelAside, SP!MessageFacts
<1> QED
    BY <1>1, <1>2

LEMMA NodeAside ==
    ASSUME IInv, ~Mock, [Next]_vars, ~ClientTurn, NEW r \in Requests,
           caller[r] = "waiting", caller'[r] = "waiting"
    PROVE  \/ \E s \in Requests : NP!Submit(s)
           \/ UNCHANGED <<queue, current, task>>
<1>1. CASE Quiet
    BY <1>1 DEF Quiet, nodeown
<1>2. CASE \E h \in Handlers : TimeOut(h) \/ HangUp(h)
    BY <1>2 DEF TimeOut, HangUp, Drop, nodeown
<1>3. ASSUME NEW h \in Handlers, NEW k \in 1 .. Calls, Call(h, k)
      PROVE  \/ \E s \in Requests : NP!Submit(s)
             \/ UNCHANGED <<queue, current, task>>
  <2>1. PICK s \in Requests : s = <<h, k>>
      BY DEF Requests
  <2>2. NP!Submit(s) \/ NP!SubmitRefused(s)
      BY <1>3, <2>1, SameCalls DEF Call, Submit
  <2> QED
      BY <2>2 DEF NP!SubmitRefused
<1>4. CASE ConnectionLost
    BY <1>4, SameTurn DEF ConnectionLost, NP!ConnectionLost
<1>5. ~ClientStops
    BY SameTurn, NP!CtrlCAnswers, RetriesAssumption DEF ClientStops, IInv, Backend
<1>6. ~Return
    BY NobodyWaits DEF Return
<1>7. ~(SvmTurn \/ SendTerminate)
    BY DEF SvmTurn, SendTerminate
<1> QED
    BY <1>1, <1>2, <1>3, <1>4, <1>5, <1>6, <1>7, QuietSteps DEF Next, Handle

LEMMA MockHelps ==
    ASSUME IInv, IInv', Mock, [Next]_vars, NEW r \in Requests,
           caller[r] = "waiting", caller'[r] = "waiting"
    PROVE  IF SvmTurn THEN Svm!Left(r)' < Svm!Left(r) ELSE UNCHANGED Svm!Left(r)
<1>1. SP!SvmInv
    BY DEF IInv, Backend
<1>2. Mock'
    BY DEF Next, built, vars, Mock, Start, Accept, Handle, Ok, Error, Call, Reply, TimeOut, HangUp,
           Drop, Drain, Drained, Return, Exit, ClientTurn, ClientStops, ConnectionLost, SvmTurn,
           Listen, ShutdownSignalPanics, StopperGivesUp, CtrlC, SigTerm, Signal, SendTerminate
<1>3. SP!SvmInv'
    BY <1>2 DEF IInv, Backend
<1>4. CASE SvmTurn
  <2>1. SP!Turn
      BY <1>4, SameThread DEF SvmTurn, Svm!Turn, SP!Turn
  <2> QED
      BY <1>1, <1>3, <1>4, <2>1, SP!TurnHelps, SameDistance
<1>5. CASE ~SvmTurn
  <2>1. SP!Pending(r)
      BY <1>1 DEF SP!SvmInv, SP!Waiters
  <2> QED
      BY <1>1, <1>3, <1>5, <2>1, MockAside, SP!SendersStandAside, SameDistance
<1> QED
    BY <1>4, <1>5

LEMMA NodeHelps ==
    ASSUME IInv, IInv', ~Mock, [Next]_vars, NEW r \in Requests,
           caller[r] = "waiting", caller'[r] = "waiting"
    PROVE  IF ClientTurn THEN Node!Nearer(r)
           ELSE UNCHANGED <<Node!Round(r), Node!Place(r), Node!Stage>>
<1>1. NP!IInv
    BY DEF IInv, Backend
<1>2. ~Mock'
    BY DEF Next, built, vars, Mock, Start, Accept, Handle, Ok, Error, Call, Reply, TimeOut, HangUp,
           Drop, Drain, Drained, Return, Exit, ClientTurn, ClientStops, ConnectionLost, SvmTurn,
           Listen, ShutdownSignalPanics, StopperGivesUp, CtrlC, SigTerm, Signal, SendTerminate
<1>3. NP!IInv'
    BY <1>2 DEF IInv, Backend
<1>4. CASE ClientTurn
  <2>1. NP!Turn
      BY <1>4, SameTurn DEF ClientTurn
  <2>2. [NP!Next]_(NP!vars)
      BY <2>1 DEF NP!Next
  <2>3. NP!Nearer(r)
      BY <1>1, <1>3, <2>1, <2>2, NP!TurnStep, RetriesAssumption
  <2> QED
      BY <1>4, <2>3, SameDistance DEF NP!Nearer, Node!Nearer
<1>5. CASE ~ClientTurn
  <2>1. NP!Pending(r)
      BY <1>1 DEF NP!IInv, NP!NoWaiterForgotten
  <2>2. CASE \E s \in Requests : NP!Submit(s)
      BY <1>1, <1>3, <1>5, <2>1, <2>2, NP!SubmitAside, RetriesAssumption, SameDistance
  <2>3. CASE UNCHANGED <<queue, current, task>>
      BY <1>5, <2>3, NP!KeptAside, RetriesAssumption, SameDistance
  <2> QED
      BY <1>5, <2>2, <2>3, NodeAside
<1> QED
    BY <1>4, <1>5

\* Over either backend everybody who waits is nearer to his answer after each of
\* its turns, and never farther from it.
THEOREM TurnsHelp == Spec => EveryTurnHelps
<1>1. IInv /\ IInv' /\ [Next]_vars =>
        [\A r \in Requests :
           caller[r] = "waiting" =>
               \/ caller'[r] # "waiting"
               \/ IF Mock
                  THEN IF SvmTurn THEN Svm!Left(r)' < Svm!Left(r) ELSE UNCHANGED Svm!Left(r)
                  ELSE IF ClientTurn THEN Node!Nearer(r)
                       ELSE UNCHANGED <<Node!Round(r), Node!Place(r), Node!Stage>>]_vars
    BY MockHelps, NodeHelps
<1> QED
    BY <1>1, Invariance, PTL DEF Spec, EveryTurnHelps

-----------------------------------------------------------------------------
(* The shutdown.                                                           *)

\* terminateSvm is in the channel once, from when it is sent until the thread
\* has ended.
Termination ==
    /\ SP!OneEnd
    /\ stopper # "sent" => ~SP!EndInSight
    /\ stopper = "sent" /\ thread # "ended" => SP!EndInSight

LEMMA SameEnd ==
    /\ Svm!UntilEnd = SP!UntilEnd /\ Svm!UntilEnd' = SP!UntilEnd'
    /\ SP!EndInSight <=> \E i \in 1 .. Len(channel) : channel[i] = Svm!TerminateSvm
  BY DEF Svm!UntilEnd, SP!UntilEnd, Svm!TerminatePlace, SP!TerminatePlace,
         Svm!TerminateSvm, SP!TerminateSvm, SP!EndInSight, SP!IsEnd

\* What the thread works with has its type over the node, too.
LEMMA ThreadTypes == IInv => channel \in Seq(SP!Message)
  BY DEF IInv, TypeOK, Svm!Message, SP!Message, Svm!TerminateSvm, SP!TerminateSvm

LEMMA StopperMoves ==
    ASSUME [Next]_vars
    PROVE  \/ stopper' = stopper /\ ~SendTerminate
           \/ stopper = "waiting" /\ stopper' = "gone" /\ ~SendTerminate
           \/ stopper = "waiting" /\ stopper' = "sent" /\ SendTerminate
  BY DEF Next, Start, Accept, Handle, Ok, Error, Reply, Call, TimeOut, HangUp, Drop, Drain,
         Drained, Return, Exit, ClientTurn, ClientStops, ConnectionLost, SvmTurn, Listen,
         ShutdownSignalPanics, StopperGivesUp, CtrlC, SigTerm, Signal, SendTerminate,
         signals, vars

LEMMA TerminationStep == IInv /\ Termination /\ [Next]_vars => Termination'
<1> SUFFICES ASSUME IInv, Termination, [Next]_vars PROVE Termination'
    OBVIOUS
<1>0. channel \in Seq(SP!Message)
    BY ThreadTypes
<1>1. CASE SvmTurn
  <2>1. SP!Turn /\ stopper' = stopper
      BY <1>1, SameThread DEF SvmTurn, Svm!Turn, SP!Turn, signals
  <2>2. thread # "ended"
      BY <2>1 DEF SP!Turn, SP!Take, SP!Finish, SP!Stop
  <2> QED
      BY <1>0, <2>1, <2>2, SP!TurnEnds DEF Termination
<1>2. CASE SendTerminate
  <2>1. SP!SendTerminate /\ stopper = "waiting" /\ stopper' = "sent"
      BY <1>2, SameThread DEF SendTerminate
  <2> QED
      BY <1>0, <2>1, SP!EndSent DEF Termination
<1>3. CASE ~SvmTurn /\ ~SendTerminate
  <2>1. /\ UNCHANGED thread
        /\ \/ channel' = channel
           \/ \E r \in Requests : channel' = Append(channel, SP!SvmRequest(r))
      BY <1>3, ChannelAside
  <2>2. stopper' = stopper \/ (stopper # "sent" /\ stopper' # "sent")
      BY <1>3, StopperMoves
  <2>3. SP!OneEnd' /\ (SP!EndInSight' <=> SP!EndInSight)
      BY <1>0, <2>1, SP!SendersLetEnd DEF Termination
  <2> QED
      BY <2>1, <2>2, <2>3 DEF Termination
<1> QED
    BY <1>1, <1>2, <1>3

\* Nothing loses terminateSvm: as long as the thread runs the message is on its
\* way to it, so that a shutdown of the mock's build cannot get stuck behind it.
TerminateInSight ==
    stopper = "sent" /\ Svm!Running =>
        \E i \in 1 .. Len(channel) : channel[i] = Svm!TerminateSvm

LEMMA TerminationInvariance == Spec => [](IInv /\ Termination)
<1>1. Init => Termination
    BY DEF Init, Svm!Init, Termination, SP!OneEnd, SP!EndInSight
<1>2. IInv /\ Termination /\ [Next]_vars => Termination'
    BY TerminationStep
<1> QED
    BY <1>1, <1>2, Invariance, PTL DEF Spec

THEOREM TerminateNotLost == Spec => []TerminateInSight
<1>1. Termination => TerminateInSight
    BY SameEnd DEF Termination, TerminateInSight, Svm!Running
<1> QED
    BY <1>1, TerminationInvariance, PTL

LEMMA ThreadEnds ==
    ASSUME IInv, Termination, [Next]_vars, stopper = "sent"
    PROVE  IF SvmTurn THEN Svm!UntilEnd' < Svm!UntilEnd ELSE UNCHANGED Svm!UntilEnd
<1>0. channel \in Seq(SP!Message) /\ SP!OneEnd
    BY ThreadTypes DEF Termination
<1>1. CASE SvmTurn
  <2>1. SP!Turn
      BY <1>1, SameThread DEF SvmTurn, Svm!Turn, SP!Turn
  <2>2. thread # "ended"
      BY <2>1 DEF SP!Turn, SP!Take, SP!Finish, SP!Stop
  <2> QED
      BY <1>0, <1>1, <2>1, <2>2, SP!TurnEnds, SameEnd DEF Termination
<1>2. CASE ~SvmTurn
  <2>1. ~SendTerminate
      BY DEF SendTerminate
  <2>2. /\ UNCHANGED thread
        /\ \/ channel' = channel
           \/ \E r \in Requests : channel' = Append(channel, SP!SvmRequest(r))
      BY <1>2, <2>1, ChannelAside
  <2>3. CASE thread = "ended"
      BY <1>2, <2>2, <2>3, SameEnd DEF SP!UntilEnd
  <2>4. CASE thread # "ended"
      BY <1>0, <1>2, <2>2, <2>4, SP!SendersLetEnd, SameEnd DEF Termination
  <2> QED
      BY <2>3, <2>4
<1> QED
    BY <1>1, <1>2

\* The server lets nobody in once it drains, and nobody comes back.
LEMMA NobodyElseIn ==
    ASSUME IInv, [Next]_vars, server \in {"draining", "ended"}
    PROVE  OpenOnes' \subseteq OpenOnes
<1>1. http \in [Handlers -> {"new", "open", "ok", "error", "timeout", "gone"}]
    BY DEF IInv, TypeOK
<1>2. CASE http' = http
    BY <1>2 DEF OpenOnes
<1>3. ASSUME NEW h \in Handlers, NEW o \in {"ok", "error", "timeout", "gone"},
             http' = [http EXCEPT ![h] = o]
      PROVE  OpenOnes' \subseteq OpenOnes
    BY <1>1, <1>3 DEF OpenOnes
<1>4. \/ http' = http
      \/ \E h \in Handlers, o \in {"ok", "error", "timeout", "gone"} :
           http' = [http EXCEPT ![h] = o]
    BY DEF Next, Start, Accept, Handle, Ok, Error, Reply, Call, TimeOut, HangUp, Drop, Drain,
           Drained, Return, Exit, ClientTurn, ClientStops, ConnectionLost, SvmTurn, Listen,
           ShutdownSignalPanics, StopperGivesUp, CtrlC, SigTerm, Signal, SendTerminate, vars
<1> QED
    BY <1>2, <1>3, <1>4

LEMMA NoStepBack ==
    ASSUME IInv, IInv', [Next]_vars, server \in {"draining", "ended"}
    PROVE  IF Drained \/ Return \/ Exit THEN StepsLeft' < StepsLeft ELSE StepsLeft' <= StepsLeft
<1>1. /\ process \in {"running", "leaving", "exited", "killed"}
      /\ process' \in {"running", "leaving", "exited", "killed"}
    BY DEF IInv, TypeOK
<1>2. CASE Drained
    BY <1>2 DEF Drained, StepsLeft, signals
<1>3. CASE Return
    BY <1>3 DEF Return, StepsLeft
<1>4. CASE Exit
    BY <1>4 DEF Exit, StepsLeft
<1>5. CASE ~(Drained \/ Return \/ Exit)
  <2>1. UNCHANGED server
      BY <1>5
      DEF Next, Start, Accept, Handle, Ok, Error, Reply, Call, TimeOut, HangUp, Drop, Drain,
          ClientTurn, ClientStops, ConnectionLost, SvmTurn, Listen,
          ShutdownSignalPanics, StopperGivesUp, CtrlC, SigTerm, Signal, SendTerminate, vars
  <2>2. UNCHANGED process \/ process' = "killed"
      BY <1>5
      DEF Next, Start, Accept, Handle, Ok, Error, Reply, Call, TimeOut, HangUp, Drop, Drain,
          ClientTurn, ClientStops, ConnectionLost, SvmTurn, Listen,
          ShutdownSignalPanics, StopperGivesUp, CtrlC, SigTerm, Signal, SendTerminate, vars
  <2> QED
      BY <1>1, <1>5, <2>1, <2>2 DEF StepsLeft
<1> QED
    BY <1>2, <1>3, <1>4, <1>5

\* Whatever handlers, signals and backends do meanwhile, a shutdown only ever
\* goes on.
THEOREM ShutdownAdvances == Spec => ShutdownGoesOn
<1>1. IInv /\ IInv' /\ Termination /\ [Next]_vars =>
        [/\ server \in {"draining", "ended"} =>
              /\ OpenOnes' \subseteq OpenOnes
              /\ IF Drained \/ Return \/ Exit THEN StepsLeft' < StepsLeft
                                               ELSE StepsLeft' <= StepsLeft
         /\ stopper = "sent" => IF SvmTurn THEN Svm!UntilEnd' < Svm!UntilEnd
                                           ELSE UNCHANGED Svm!UntilEnd]_vars
    BY ThreadEnds, NobodyElseIn, NoStepBack
<1> QED
    BY <1>1, TerminationInvariance, PTL DEF Spec, ShutdownGoesOn
=============================================================================
