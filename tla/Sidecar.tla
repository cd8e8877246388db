------------------------------- MODULE Sidecar -------------------------------
(***************************************************************************)
(* The process as a whole: src/src/main.rs, src/src/server.rs and          *)
(* src/src/rpc/mod.rs, over one of its two backends, the node client       *)
(* (NodeClient) or, with the cargo feature "mock", the mock SVM (MockSvm). *)
(*                                                                         *)
(* The server takes HTTP requests; a handler makes calls of the backend,   *)
(* one after the other, and answers.  A timeout layer drops the handler    *)
(* that takes too long, and so does hyper when its peer hangs up.          *)
(*                                                                         *)
(* Ctrl-C and SIGTERM reach whoever listens for them at that time: the     *)
(* server, which then drains; the client task, which ends; the mock's      *)
(* stopper, which sends terminateSvm.  When the server ends main returns   *)
(* and the runtime drops every task, but waits for a blocking thread.      *)
(***************************************************************************)
EXTENDS Naturals, Sequences, FiniteSets

CONSTANTS Handlers,  \* the HTTP requests ever made
          Calls,     \* calls of the backend a handler makes at most
          Retries    \* retries of the node client

ASSUME CallsAssumption == Calls \in Nat
ASSUME RetriesAssumption == Retries \in Nat

Requests == Handlers \X (1 .. Calls)

VARIABLES feature,   \* the backend the process was built with
          listener,  \* whether it can install a Ctrl-C listener
          queue, task, current, client, tries,   \* of NodeClient
          channel, thread, held,                 \* of MockSvm
          caller, sent,                          \* of either
          http,      \* what each HTTP request has come to
          server,    \* "starting", "serving", "draining" or "ended"
          stopper,   \* the mock's task that awaits Ctrl-C
          ears,      \* the tasks that listen for signals
          heard,     \* and those that have heard one
          process    \* "running", "leaving" main, "exited" or "killed"

built   == <<feature, listener>>
nodeown == <<queue, task, current, client, tries>>
svmown  == <<channel, thread, held>>
calls   == <<caller, sent>>
signals == <<stopper, ears, heard>>
vars    == <<built, nodeown, svmown, calls, http, server, signals, process>>

Node == INSTANCE NodeClient
Svm  == INSTANCE MockSvm

Mock == feature = "mock"

-----------------------------------------------------------------------------
Init == /\ feature \in {"node", "mock"}
        /\ Node!Init
        /\ Svm!Init
        /\ http = [h \in Handlers |-> "new"]
        /\ server = "starting"
        /\ stopper = "waiting"
        /\ ears = {}
        /\ heard = {}
        /\ process = "running"

-----------------------------------------------------------------------------
(* The server.                                                             *)

\* join! polls the server's future: the address is parsed and bound, or
\* server.run returns an error, which join! hands to nobody.
Start(bound) ==
    /\ process = "running"
    /\ server = "starting"
    /\ server' = IF bound THEN "serving" ELSE "ended"
    /\ UNCHANGED <<built, nodeown, svmown, calls, http, signals, process>>

\* Fault variant: connections are accepted as long as there is a server.
Accept_Always(h) ==
    /\ process = "running"
    /\ server \in {"serving", "draining"}
    /\ http[h] = "new"
    /\ http' = [http EXCEPT ![h] = "open"]
    /\ UNCHANGED <<built, nodeown, svmown, calls, server, signals, process>>

Accept(h) ==
    /\ process = "running"
    /\ server = "serving"
    /\ http[h] = "new"
    /\ http' = [http EXCEPT ![h] = "open"]
    /\ UNCHANGED <<built, nodeown, svmown, calls, server, signals, process>>

\* The graceful shutdown has been asked for: nothing is accepted any more.
Drain ==
    /\ process = "running"
    /\ server = "serving"
    /\ "server" \in heard
    /\ server' = "draining"
    /\ UNCHANGED <<built, nodeown, svmown, calls, http, signals, process>>

\* Fault variant: no graceful shutdown.
Drained_AtOnce ==
    /\ process = "running"
    /\ server = "draining"
    /\ server' = "ended"
    /\ UNCHANGED <<built, nodeown, svmown, calls, http, signals, process>>

\* Every connection is through with its request.
Drained ==
    /\ process = "running"
    /\ server = "draining"
    /\ \A h \in Handlers : http[h] # "open"
    /\ server' = "ended"
    /\ UNCHANGED <<built, nodeown, svmown, calls, http, signals, process>>

-----------------------------------------------------------------------------
(* A handler.                                                              *)

Open(h) == process = "running" /\ http[h] = "open"

Submit(r) ==
    IF Mock THEN /\ Svm!Submit(r) \/ Svm!SubmitRefused(r)
                 /\ UNCHANGED nodeown
            ELSE /\ Node!Submit(r) \/ Node!SubmitRefused(r)
                 /\ UNCHANGED svmown

\* Fault variant: the calls are made all at once.
Call_Joined(h, k) ==
    /\ Open(h)
    /\ Submit(<<h, k>>)
    /\ UNCHANGED <<built, http, server, signals, process>>

\* The next call, when the one before gave a value.
Call(h, k) ==
    /\ Open(h)
    /\ k > 1 => caller[<<h, k - 1>>] = "value"
    /\ Submit(<<h, k>>)
    /\ UNCHANGED <<built, http, server, signals, process>>

Reply(h, outcome) ==
    /\ http' = [http EXCEPT ![h] = outcome]
    /\ UNCHANGED <<built, nodeown, svmown, calls, server, signals, process>>

\* The method is through with its calls, however many it has.
Ok(h) ==
    /\ Open(h)
    /\ \A k \in 1 .. Calls : caller[<<h, k>>] \in {"idle", "value"}
    /\ Reply(h, "ok")

\* A call has failed, or the method finds fault with its parameters.
Error(h) ==
    /\ Open(h)
    /\ \A k \in 1 .. Calls : caller[<<h, k>>] # "waiting"
    /\ Reply(h, "error")

\* The handler's future is dropped, and the oneshot receiver it waits on.
Drop(h, outcome) ==
    /\ Open(h)
    /\ http' = [http EXCEPT ![h] = outcome]
    /\ caller' = [r \in Requests |->
                    IF r[1] = h /\ caller[r] = "waiting" THEN "cancelled" ELSE caller[r]]
    /\ UNCHANGED <<built, nodeown, svmown, sent, server, signals, process>>

\* Fault variant: the time is looked at between calls only.
TimeOut_BetweenCalls(h) ==
    /\ \A k \in 1 .. Calls : caller[<<h, k>>] # "waiting"
    /\ Drop(h, "timeout")

\* REQUEST_TIMEOUT.
TimeOut(h) == Drop(h, "timeout")

\* The peer closes its connection, or the handler panics.
HangUp(h) == Drop(h, "gone")

-----------------------------------------------------------------------------
(* The backends run on their own.                                          *)

ClientTurn ==
    /\ process = "running"
    /\ ~Mock
    /\ Node!Turn
    /\ UNCHANGED <<feature, svmown, http, server, signals, process>>

ClientStops ==
    /\ process = "running"
    /\ ~Mock
    /\ "client" \in heard
    /\ Node!CtrlC
    /\ UNCHANGED <<feature, svmown, http, server, signals, process>>

ConnectionLost ==
    /\ process = "running"
    /\ ~Mock
    /\ Node!ConnectionLost
    /\ UNCHANGED <<feature, svmown, http, server, signals, process>>

\* The thread goes on while main is being left.
SvmTurn ==
    /\ process \in {"running", "leaving"}
    /\ Mock
    /\ Svm!Turn
    /\ UNCHANGED <<built, nodeown, http, server, signals, process>>

-----------------------------------------------------------------------------
(* Signals.                                                                *)

Listeners == {"server", IF Mock THEN "stopper" ELSE "client"}

\* Whoever awaits signal::ctrl_c() installs the listener on its first poll, the
\* server once it is bound, the client in its loop.
Listen(task_) ==
    /\ process = "running"
    /\ listener
    /\ task_ \in Listeners \ ears
    /\ task_ = "server" => server = "serving"
    /\ ears' = ears \cup {task_}
    /\ UNCHANGED <<built, nodeown, svmown, calls, http, server, stopper, heard, process>>

\* Without one shutdown_signal panics.  That drops what the server watches, as
\* a signal does.
ShutdownSignalPanics ==
    /\ process = "running"
    /\ ~listener
    /\ server = "serving"
    /\ server' = "draining"
    /\ UNCHANGED <<built, nodeown, svmown, calls, http, signals, process>>

\* And the stopper goes away.
StopperGivesUp ==
    /\ process = "running"
    /\ Mock
    /\ ~listener
    /\ stopper = "waiting"
    /\ stopper' = "gone"
    /\ UNCHANGED <<built, nodeown, svmown, calls, http, server, ears, heard, process>>

\* A signal that finds no listener has its default effect.
Signal(audience) ==
    /\ process \in {"running", "leaving"}
    /\ IF audience = {} THEN process' = "killed" /\ UNCHANGED heard
                        ELSE heard' = heard \cup audience /\ UNCHANGED process
    /\ UNCHANGED <<built, nodeown, svmown, calls, http, server, stopper, ears>>

\* Everyone who listens hears Ctrl-C; the server alone awaits SIGTERM.
CtrlC   == Signal(ears)
SigTerm == Signal(ears \cap {"server"})

SendTerminate ==
    /\ process = "running"
    /\ Mock
    /\ stopper = "waiting"
    /\ "stopper" \in heard
    /\ stopper' = "sent"
    /\ Svm!SendTerminate
    /\ UNCHANGED <<built, nodeown, http, server, ears, heard, process>>

-----------------------------------------------------------------------------
(* The end.                                                                *)

\* join! waits for the server alone: the other futures are ready as soon as
\* they have spawned their tasks.  Then the runtime drops these.
Return ==
    /\ process = "running"
    /\ server = "ended"
    /\ process' = "leaving"
    /\ stopper' = IF stopper = "waiting" THEN "gone" ELSE stopper
    /\ IF Mock THEN UNCHANGED <<nodeown, caller>>
               ELSE /\ Node!DropReceiver
                    /\ task' = IF Node!TaskAlive THEN "stopped" ELSE task
                    /\ UNCHANGED <<client, tries>>
    /\ UNCHANGED <<built, svmown, sent, http, server, ears, heard>>

\* The runtime waits for a thread that spawn_blocking started.
Exit ==
    /\ process = "leaving"
    /\ Mock => ~Svm!Running
    /\ process' = "exited"
    /\ UNCHANGED <<built, nodeown, svmown, calls, http, server, signals>>

-----------------------------------------------------------------------------
Handle(h) == Ok(h) \/ Error(h) \/ (\E k \in 1 .. Calls : Call(h, k))

Next ==
    \/ \E bound \in BOOLEAN : Start(bound)
    \/ \E h \in Handlers : Accept(h) \/ Handle(h) \/ TimeOut(h) \/ HangUp(h)
    \/ Drain \/ Drained \/ Return \/ Exit
    \/ ClientTurn \/ ClientStops \/ ConnectionLost \/ SvmTurn
    \/ (\E t \in Listeners : Listen(t)) \/ ShutdownSignalPanics \/ StopperGivesUp
    \/ CtrlC \/ SigTerm \/ SendTerminate

\* Tasks and threads run; the timer of the timeout layer fires.  No signal need
\* come, no peer need hang up.
Fairness ==
    /\ WF_vars(\E bound \in BOOLEAN : Start(bound))
    /\ WF_vars(Drain \/ Drained \/ Return \/ Exit)
    /\ WF_vars(ClientTurn \/ ClientStops)
    /\ WF_vars(SvmTurn)
    /\ WF_vars(SendTerminate)
    /\ WF_vars(ShutdownSignalPanics)
    /\ \A h \in Handlers : WF_vars(Handle(h)) /\ WF_vars(TimeOut(h))

Spec     == Init /\ [][Next]_vars
FairSpec == Spec /\ Fairness

-----------------------------------------------------------------------------
(* Properties.                                                             *)

TypeOK ==
    /\ feature \in {"node", "mock"}
    /\ Node!TypeOK
    /\ channel \in Seq(Svm!Message)
    /\ thread \in {"polling", "working", "ended"}
    /\ held \in Svm!Message \cup {Svm!Nothing}
    /\ http \in [Handlers -> {"new", "open", "ok", "error", "timeout", "gone"}]
    /\ server \in {"starting", "serving", "draining", "ended"}
    /\ stopper \in {"waiting", "sent", "gone"}
    /\ heard \subseteq ears
    /\ ears \subseteq Listeners
    /\ process \in {"running", "leaving", "exited", "killed"}

\* Whoever waits for the backend has a message there, and a backend that will
\* get to it; he is a handler somebody waits for; and the server does not end
\* before everybody it has let in has an answer.
NobodyStranded ==
    /\ \A r \in Requests :
          caller[r] = "waiting" =>
              /\ http[r[1]] = "open"
              /\ IF Mock THEN Svm!Running /\ Svm!Pending(r)
                         ELSE Node!TaskAlive /\ Node!Pending(r)
    /\ server = "ended" \/ process \in {"leaving", "exited"} =>
          \A h \in Handlers : http[h] # "open"

\* A request that is over takes effect no further than it got.  Once it is
\* answered none of its calls is executed any more, whatever is in the queues,
\* retried or dropped at the end; once its handler was dropped, one call still may
\* be, the one it waited for, and what it would have done next never is.
OneCallOutlives ==
    [][\A h \in Handlers, k \in 1 .. Calls :
          http[h] \notin {"new", "open"} /\ sent'[<<h, k>>] # sent[<<h, k>>] =>
              /\ http[h] \in {"timeout", "gone"}
              /\ caller[<<h, k>>] = "cancelled"
              /\ \A j \in 1 .. Calls : /\ j < k => caller[<<h, j>>] = "value"
                                       /\ j > k => caller[<<h, j>>] = "idle"]_vars

\* Either backend keeps the promise of RequestService, from the start of the
\* process to its end.
Service == INSTANCE RequestService WITH status <- Node!statusBar, executions <- sent

ServiceSpec == Service!Spec

\* Over either backend, each of its turns brings everybody who waits nearer to
\* his answer, and nothing else that goes on in the process puts one off: other
\* handlers' calls, their timeouts, lost connections, signals and the shutdown.
EveryTurnHelps ==
    [][\A r \in Requests :
          caller[r] = "waiting" =>
              \/ caller'[r] # "waiting"
              \/ IF Mock
                 THEN IF SvmTurn THEN Svm!Left(r)' < Svm!Left(r) ELSE UNCHANGED Svm!Left(r)
                 ELSE IF ClientTurn THEN Node!Nearer(r)
                      ELSE UNCHANGED <<Node!Round(r), Node!Place(r), Node!Stage>>]_vars

\* What is left of a shutdown: who has yet to be answered, and the steps of the
\* server, of main and of the runtime.
OpenOnes  == {h \in Handlers : http[h] = "open"}
StepsLeft == CASE process \in {"exited", "killed"} -> 0
               [] process = "leaving"              -> 1
               [] process = "running"              -> IF server = "ended" THEN 2 ELSE 3

\* A shutdown that has begun is never set back: nobody is let in any more, each
\* step takes the process nearer to its end, and with terminateSvm in the queue
\* each turn of the mock's thread takes that nearer to its own, though handlers
\* go on adding requests to the queue.
ShutdownGoesOn ==
    [][/\ server \in {"draining", "ended"} =>
             /\ OpenOnes' \subseteq OpenOnes
             /\ IF Drained \/ Return \/ Exit THEN StepsLeft' < StepsLeft
                                              ELSE StepsLeft' <= StepsLeft
       /\ stopper = "sent" => IF SvmTurn THEN Svm!UntilEnd' < Svm!UntilEnd
                                         ELSE UNCHANGED Svm!UntilEnd]_vars

\* Every request that is let in comes to an end.
HandlersEnd == \A h \in Handlers : http[h] = "open" ~> http[h] # "open" \/ process = "killed"

\* A process whose server shuts down ends; with the mock, if terminateSvm was
\* sent, too.
Ends ==
    server \in {"draining", "ended"} /\ (Mock => stopper = "sent")
        ~> process \in {"exited", "killed"}
=============================================================================
