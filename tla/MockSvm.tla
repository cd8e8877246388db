------------------------------- MODULE MockSvm -------------------------------
(***************************************************************************)
(* The mock backend: the thread of src/src/rpc/solana/mock/svm.rs and the  *)
(* calls of src/src/rpc/solana/mock/mod.rs, `execute`.                     *)
(*                                                                         *)
(* A handler puts a request on an unbounded channel and waits on a oneshot *)
(* for the result.  One blocking thread owns the LiteSVM and polls the     *)
(* channel; nothing but the message terminateSvm ends it, not even that    *)
(* all senders are gone.                                                   *)
(***************************************************************************)
EXTENDS Naturals, Sequences

CONSTANT Requests   \* the requests ever made, each one once

VARIABLES channel,  \* messages sent and not yet received
          thread,   \* "polling", "working" on a request, or "ended"
          held,     \* the message it works on, or Nothing
          caller,   \* what each caller of execute is doing
          sent      \* history: how often the SVM was given each request

svmvars == <<channel, thread, held, caller, sent>>

SvmRequest(r) == [method |-> "request", id |-> r]
TerminateSvm  == [method |-> "terminateSvm"]
Nothing       == [method |-> "none"]

Message == [method : {"request"}, id : Requests] \cup {TerminateSvm}

Carries(m, r) == m.method = "request" /\ m.id = r
Queued(r)     == \E i \in 1 .. Len(channel) : Carries(channel[i], r)
Pending(r)    == Queued(r) \/ Carries(held, r)

Running == thread # "ended"

Init == /\ channel = <<>>
        /\ thread = "polling"
        /\ held = Nothing
        /\ caller = [r \in Requests |-> "idle"]
        /\ sent = [r \in Requests |-> 0]

-----------------------------------------------------------------------------
\* execute: send the request and wait ...
Submit(r) ==
    /\ caller[r] = "idle"
    /\ Running
    /\ channel' = Append(channel, SvmRequest(r))
    /\ caller' = [caller EXCEPT ![r] = "waiting"]
    /\ UNCHANGED <<thread, held, sent>>

\* ... or fail, when the thread's receiver is gone.
SubmitRefused(r) ==
    /\ caller[r] = "idle"
    /\ ~Running
    /\ caller' = [caller EXCEPT ![r] = "closed"]
    /\ UNCHANGED <<channel, thread, held, sent>>

\* Fault variant: the request is looked at and left in the channel.
Take_Peeking ==
    /\ thread = "polling"
    /\ channel # <<>>
    /\ Head(channel).method = "request"
    /\ held' = Head(channel)
    /\ sent' = [sent EXCEPT ![Head(channel).id] = @ + 1]
    /\ thread' = "working"
    /\ UNCHANGED <<channel, caller>>

\* try_recv: from here on nothing keeps the SVM from executing the request.
Take ==
    /\ thread = "polling"
    /\ channel # <<>>
    /\ Head(channel).method = "request"
    /\ channel' = Tail(channel)
    /\ held' = Head(channel)
    /\ sent' = [sent EXCEPT ![Head(channel).id] = @ + 1]
    /\ thread' = "working"
    /\ UNCHANGED caller

\* The result goes to the caller, or nowhere if there is none any more.
Finish(outcome) ==
    /\ thread = "working"
    /\ caller' = [caller EXCEPT ![held.id] = IF @ = "waiting" THEN outcome ELSE @]
    /\ held' = Nothing
    /\ thread' = "polling"
    /\ UNCHANGED <<channel, sent>>

\* Fault variant: the thread ends when it has nothing else to do.
Stop_WhenIdle ==
    /\ thread = "polling"
    /\ channel = <<TerminateSvm>>
    /\ thread' = "ended"
    /\ channel' = <<>>
    /\ UNCHANGED <<held, caller, sent>>

\* terminateSvm: the receiver is dropped with all that is behind the message.
Stop ==
    /\ thread = "polling"
    /\ channel # <<>>
    /\ Head(channel) = TerminateSvm
    /\ thread' = "ended"
    /\ channel' = <<>>
    /\ caller' = [r \in Requests |->
                    IF caller[r] = "waiting" /\ Queued(r) THEN "closed" ELSE caller[r]]
    /\ UNCHANGED <<held, sent>>

Turn == Take \/ (\E outcome \in {"value", "error"} : Finish(outcome)) \/ Stop

\* Somebody sends terminateSvm, and does not wait.
SendTerminate ==
    /\ Running
    /\ channel' = Append(channel, TerminateSvm)
    /\ UNCHANGED <<thread, held, caller, sent>>

TypeOK ==
    /\ channel \in Seq(Message)
    /\ thread \in {"polling", "working", "ended"}
    /\ held \in Message \cup {Nothing}
    /\ caller \in [Requests -> {"idle", "waiting", "value", "error", "closed", "cancelled"}]
    /\ sent \in [Requests -> Nat]
\* How far the answer to a waiting request is: to take a message and to finish
\* it is two steps.
Place(r) == IF Queued(r) THEN CHOOSE i \in 1 .. Len(channel) : Carries(channel[i], r) ELSE 0
Left(r)  == IF thread = "working" THEN 2 * Place(r) + 1 ELSE 2 * Place(r)

\* The same for the end of the thread, when terminateSvm is on its way.
TerminatePlace == CHOOSE i \in 1 .. Len(channel) : channel[i] = TerminateSvm
UntilEnd == CASE thread = "ended"   -> 0
              [] thread = "polling" -> 2 * TerminatePlace
              [] thread = "working" -> 2 * TerminatePlace + 1
=============================================================================
