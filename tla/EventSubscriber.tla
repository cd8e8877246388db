--------------------------- MODULE EventSubscriber ---------------------------
(***************************************************************************)
(* src/src/event/mod.rs: the task that subscribes to the finalized blocks  *)
(* of the node and hands the events its filters ask for to their channels. *)
(*                                                                         *)
(* There is no client at first and after every failed subscription; the    *)
(* task then connects, and sleeps a second whether it did or not.  With a  *)
(* client it subscribes and follows the stream to its end, when it         *)
(* subscribes again with the same client.  A block whose events cannot be  *)
(* had is skipped.                                                         *)
(*                                                                         *)
(* The chain and the subxt client are modelled from how the task uses      *)
(* them.  A subscription starts at the block finalized last and leaves no  *)
(* block out while it lasts.  A client decodes with the metadata of the    *)
(* runtime it met when it connected.                                       *)
(***************************************************************************)
EXTENDS Naturals, Sequences

CONSTANTS Filters,       \* the subscriber's filters
          Kinds,         \* pallet and variant name of an event
          Wants,         \* the kind each filter asks for
          MaxBlocks,     \* bound on the finalized blocks
          MaxEvents,     \* bound on the events of a block
          MaxUpgrades,   \* bound on the upgrades of the runtime
          MaxFaults      \* bound on lost connections and failed calls

ASSUME WantsAssumption  == Wants \in [Filters -> Kinds]
ASSUME BoundsAssumption == {MaxBlocks, MaxEvents, MaxUpgrades, MaxFaults} \subseteq Nat

VARIABLES chain,     \* the finalized blocks, the genesis block left out
          runtime,   \* the version of the runtime that builds the next block
          faults,    \* faults so far
          link,      \* "none": client is None; "up", "down": its connection
          metadata,  \* the runtime version the client decodes for
          phase,     \* where the task is
          cursor,    \* the block the subscription gives next
          buffered,  \* the last block the stream had got when its connection broke
          block,     \* the block whose events are being handled
          decoded,   \* how many of them can be decoded
          pos,       \* the next of them
          session,   \* history: subscriptions so far
          start,     \* history: the block the first of them started at
          given,     \* history: what each filter's channel was sent
          lost       \* history: blocks that were skipped, at least in part

world == <<chain, runtime>>
hist  == <<session, start, given, lost>>
inner == <<buffered, block, decoded, pos>>
vars  == <<world, faults, link, metadata, phase, cursor, inner, hist>>

Phases == {"top", "sleep", "stream", "fetch", "send"}
Height   == Len(chain)

\* A fault happens if `needed`; what must fail anyway is none.
Fault(needed) == IF needed THEN faults < MaxFaults /\ faults' = faults + 1
                           ELSE UNCHANGED faults

Init == /\ chain = <<>>
        /\ runtime = 0
        /\ faults = 0
        /\ link = "none"
        /\ metadata = 0
        /\ phase = "top"
        /\ cursor = 1
        /\ buffered = 0 /\ block = 0 /\ decoded = 0 /\ pos = 1
        /\ session = 0
        /\ start = 0
        /\ given = [f \in Filters |-> <<>>]
        /\ lost = {}

-----------------------------------------------------------------------------
(* The node.                                                               *)

Finalize(events) ==
    /\ Height < MaxBlocks
    /\ chain' = Append(chain, [runtime |-> runtime, events |-> events])
    /\ UNCHANGED <<runtime, faults, link, metadata, phase, cursor, inner, hist>>

Upgrade ==
    /\ runtime < MaxUpgrades
    /\ runtime' = runtime + 1
    /\ UNCHANGED <<chain, faults, link, metadata, phase, cursor, inner, hist>>

\* What a stream has received already it still gives.
ConnectionLost ==
    /\ link = "up"
    /\ link' = "down"
    /\ Fault(TRUE)
    /\ buffered' \in {0} \cup {b \in cursor .. Height : phase \in {"stream", "fetch", "send"}}
    /\ UNCHANGED <<world, metadata, phase, cursor, block, decoded, pos, hist>>

-----------------------------------------------------------------------------
(* The task.                                                               *)

\* OnlineClient::from_url(..).await.ok(), then the sleep.
Connect ==
    /\ phase = "top"
    /\ link = "none"
    /\ link' = "up"
    /\ metadata' = runtime
    /\ phase' = "sleep"
    /\ UNCHANGED <<world, faults, cursor, inner, hist>>

ConnectFails ==
    /\ phase = "top"
    /\ link = "none"
    /\ Fault(TRUE)
    /\ phase' = "sleep"
    /\ UNCHANGED <<world, link, metadata, cursor, inner, hist>>

WakeUp ==
    /\ phase = "sleep"
    /\ phase' = "top"
    /\ UNCHANGED <<world, faults, link, metadata, cursor, inner, hist>>

\* subscribe_finalized() starts at block n, and what is finalized but was not
\* taken yet from the stream before is never taken.
SubscribeAt(n) ==
    /\ phase = "top"
    /\ link = "up"
    /\ cursor' = n
    /\ phase' = "stream"
    /\ session' = session + 1
    /\ start' = IF session = 0 THEN n ELSE start
    /\ lost' = lost \cup (cursor .. n - 1)
    /\ UNCHANGED <<world, faults, link, metadata, inner, given>>

\* Fault variant: the subscription starts at the first block.
Subscribe_Genesis == SubscribeAt(1)

\* The block finalized last comes first; the genesis block has no events.
Subscribe == SubscribeAt(IF Height = 0 THEN 1 ELSE Height)

\* Fault variant: the client is kept and tried again after the sleep.
SubscribeFails_Keep ==
    /\ phase = "top"
    /\ link # "none"
    /\ Fault(link = "up")
    /\ phase' = "sleep"
    /\ UNCHANGED <<world, link, metadata, cursor, inner, hist>>

\* subscribe_finalized() is an error: client = None.
SubscribeFails ==
    /\ phase = "top"
    /\ link # "none"
    /\ Fault(link = "up")
    /\ link' = "none"
    /\ UNCHANGED <<world, metadata, phase, cursor, inner, hist>>

\* blocks.next() is a block.
TakeBlock ==
    /\ phase = "stream"
    /\ cursor <= IF link = "up" THEN Height ELSE buffered
    /\ block' = cursor
    /\ cursor' = cursor + 1
    /\ phase' = "fetch"
    /\ UNCHANGED <<world, faults, link, metadata, buffered, decoded, pos, hist>>

\* blocks.next() is an error or the end of the stream.
StreamEnds ==
    /\ phase = "stream"
    /\ Fault(link = "up")
    /\ phase' = "top"
    /\ buffered' = 0
    /\ UNCHANGED <<world, link, metadata, cursor, block, decoded, pos, hist>>

\* Fault variant: an event that no filter can make anything of ends the block.
FetchEvents_Partial(n) ==
    /\ phase = "fetch"
    /\ link = "up"
    /\ n \in 0 .. Len(chain[block].events)
    /\ decoded' = n
    /\ pos' = 1
    /\ phase' = "send"
    /\ lost' = IF n < Len(chain[block].events) THEN lost \cup {block} ELSE lost
    /\ UNCHANGED <<world, faults, link, metadata, cursor, buffered, block, session, start,
                   given>>

\* block.events() succeeds.  Its iterator stops at the first event that the
\* client's metadata does not describe.
FetchEvents(n) ==
    /\ phase = "fetch"
    /\ link = "up"
    /\ n \in 0 .. Len(chain[block].events)
    /\ metadata = chain[block].runtime => n = Len(chain[block].events)
    /\ decoded' = n
    /\ pos' = 1
    /\ phase' = "send"
    /\ lost' = IF n < Len(chain[block].events) THEN lost \cup {block} ELSE lost
    /\ UNCHANGED <<world, faults, link, metadata, cursor, buffered, block, session, start,
                   given>>

\* Fault variant: the same block is tried again.
FetchFails_Retry ==
    /\ phase = "fetch"
    /\ Fault(link = "up")
    /\ UNCHANGED <<world, link, metadata, phase, cursor, inner, hist>>

\* block.events() is an error: on to the next block.
FetchFails ==
    /\ phase = "fetch"
    /\ Fault(link = "up")
    /\ phase' = "stream"
    /\ lost' = lost \cup {block}
    /\ UNCHANGED <<world, link, metadata, cursor, inner, session, start, given>>

Sent == [session |-> session, block |-> block, pos |-> pos]

\* Fault variant: the names are not compared.
SendEvent_Any ==
    /\ phase = "send"
    /\ pos <= decoded
    /\ given' = [f \in Filters |-> Append(given[f], Sent)]
    /\ pos' = pos + 1
    /\ UNCHANGED <<world, faults, link, metadata, phase, cursor, buffered, block, decoded,
                   session, start, lost>>

\* Fault variant: the event goes to the first filter that asks for it.
SendEvent_One ==
    /\ phase = "send"
    /\ pos <= decoded
    /\ LET want == {f \in Filters : Wants[f] = chain[block].events[pos]}
       IN  given' = [f \in Filters |->
                       IF want # {} /\ f = CHOOSE g \in want : TRUE
                       THEN Append(given[f], Sent) ELSE given[f]]
    /\ pos' = pos + 1
    /\ UNCHANGED <<world, faults, link, metadata, phase, cursor, buffered, block, decoded,
                   session, start, lost>>

\* One event goes to the channel of every filter that asks for its kind.
SendEvent ==
    /\ phase = "send"
    /\ pos <= decoded
    /\ given' = [f \in Filters |->
                   IF Wants[f] = chain[block].events[pos]
                   THEN Append(given[f], Sent) ELSE given[f]]
    /\ pos' = pos + 1
    /\ UNCHANGED <<world, faults, link, metadata, phase, cursor, buffered, block, decoded,
                   session, start, lost>>

BlockDone ==
    /\ phase = "send"
    /\ pos > decoded
    /\ phase' = "stream"
    /\ UNCHANGED <<world, faults, link, metadata, cursor, inner, hist>>

Step ==
    \/ Connect \/ ConnectFails \/ WakeUp
    \/ Subscribe \/ SubscribeFails
    \/ TakeBlock \/ StreamEnds
    \/ \E n \in 0 .. MaxEvents : FetchEvents(n)
    \/ FetchFails
    \/ SendEvent \/ BlockDone

Next ==
    \/ \E n \in 0 .. MaxEvents : \E events \in [1 .. n -> Kinds] : Finalize(events)
    \/ Upgrade
    \/ ConnectionLost
    \/ Step

Spec == Init /\ [][Next]_vars

\* The runtime polls the task; the node answers a call or drops the connection.
FairSpec == Spec /\ WF_vars(Step)

-----------------------------------------------------------------------------
(* Properties.                                                             *)

Feed == INSTANCE EventFeed

TypeOK ==
    /\ chain \in Seq(Feed!Block)
    /\ \A b \in 1 .. Height : Len(chain[b].events) <= MaxEvents
    /\ runtime \in Nat /\ metadata \in Nat /\ faults \in Nat /\ session \in Nat
    /\ link \in {"none", "up", "down"}
    /\ phase \in Phases
    /\ cursor \in 1 .. Height + 1
    /\ buffered \in 0 .. Height
    /\ block \in 0 .. Height
    /\ decoded \in Nat /\ pos \in 1 .. decoded + 1
    /\ start \in 0 .. Height + 1
    /\ given \in [Filters -> Seq(Feed!Event)]
    /\ lost \subseteq 1 .. Height

\* The task implements the feed: only events that were asked for, of finalized
\* blocks, in order.
FeedSpec == Feed!Spec

\* What a receiver gets is in the order of the chain, whatever happened to the
\* connection in between; an event comes twice only from two subscriptions,
\* and then nothing of another block comes in between.
InOrder ==
    \A f \in Filters : \A j \in 1 .. Len(given[f]) : \A i \in 1 .. j - 1 :
        Feed!Precedes(given[f][i], given[f][j])

Wanted(f, b) == {i \in 1 .. Len(chain[b].events) : Wants[f] = chain[b].events[i]}
GivenTo(f, b, i) ==
    \E j \in 1 .. Len(given[f]) : given[f][j].block = b /\ given[f][j].pos = i

\* Behind the cursor every wanted event of every block was sent to every filter
\* that wants it, unless the block is one that was skipped: the loop forgets
\* nothing between two subscriptions, or between two filters.
NoSilentGap ==
    \A b \in 1 .. cursor - 1 :
        \/ b \in lost
        \/ b = block /\ phase \in {"fetch", "send"}
        \/ \A f \in Filters : \A i \in Wanted(f, b) : GivenTo(f, b, i)

\* Without a fault and without an upgrade the only blocks lost are those
\* finalized before the first subscription.
LossNeedsFault == faults = 0 /\ runtime = 0 => \A b \in lost : b < start

\* The subscriber always gets back to a working subscription.
Recovers == []<>(phase = "stream" /\ link = "up")

\* Every finalized block is handed over or skipped, none is waited for forever.
Settled(b) == \/ b \in lost
              \/ \A f \in Filters : \A i \in Wanted(f, b) : GivenTo(f, b, i)

EveryBlockSettled == \A b \in 1 .. MaxBlocks : Height >= b ~> Height >= b /\ Settled(b)

\* How far block b is from being settled: the blocks the stream gives before
\* it, and what the task has to do before it takes the next.
Ahead(b) == IF cursor <= b THEN b + 1 - cursor ELSE 0
Chores ==
    CASE phase = "fetch"                   -> MaxEvents + 8
      [] phase = "send"                    -> decoded + 8 - pos
      [] phase = "stream" /\ link = "up"   -> 0
      [] phase = "top"    /\ link = "up"   -> 1
      [] phase = "sleep"  /\ link = "up"   -> 2
      [] phase = "top"    /\ link = "none" -> 3
      [] phase = "sleep"  /\ link = "none" -> 4
      [] phase = "top"    /\ link = "down" -> 5
      [] OTHER                             -> 6

Nearer(b) == \/ Ahead(b)' < Ahead(b)
             \/ Ahead(b)' = Ahead(b) /\ Chores' < Chores

\* Each step of the task in which nothing fails takes every finalized block
\* nearer to being settled, through reconnections and the end of subscriptions
\* too, and no block or upgrade that comes meanwhile puts one off.
EveryStepHelps ==
    [][faults' = faults =>
          \A b \in 1 .. Height :
              \/ Settled(b)'
              \/ IF Step THEN Nearer(b) ELSE UNCHANGED <<Ahead(b), Chores>>]_vars
=============================================================================
