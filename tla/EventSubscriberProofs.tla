------------------------ MODULE EventSubscriberProofs ------------------------
(* Theorems about EventSubscriber and their proofs. *)
EXTENDS EventSubscriber, TLAPS

\* Where the task is in the stream.
Positions ==
    /\ phase \in {"fetch", "send"} => block = cursor - 1 /\ block \in 1 .. Height
    /\ phase = "send" => decoded <= Len(chain[block].events)

\* What was sent lies behind the task's position: strictly so what this
\* subscription sent, and at it at most what the one before did.
Behind(e) ==
    /\ e.session <= session
    /\ e.block <= Height
    /\ phase = "stream" => /\ e.block <= cursor
                           /\ e.session = session => e.block < cursor
    /\ phase = "fetch"  => /\ e.block <= block
                           /\ e.session = session => e.block < block
    /\ phase = "send"   => /\ e.block <= block
                           /\ e.session = session /\ e.block = block => e.pos < pos

AllBehind == \A f \in Filters : \A j \in 1 .. Len(given[f]) : Behind(given[f][j])

\* The part of the current block that was handled.
HalfDone ==
    phase = "send" =>
        /\ decoded = Len(chain[block].events) \/ block \in lost
        /\ \A f \in Filters : \A i \in Wanted(f, block) : i < pos => GivenTo(f, block, i)

IInv == TypeOK /\ Positions /\ AllBehind /\ InOrder

-----------------------------------------------------------------------------
\* Appending an element leaves the others where they are.
LEMMA AppendFacts ==
    ASSUME NEW S, NEW s \in Seq(S), NEW e \in S
    PROVE  /\ Append(s, e) \in Seq(S)
           /\ Len(Append(s, e)) = Len(s) + 1
           /\ Append(s, e)[Len(s) + 1] = e
           /\ \A i \in 1 .. Len(s) : Append(s, e)[i] = s[i]
OBVIOUS

\* A new finalized block: the chain grows at its end.
LEMMA FinalizeFacts ==
    ASSUME TypeOK, NEW n \in 0 .. MaxEvents, NEW events \in [1 .. n -> Kinds],
           Finalize(events)
    PROVE  /\ chain' \in Seq(Feed!Block)
           /\ Len(chain') = Len(chain) + 1
           /\ chain' = Append(chain, chain'[Len(chain')])
           /\ chain'[Len(chain')] \in Feed!Block
           /\ Len(chain'[Len(chain')].events) = n
           /\ \A b \in 1 .. Len(chain) : chain'[b] = chain[b]
<1> DEFINE new == [runtime |-> runtime, events |-> events]
<1>1. events \in Seq(Kinds) /\ Len(events) = n
  OBVIOUS
<1>2. new \in Feed!Block
  BY <1>1 DEF TypeOK, Feed!Block
<1>3. chain \in Seq(Feed!Block) /\ chain' = Append(chain, new)
  BY DEF Finalize, TypeOK
<1> HIDE DEF new
<1>4. /\ chain' \in Seq(Feed!Block)
      /\ Len(chain') = Len(chain) + 1
      /\ chain'[Len(chain) + 1] = new
      /\ \A b \in 1 .. Len(chain) : chain'[b] = chain[b]
  BY <1>2, <1>3, AppendFacts
<1>5. Len(new.events) = n
  BY <1>1 DEF new
<1> QED
  BY <1>2, <1>3, <1>4, <1>5

\* A step of the task or of the world but Finalize leaves the chain alone.
LEMMA ChainKept ==
    ASSUME Upgrade \/ ConnectionLost \/ Step
    PROVE  chain' = chain
BY DEF Upgrade, ConnectionLost, Step, Connect, ConnectFails, WakeUp, Subscribe, SubscribeAt,
       SubscribeFails, TakeBlock, StreamEnds, FetchEvents, FetchFails, SendEvent, BlockDone,
       world

\* Only SendEvent adds to what was given.
LEMMA GivenKept ==
    ASSUME Next, ~SendEvent
    PROVE  given' = given
BY DEF Next, Finalize, Upgrade, ConnectionLost, Step, Connect, ConnectFails, WakeUp, Subscribe,
       SubscribeAt, SubscribeFails, TakeBlock, StreamEnds, FetchEvents, FetchFails, BlockDone,
       hist

\* What SendEvent does to the channel of one filter.
LEMMA SendFacts ==
    ASSUME TypeOK, SendEvent, NEW f \in Filters
    PROVE  /\ Sent \in Feed!Event
           /\ given'[f] = IF Wants[f] = chain[block].events[pos]
                          THEN Append(given[f], Sent) ELSE given[f]
           /\ given'[f] \in Seq(Feed!Event)
           /\ \A j \in 1 .. Len(given[f]) :
                 j \in 1 .. Len(given'[f]) /\ given'[f][j] = given[f][j]
           /\ \A j \in 1 .. Len(given'[f]) :
                 \/ j \in 1 .. Len(given[f])
                 \/ j = Len(given[f]) + 1 /\ given'[f][j] = Sent
           /\ Wants[f] = chain[block].events[pos] =>
                 /\ Len(given'[f]) = Len(given[f]) + 1
                 /\ given'[f][Len(given[f]) + 1] = Sent
<1>1. Sent \in Feed!Event
  BY DEF TypeOK, Sent, Feed!Event
<1>2. given[f] \in Seq(Feed!Event)
  BY DEF TypeOK
<1>3. given'[f] = IF Wants[f] = chain[block].events[pos]
                  THEN Append(given[f], Sent) ELSE given[f]
  BY DEF SendEvent
<1> HIDE DEF Sent
<1>4. CASE Wants[f] = chain[block].events[pos]
  BY <1>1, <1>2, <1>3, <1>4, AppendFacts
<1>5. CASE Wants[f] # chain[block].events[pos]
  BY <1>1, <1>2, <1>3, <1>5
<1> QED
  BY <1>4, <1>5

-----------------------------------------------------------------------------
LEMMA InitTypeOK == Init => TypeOK
BY DEF Init, TypeOK, Height, Phases, Feed!Block, Feed!Event

LEMMA FinalizeTypeOK ==
    ASSUME TypeOK, NEW n \in 0 .. MaxEvents, NEW events \in [1 .. n -> Kinds],
           Finalize(events)
    PROVE  TypeOK'
<1>1. /\ chain' \in Seq(Feed!Block)
      /\ Height' = Height + 1
      /\ \A b \in 1 .. Height' : Len(chain'[b].events) <= MaxEvents
  <2>1. /\ chain' \in Seq(Feed!Block)
        /\ Len(chain') = Len(chain) + 1
        /\ Len(chain'[Len(chain')].events) = n
        /\ \A b \in 1 .. Len(chain) : chain'[b] = chain[b]
    BY FinalizeFacts
  <2>2. \A b \in 1 .. Len(chain) : Len(chain[b].events) <= MaxEvents
    BY DEF TypeOK, Height
  <2>3. Len(chain) \in Nat
    BY DEF TypeOK
  <2> QED
    BY <2>1, <2>2, <2>3 DEF Height
<1>2. UNCHANGED <<runtime, faults, link, metadata, phase, cursor, inner, hist>>
  BY DEF Finalize
<1>3. Height \in Nat
  BY DEF TypeOK, Height
<1> QED
  BY <1>1, <1>2, <1>3 DEF TypeOK, inner, hist, Feed!Block

LEMMA StepTypeOK ==
    ASSUME TypeOK, Positions, Upgrade \/ ConnectionLost \/ Step
    PROVE  TypeOK'
<1>1. /\ Height \in Nat /\ Height' = Height /\ chain' = chain
      /\ chain' \in Seq(Feed!Block)
      /\ \A b \in 1 .. Height' : Len(chain'[b].events) <= MaxEvents
  BY ChainKept DEF TypeOK, Height
<1>2. \A needed \in BOOLEAN : Fault(needed) => faults' \in Nat
  BY DEF TypeOK, Fault
<1>3. CASE SendEvent
  <2>1. given' \in [Filters -> Seq(Feed!Event)]
    BY <1>3, SendFacts DEF SendEvent
  <2>2. pos' \in 1 .. decoded' + 1 /\ decoded' \in Nat
    BY <1>3 DEF TypeOK, SendEvent
  <2> QED
    BY <1>1, <1>3, <2>1, <2>2 DEF TypeOK, SendEvent, world
<1>4. CASE ~SendEvent
  <2>1. given' \in [Filters -> Seq(Feed!Event)]
    BY <1>4, GivenKept DEF Next, TypeOK
  <2>2. CASE Upgrade
    BY <1>1, <2>1, <2>2 DEF TypeOK, Upgrade, inner, hist
  <2>3. CASE ConnectionLost
    <3>1. buffered' \in 0 .. Height
      BY <1>1, <2>3 DEF TypeOK, ConnectionLost
    <3>2. UNCHANGED <<runtime, metadata, phase, cursor, block, decoded, pos, session, start, lost>>
      BY <2>3 DEF ConnectionLost, world, hist
    <3>3. faults' \in Nat /\ link' = "down"
      BY <1>2, <2>3 DEF ConnectionLost
    <3> QED
      BY <1>1, <2>1, <3>1, <3>2, <3>3 DEF TypeOK
  <2>4. CASE Connect \/ WakeUp
    BY <1>1, <2>1, <2>4 DEF TypeOK, Connect, WakeUp, inner, hist, world, Phases
  <2>5. CASE ConnectFails
    BY <1>1, <1>2, <2>1, <2>5 DEF TypeOK, ConnectFails, inner, hist, world, Phases
  <2>6. CASE Subscribe
    <3>1. /\ cursor' \in 1 .. Height + 1
          /\ start' \in 0 .. Height + 1
          /\ lost' \subseteq 1 .. Height
          /\ session' \in Nat
          /\ phase' \in Phases
      BY <1>1, <2>6 DEF TypeOK, Subscribe, SubscribeAt, Phases
    <3> QED
      BY <1>1, <2>1, <2>6, <3>1 DEF TypeOK, Subscribe, SubscribeAt, inner, world
  <2>7. CASE SubscribeFails
    BY <1>1, <1>2, <2>1, <2>7 DEF TypeOK, SubscribeFails, inner, hist, world
  <2>8. CASE StreamEnds
    <3>1. phase' \in Phases /\ buffered' \in 0 .. Height
      BY <1>1, <2>8 DEF StreamEnds, Phases
    <3>2. faults' \in Nat
      BY <2>8 DEF TypeOK, StreamEnds, Fault
    <3>3. UNCHANGED <<runtime, link, metadata, cursor, block, decoded, pos, session, start, lost>>
      BY <2>8 DEF StreamEnds, world, hist
    <3> QED
      BY <1>1, <2>1, <3>1, <3>2, <3>3 DEF TypeOK
  <2>9. CASE BlockDone
    BY <1>1, <2>1, <2>9 DEF TypeOK, BlockDone, inner, hist, world, Phases
  <2>10. CASE TakeBlock
    <3>1. cursor <= Height
      BY <1>1, <2>10 DEF TypeOK, TakeBlock
    <3> QED
      BY <1>1, <2>1, <2>10, <3>1 DEF TypeOK, TakeBlock, hist, world, Phases
  <2>11. CASE \E n \in 0 .. MaxEvents : FetchEvents(n)
    BY <1>1, <2>1, <2>11 DEF TypeOK, Positions, FetchEvents, world, Phases
  <2>12. CASE FetchFails
    BY <1>1, <1>2, <2>1, <2>12 DEF TypeOK, Positions, FetchFails, inner, world, Phases
  <2> QED
    BY <1>4, <2>2, <2>3, <2>4, <2>5, <2>6, <2>7, <2>8, <2>9, <2>10, <2>11, <2>12 DEF Step
<1> QED
  BY <1>3, <1>4

-----------------------------------------------------------------------------
LEMMA PositionsKept ==
    ASSUME TypeOK, Positions, Next
    PROVE  Positions'
<1>1. CASE \E n \in 0 .. MaxEvents : \E events \in [1 .. n -> Kinds] : Finalize(events)
  <2>1. PICK n \in 0 .. MaxEvents : \E events \in [1 .. n -> Kinds] : Finalize(events)
    BY <1>1
  <2>2. PICK events \in [1 .. n -> Kinds] : Finalize(events)
    BY <2>1
  <2>3. /\ Len(chain') = Len(chain) + 1
        /\ \A b \in 1 .. Len(chain) : chain'[b] = chain[b]
    BY <2>2, FinalizeFacts
  <2> QED
    BY <2>2, <2>3 DEF Positions, Finalize, Height, TypeOK, inner
<1>2. CASE Upgrade \/ ConnectionLost \/ Step
  <2>1. chain' = chain
    BY <1>2, ChainKept
  <2>2. CASE TakeBlock
    BY <2>1, <2>2 DEF Positions, TakeBlock, Height, TypeOK
  <2>3. CASE \E n \in 0 .. MaxEvents : FetchEvents(n)
    BY <2>1, <2>3 DEF Positions, FetchEvents, Height, TypeOK
  <2>4. CASE SendEvent
    BY <2>1, <2>4 DEF Positions, SendEvent, Height
  <2>5. CASE Upgrade \/ ConnectionLost
    BY <2>1, <2>5 DEF Positions, Upgrade, ConnectionLost, Height, inner
  <2>6. CASE \/ Connect \/ ConnectFails \/ WakeUp \/ Subscribe \/ StreamEnds \/ FetchFails
             \/ BlockDone
    BY <2>6 DEF Positions, Connect, ConnectFails, WakeUp, Subscribe, SubscribeAt, StreamEnds,
       FetchFails, BlockDone
  <2>7. CASE SubscribeFails
    BY <2>7 DEF Positions, SubscribeFails
  <2> QED
    BY <1>2, <2>2, <2>3, <2>4, <2>5, <2>6, <2>7 DEF Step
<1> QED
  BY <1>1, <1>2 DEF Next

\* What lies behind the task stays behind it.
LEMMA BehindKept ==
    ASSUME TypeOK, Positions, Next, NEW e \in Feed!Event, Behind(e)
    PROVE  Behind(e)'
<1> USE DEF Feed!Event
<1>0. Height \in Nat
  BY DEF TypeOK, Height
<1>1. CASE \E n \in 0 .. MaxEvents : \E events \in [1 .. n -> Kinds] : Finalize(events)
  <2>1. PICK n \in 0 .. MaxEvents : \E events \in [1 .. n -> Kinds] : Finalize(events)
    BY <1>1
  <2>2. PICK events \in [1 .. n -> Kinds] : Finalize(events)
    BY <2>1
  <2>3. Height' = Height + 1
    BY <2>2, FinalizeFacts DEF Height
  <2> QED
    BY <1>0, <2>2, <2>3 DEF Behind, Finalize, inner, hist
<1>2. CASE Upgrade \/ ConnectionLost \/ Step
  <2>1. Height' = Height
    BY <1>2, ChainKept DEF Height
  <2>2. CASE Subscribe
    <3>1. /\ session' = session + 1
          /\ phase' = "stream"
          /\ cursor' = IF Height = 0 THEN 1 ELSE Height
      BY <2>2 DEF Subscribe, SubscribeAt
    <3> QED
      BY <1>0, <2>1, <3>1 DEF Behind, TypeOK
  <2>3. CASE TakeBlock
    BY <1>0, <2>1, <2>3 DEF Behind, TakeBlock, TypeOK, hist
  <2>4. CASE \E n \in 0 .. MaxEvents : FetchEvents(n)
    BY <1>0, <2>1, <2>4 DEF Behind, FetchEvents, TypeOK
  <2>5. CASE FetchFails
    BY <1>0, <2>1, <2>5 DEF Behind, FetchFails, TypeOK, Positions, inner
  <2>6. CASE SendEvent
    BY <1>0, <2>1, <2>6 DEF Behind, SendEvent, TypeOK
  <2>7. CASE BlockDone
    BY <1>0, <2>1, <2>7 DEF Behind, BlockDone, TypeOK, Positions, inner, hist
  <2>8. CASE Upgrade \/ ConnectionLost
    BY <2>1, <2>8 DEF Behind, Upgrade, ConnectionLost, inner, hist
  <2>9. CASE Connect \/ ConnectFails \/ WakeUp \/ SubscribeFails \/ StreamEnds
    BY <2>1, <2>9 DEF Behind, Connect, ConnectFails, WakeUp, SubscribeFails, StreamEnds, inner,
       hist
  <2> QED
    BY <1>2, <2>2, <2>3, <2>4, <2>5, <2>6, <2>7, <2>8, <2>9 DEF Step
<1> QED
  BY <1>1, <1>2 DEF Next

\* The event about to be sent comes after all that was sent.
LEMMA SentLast ==
    ASSUME TypeOK, Positions, SendEvent, NEW e \in Feed!Event, Behind(e)
    PROVE  Feed!Precedes(e, Sent)
BY DEF TypeOK, Positions, SendEvent, Feed!Event, Behind, Feed!Precedes, Sent

LEMMA SentBehind ==
    ASSUME TypeOK, Positions, SendEvent, NEW e \in Feed!Event, e = Sent
    PROVE  Behind(e)'
<1>1. Height' = Height /\ Height \in Nat
  BY ChainKept DEF Height, Step, TypeOK
<1> QED
  BY <1>1 DEF TypeOK, Positions, SendEvent, Behind, Sent

LEMMA OrderKept ==
    ASSUME IInv, Next
    PROVE  AllBehind' /\ InOrder'
<1> USE DEF IInv
<1>0. \A f \in Filters : given[f] \in Seq(Feed!Event)
  BY DEF TypeOK
<1>1. CASE SendEvent
  <2>0. Sent \in Feed!Event
    BY DEF TypeOK, Sent, Feed!Event
  <2>1. PICK e \in Feed!Event : e = Sent
    BY <2>0
  <2>2. Behind(e)'
    BY <1>1, <2>1, SentBehind
  <2> SUFFICES ASSUME NEW f \in Filters, NEW j \in 1 .. Len(given'[f])
               PROVE  /\ Behind(given[f][j])'
                      /\ \A i \in 1 .. j - 1 : Feed!Precedes(given'[f][i], given'[f][j])
    BY DEF AllBehind, InOrder, Feed!Precedes
  <2>3. /\ \A k \in 1 .. Len(given[f]) :
              k \in 1 .. Len(given'[f]) /\ given'[f][k] = given[f][k]
        /\ \/ j \in 1 .. Len(given[f])
           \/ j = Len(given[f]) + 1 /\ given'[f][j] = e
    BY <1>1, <2>1, SendFacts
  <2>4. CASE j \in 1 .. Len(given[f])
    <3>1. PICK d \in Feed!Event : d = given[f][j]
      BY <1>0, <2>4
    <3>2. Behind(d)'
      BY <2>4, <3>1, BehindKept DEF AllBehind
    <3>3. given'[f][j] = d
      BY <2>3, <2>4, <3>1
    <3>4. Behind(given[f][j])'
      BY <3>2, <3>3 DEF Behind
    <3>5. \A i \in 1 .. j - 1 : Feed!Precedes(given[f][i], given[f][j])
      BY <2>4 DEF InOrder
    <3>6. \A i \in 1 .. j - 1 : given'[f][i] = given[f][i]
      BY <2>3, <2>4, <1>0
    <3> QED
      BY <3>3, <3>1, <3>4, <3>5, <3>6
  <2>5. CASE j = Len(given[f]) + 1 /\ given'[f][j] = e
    <3>1. \A i \in 1 .. j - 1 : i \in 1 .. Len(given[f]) /\ given[f][i] \in Feed!Event
      BY <1>0, <2>5
    <3>2. \A i \in 1 .. j - 1 : Behind(given[f][i])
      BY <3>1 DEF AllBehind
    <3>3. \A i \in 1 .. j - 1 : Feed!Precedes(given[f][i], e)
      BY <1>1, <2>1, <3>1, <3>2, SentLast
    <3>4. Behind(given[f][j])'
      BY <2>2, <2>5 DEF Behind
    <3> QED
      BY <2>3, <2>5, <3>1, <3>3, <3>4
  <2> QED
    BY <2>3, <2>4, <2>5
<1>2. CASE ~SendEvent
  <2>1. given' = given
    BY <1>2, GivenKept
  <2>2. ASSUME NEW f \in Filters, NEW j \in 1 .. Len(given[f])
        PROVE  Behind(given[f][j])'
    <3>1. PICK d \in Feed!Event : d = given[f][j]
      BY <1>0
    <3>2. Behind(d)'
      BY <3>1, BehindKept DEF AllBehind
    <3> QED
      BY <2>1, <3>1, <3>2 DEF Behind
  <2> QED
    BY <2>1, <2>2 DEF AllBehind, InOrder, Feed!Precedes
<1> QED
  BY <1>1, <1>2

-----------------------------------------------------------------------------
LEMMA StutterIInv ==
    ASSUME IInv, UNCHANGED vars
    PROVE  IInv'
<1>1. UNCHANGED <<chain, runtime, faults, link, metadata, phase, cursor, buffered, block,
                  decoded, pos, session, start, given, lost>>
  BY DEF vars, world, inner, hist
<1>2. TypeOK'
  BY <1>1 DEF IInv, TypeOK, Height, Phases, Feed!Block, Feed!Event
<1>3. Positions' /\ AllBehind' /\ InOrder'
  BY <1>1 DEF IInv, Positions, AllBehind, Behind, InOrder, Feed!Precedes, Height
<1> QED
  BY <1>2, <1>3 DEF IInv

\* The inductive invariant: where the task is in the stream, and that all it
\* has sent lies behind it.
THEOREM Invariance == Spec => []IInv
<1>1. Init => IInv
  <2> SUFFICES ASSUME Init PROVE IInv
    OBVIOUS
  <2>1. TypeOK
    BY InitTypeOK
  <2>2. Positions /\ AllBehind /\ InOrder
    BY DEF Init, Positions, AllBehind, InOrder
  <2> QED
    BY <2>1, <2>2 DEF IInv
<1>2. IInv /\ [Next]_vars => IInv'
  <2> SUFFICES ASSUME IInv, [Next]_vars PROVE IInv'
    OBVIOUS
  <2>1. CASE Next
    <3>1. TypeOK'
      BY <2>1, FinalizeTypeOK, StepTypeOK DEF IInv, Next
    <3>2. Positions'
      BY <2>1, PositionsKept DEF IInv
    <3> QED
      BY <2>1, <3>1, <3>2, OrderKept DEF IInv
  <2> QED
    BY <2>1, StutterIInv
<1> QED
  BY <1>1, <1>2, PTL DEF Spec

\* Every variable of the subscriber keeps its type: in particular the cursor
\* stays on the chain or just past its end, over all reconnections.
THEOREM TypeCorrect == Spec => []TypeOK
<1>1. IInv => TypeOK
  BY DEF IInv
<1> QED
  BY <1>1, Invariance, PTL

\* What the run events_order finds for three blocks holds for any chain and any
\* number of faults: each channel is sent events in the order of the chain.
THEOREM SentInOrder == Spec => []InOrder
<1>1. IInv => InOrder
  BY DEF IInv
<1> QED
  BY <1>1, Invariance, PTL

-----------------------------------------------------------------------------
(* The gaps.                                                               *)

\* What was given stays given, what is lost stays lost, and a finalized block
\* does not change.
LEMMA HistoryGrows ==
    ASSUME TypeOK, Positions, Next
    PROVE  /\ lost \subseteq lost'
           /\ Height <= Height'
           /\ \A f \in Filters : \A b \in 1 .. Height : Wanted(f, b)' = Wanted(f, b)
           /\ \A f \in Filters : \A b, i : GivenTo(f, b, i) => GivenTo(f, b, i)'
<1>1. lost \subseteq lost'
  BY DEF Next, Finalize, Upgrade, ConnectionLost, Step, Connect, ConnectFails, WakeUp, Subscribe,
     SubscribeAt, SubscribeFails, TakeBlock, StreamEnds, FetchEvents, FetchFails, SendEvent,
     BlockDone, hist
<1>2. Height <= Height' /\ \A b \in 1 .. Height : chain'[b] = chain[b]
  <2>1. Height \in Nat
    BY DEF TypeOK, Height
  <2>2. ASSUME NEW n \in 0 .. MaxEvents, NEW events \in [1 .. n -> Kinds], Finalize(events)
        PROVE  Height <= Height' /\ \A b \in 1 .. Height : chain'[b] = chain[b]
    BY <2>1, <2>2, FinalizeFacts DEF Height
  <2>3. CASE Upgrade \/ ConnectionLost \/ Step
    BY <2>1, <2>3, ChainKept DEF Height
  <2> QED
    BY <2>2, <2>3 DEF Next
<1>3. \A f \in Filters : \A b \in 1 .. Height : Wanted(f, b)' = Wanted(f, b)
  BY <1>2 DEF Wanted
<1>4. ASSUME NEW f \in Filters, NEW b, NEW i, GivenTo(f, b, i)
      PROVE  GivenTo(f, b, i)'
  <2>1. PICK j \in 1 .. Len(given[f]) : given[f][j].block = b /\ given[f][j].pos = i
    BY <1>4 DEF GivenTo
  <2>2. CASE SendEvent
    BY <2>1, <2>2, SendFacts DEF GivenTo
  <2>3. CASE ~SendEvent
    BY <2>1, <2>3, GivenKept DEF GivenTo
  <2> QED
    BY <2>2, <2>3
<1> QED
  BY <1>1, <1>2, <1>3, <1>4

LEMMA HalfDoneKept ==
    ASSUME TypeOK, Positions, HalfDone, Next
    PROVE  HalfDone'
<1>1. CASE \E n \in 0 .. MaxEvents : FetchEvents(n)
  <2>1. PICK n \in 0 .. MaxEvents : FetchEvents(n)
    BY <1>1
  <2>2. /\ decoded' = n /\ block' = block /\ pos' = 1 /\ chain' = chain
        /\ n # Len(chain[block].events) => block \in lost'
    BY <2>1 DEF FetchEvents, world
  <2>3. \A f \in Filters : \A i \in Wanted(f, block)' : ~(i < 1)
    BY <2>2 DEF Wanted
  <2> QED
    BY <2>2, <2>3 DEF HalfDone
<1>2. CASE SendEvent
  <2>1. /\ block' = block /\ decoded' = decoded /\ chain' = chain /\ lost' = lost
        /\ pos' = pos + 1 /\ phase = "send" /\ pos \in Nat
    BY <1>2 DEF SendEvent, world, TypeOK
  <2>2. ASSUME NEW f \in Filters, NEW i \in Wanted(f, block), i < pos + 1
        PROVE  GivenTo(f, block, i)'
    <3>1. i \in Nat
      BY DEF Wanted
    <3>2. CASE i < pos
      BY <2>1, <3>2, HistoryGrows, <1>2 DEF HalfDone, Next, Step
    <3>3. CASE i = pos
      <4>1. Wants[f] = chain[block].events[pos]
        BY <3>3 DEF Wanted
      <4>2. /\ Len(given[f]) + 1 \in 1 .. Len(given'[f])
            /\ given'[f][Len(given[f]) + 1] = Sent
        BY <1>2, <4>1, SendFacts DEF TypeOK
      <4> QED
        BY <2>1, <3>3, <4>2 DEF GivenTo, Sent
    <3> QED
      BY <2>1, <2>2, <3>1, <3>2, <3>3
  <2>3. \A f \in Filters : Wanted(f, block)' = Wanted(f, block)
    BY <2>1 DEF Wanted
  <2>4. ASSUME NEW f \in Filters, NEW i \in Wanted(f, block)', i < pos'
        PROVE  GivenTo(f, block, i)'
    BY <2>1, <2>2, <2>3, <2>4
  <2>5. (decoded = Len(chain[block].events) \/ block \in lost)'
    BY <2>1 DEF HalfDone
  <2> QED
    BY <2>4, <2>5 DEF HalfDone
<1>3. CASE ~SendEvent /\ ~(\E n \in 0 .. MaxEvents : FetchEvents(n))
  <2>1. phase' = "send" => phase = "send" /\ UNCHANGED <<block, decoded, pos>>
    BY <1>3 DEF Next, Finalize, Upgrade, ConnectionLost, Step, Connect, ConnectFails, WakeUp,
       Subscribe, SubscribeAt, SubscribeFails, TakeBlock, StreamEnds, FetchFails, BlockDone, inner
  <2> SUFFICES ASSUME phase' = "send" PROVE HalfDone'
    BY DEF HalfDone
  <2>2. block \in 1 .. Height /\ phase = "send" /\ UNCHANGED <<block, decoded, pos>>
    BY <2>1 DEF Positions
  <2>3. chain'[block] = chain[block]
    <3>1. ASSUME NEW n \in 0 .. MaxEvents, NEW events \in [1 .. n -> Kinds], Finalize(events)
          PROVE  chain'[block] = chain[block]
      BY <2>2, <3>1, FinalizeFacts DEF Height
    <3>2. CASE Upgrade \/ ConnectionLost \/ Step
      BY <3>2, ChainKept
    <3> QED
      BY <3>1, <3>2 DEF Next
  <2>4. (decoded = Len(chain[block].events) \/ block \in lost)'
    BY <2>2, <2>3, HistoryGrows DEF HalfDone
  <2>5. ASSUME NEW f \in Filters, NEW i \in Wanted(f, block)', i < pos'
        PROVE  GivenTo(f, block, i)'
    <3>1. i \in Wanted(f, block)
      BY <2>2, <2>3 DEF Wanted
    <3>2. GivenTo(f, block, i)
      BY <2>2, <2>5, <3>1 DEF HalfDone
    <3>3. PICK b : b = block
      OBVIOUS
    <3>4. GivenTo(f, b, i)'
      BY <3>2, <3>3, HistoryGrows
    <3> QED
      BY <2>2, <3>3, <3>4 DEF GivenTo
  <2> QED
    BY <2>4, <2>5 DEF HalfDone
<1> QED
  BY <1>1, <1>2, <1>3

LEMMA NoSilentGapKept ==
    ASSUME TypeOK, Positions, HalfDone, NoSilentGap, Next
    PROVE  NoSilentGap'
<1> DEFINE Done(b) == \A f \in Filters : \A i \in Wanted(f, b) : GivenTo(f, b, i)
<1>0. Height \in Nat /\ cursor \in 1 .. Height + 1
  BY DEF TypeOK, Height
<1>1. ASSUME NEW b \in 1 .. Height, Done(b)
      PROVE  Done(b)'
  BY <1>1, HistoryGrows
<1>2. ASSUME NEW b \in 1 .. cursor - 1, b \notin lost, ~(b = block /\ phase \in {"fetch", "send"})
      PROVE  Done(b)'
  <2>1. Done(b)
    BY <1>2 DEF NoSilentGap
  <2> QED
    BY <1>0, <1>1, <2>1
<1> SUFFICES ASSUME NEW b \in 1 .. cursor' - 1, b \notin lost', ~Done(b)'
             PROVE  b = block' /\ phase' \in {"fetch", "send"}
  BY DEF NoSilentGap
<1> HIDE DEF Done
<1>3. b \notin lost
  BY HistoryGrows
<1>4. b \in 1 .. cursor - 1 => b = block /\ phase \in {"fetch", "send"}
  BY <1>2, <1>3
<1>5. CASE Subscribe
  BY <1>0, <1>4, <1>5 DEF Subscribe, SubscribeAt
<1>6. CASE TakeBlock
  BY <1>0, <1>4, <1>6 DEF TakeBlock
<1>7. CASE BlockDone
  <2>1. phase = "send" /\ pos > decoded /\ cursor' = cursor
    BY <1>7 DEF BlockDone
  <2>2. b = block /\ block \in 1 .. Height
    BY <1>4, <2>1 DEF Positions
  <2>3. decoded = Len(chain[block].events)
    BY <1>3, <2>1, <2>2 DEF HalfDone
  <2>4. \A f \in Filters : \A i \in Wanted(f, block) : i < pos
    BY <2>1, <2>3 DEF Wanted, TypeOK
  <2>5. Done(block)
    BY <2>1, <2>4 DEF HalfDone, Done
  <2> QED
    BY <1>1, <2>2, <2>5
<1>8. CASE FetchFails
  BY <1>4, <1>8 DEF FetchFails
<1>9. CASE ~(Subscribe \/ TakeBlock \/ BlockDone \/ FetchFails)
  <2>1. cursor' = cursor
    BY <1>9 DEF Next, Finalize, Upgrade, ConnectionLost, Step, Connect, ConnectFails, WakeUp,
       SubscribeFails, StreamEnds, FetchEvents, SendEvent
  <2>2. phase \in {"fetch", "send"} => phase' \in {"fetch", "send"} /\ block' = block
    BY <1>9 DEF Next, Finalize, Upgrade, ConnectionLost, Step, Connect, ConnectFails, WakeUp,
       SubscribeFails, StreamEnds, FetchEvents, SendEvent, inner
  <2> QED
    BY <1>4, <2>1, <2>2
<1> QED
  BY <1>5, <1>6, <1>7, <1>8, <1>9

LEMMA Settlement == Spec => [](HalfDone /\ NoSilentGap)
<1>1. Init => HalfDone /\ NoSilentGap
  BY DEF Init, HalfDone, NoSilentGap
<1>2. TypeOK /\ Positions /\ HalfDone /\ NoSilentGap /\ [Next]_vars => (HalfDone /\ NoSilentGap)'
  <2> SUFFICES ASSUME TypeOK, Positions, HalfDone, NoSilentGap, [Next]_vars
               PROVE  (HalfDone /\ NoSilentGap)'
    OBVIOUS
  <2>1. CASE Next
    BY <2>1, HalfDoneKept, NoSilentGapKept
  <2>2. CASE UNCHANGED vars
    BY <2>2 DEF HalfDone, NoSilentGap, Wanted, GivenTo, vars, world, inner, hist
  <2> QED
    BY <2>1, <2>2
<1>3. IInv => TypeOK /\ Positions
  BY DEF IInv
<1> QED
  BY <1>1, <1>2, <1>3, Invariance, PTL DEF Spec

\* Behind the cursor every wanted event was sent, unless its block is one that
\* was skipped, for any chain, any filters and any faults.
THEOREM GapsAccountedFor == Spec => []NoSilentGap
BY Settlement, PTL

-----------------------------------------------------------------------------
(* Every step helps: the safety half of EveryBlockSettled.                 *)

\* A call that needs no fault counts none.
LEMMA NoFault ==
    ASSUME TypeOK, faults' = faults, NEW needed \in BOOLEAN, Fault(needed)
    PROVE  ~needed
BY DEF TypeOK, Fault

\* What the chores are worth where a step starts and where it ends.
LEMMA StepHelps ==
    ASSUME TypeOK, Positions, HalfDone, NoSilentGap, Step, faults' = faults,
           NEW b \in 1 .. Height, ~Settled(b)'
    PROVE  Nearer(b)
<1>0. /\ Height \in Nat /\ cursor \in Nat /\ cursor <= Height + 1
      /\ MaxEvents \in Nat /\ decoded \in Nat /\ pos \in Nat /\ pos <= decoded + 1
      /\ link \in {"none", "up", "down"} /\ phase \in Phases
  BY BoundsAssumption DEF TypeOK, Height
<1>1. Next
  BY DEF Next
<1>2. b \notin lost' /\ b \notin lost
  BY <1>1, HistoryGrows DEF Settled
<1>3. cursor <= b \/ (b = block /\ phase \in {"fetch", "send"})
  <2> SUFFICES ASSUME ~(cursor <= b), ~(b = block /\ phase \in {"fetch", "send"})
               PROVE  FALSE
    OBVIOUS
  <2>1. b \in 1 .. cursor - 1
    BY <1>0
  <2>2. \A f \in Filters : \A i \in Wanted(f, b) : GivenTo(f, b, i)
    BY <1>2, <2>1 DEF NoSilentGap
  <2>3. Settled(b)'
    BY <1>1, <2>2, HistoryGrows DEF Settled
  <2> QED
    BY <2>3
<1>4. cursor' = cursor /\ Chores' < Chores => Nearer(b)
  BY <1>0 DEF Nearer, Ahead
<1>5. CASE Connect
  BY <1>4, <1>5 DEF Connect, Chores
<1>6. CASE ConnectFails
  BY <1>6, NoFault DEF ConnectFails
<1>7. CASE WakeUp
  BY <1>0, <1>4, <1>7 DEF WakeUp, Chores
<1>8. CASE Subscribe
  <2>1. PICK n \in Nat : n = IF Height = 0 THEN 1 ELSE Height
    BY <1>0
  <2>2. /\ phase = "top" /\ link = "up" /\ phase' = "stream" /\ link' = "up"
        /\ cursor' = n /\ lost' = lost \cup (cursor .. n - 1)
    BY <1>8, <2>1 DEF Subscribe, SubscribeAt
  <2>3. cursor <= b /\ n = Height /\ b = Height
    BY <1>0, <1>2, <1>3, <2>1, <2>2
  <2>4. Ahead(b)' = 1 /\ 1 <= Ahead(b)
    BY <1>0, <2>2, <2>3 DEF Ahead
  <2>5. Chores' = 0 /\ Chores = 1
    BY <2>2 DEF Chores
  <2>6. Ahead(b) \in Nat
    BY <1>0 DEF Ahead
  <2> QED
    BY <2>4, <2>5, <2>6 DEF Nearer
<1>9. CASE SubscribeFails
  <2>1. link = "down"
    BY <1>0, <1>9, NoFault DEF SubscribeFails
  <2> QED
    BY <1>4, <1>9, <2>1 DEF SubscribeFails, Chores
<1>10. CASE TakeBlock
  <2>1. cursor' = cursor + 1 /\ cursor <= b
    BY <1>3, <1>10 DEF TakeBlock
  <2> QED
    BY <1>0, <2>1 DEF Nearer, Ahead
<1>11. CASE StreamEnds
  <2>1. link \in {"none", "down"}
    BY <1>0, <1>11, NoFault DEF StreamEnds
  <2> QED
    BY <1>4, <1>11, <2>1 DEF StreamEnds, Chores, hist
<1>12. ASSUME NEW n \in 0 .. MaxEvents, FetchEvents(n)
       PROVE  Nearer(b)
  <2>1. /\ phase = "fetch" /\ phase' = "send" /\ decoded' = n /\ pos' = 1
        /\ cursor' = cursor
    BY <1>12 DEF FetchEvents
  <2>2. Chores = MaxEvents + 8 /\ Chores' = n + 7
    BY <1>0, <2>1 DEF Chores
  <2> QED
    BY <1>0, <1>4, <2>1, <2>2
<1>13. CASE FetchFails
  <2>1. link # "up" /\ lost' = lost \cup {block}
    BY <1>13, NoFault DEF FetchFails
  <2>2. phase = "fetch" /\ phase' = "stream" /\ link' = link /\ cursor' = cursor
    BY <1>13 DEF FetchFails
  <2> QED
    BY <1>0, <1>4, <2>1, <2>2 DEF Chores
<1>14. CASE SendEvent
  <2>1. /\ phase = "send" /\ phase' = "send" /\ decoded' = decoded /\ pos' = pos + 1
        /\ cursor' = cursor
    BY <1>14 DEF SendEvent
  <2>2. Chores = decoded + 8 - pos /\ Chores' = decoded + 8 - (pos + 1)
    BY <2>1 DEF Chores
  <2> QED
    BY <1>0, <1>4, <2>1, <2>2
<1>15. CASE BlockDone
  <2>1. phase = "send" /\ phase' = "stream" /\ link' = link /\ cursor' = cursor
    BY <1>15 DEF BlockDone
  <2>2. Chores = decoded + 8 - pos /\ Chores' \in 0 .. 6
    BY <1>0, <2>1 DEF Chores
  <2> QED
    BY <1>0, <1>4, <2>1, <2>2
<1> QED
  BY <1>5, <1>6, <1>7, <1>8, <1>9, <1>10, <1>11, <1>12, <1>13, <1>14, <1>15 DEF Step

\* Each step of the task without a fault takes every finalized block that is
\* not settled nearer to being settled; what the node does meanwhile puts none
\* off.
THEOREM StepsHelp == Spec => EveryStepHelps
<1>1. TypeOK /\ Positions /\ HalfDone /\ NoSilentGap /\ [Next]_vars =>
        [faults' = faults =>
            \A b \in 1 .. Height :
                \/ Settled(b)'
                \/ IF Step THEN Nearer(b) ELSE UNCHANGED <<Ahead(b), Chores>>]_vars
  <2> SUFFICES ASSUME TypeOK, Positions, HalfDone, NoSilentGap, Next, faults' = faults,
                      NEW b \in 1 .. Height, ~Settled(b)'
               PROVE  IF Step THEN Nearer(b) ELSE UNCHANGED <<Ahead(b), Chores>>
    OBVIOUS
  <2>1. CASE Step
    BY <2>1, StepHelps
  <2>2. CASE ~Step
    <3>1. UNCHANGED <<link, phase, cursor, decoded, pos>>
      <4>1. ~ConnectionLost
        BY NoFault DEF ConnectionLost
      <4> QED
        BY <2>2, <4>1 DEF Next, Finalize, Upgrade, inner
    <3> QED
      BY <2>2, <3>1 DEF Ahead, Chores
  <2> QED
    BY <2>1, <2>2
<1>2. Spec => [](TypeOK /\ Positions /\ HalfDone /\ NoSilentGap)
  BY Settlement, Invariance, PTL DEF IInv
<1> QED
  BY <1>1, <1>2, PTL DEF Spec, EveryStepHelps

-----------------------------------------------------------------------------
(* Losses without a fault.                                                 *)

\* As long as nothing fails and nothing is upgraded, the first subscription
\* lasts, its connection is up and its client can decode everything.
Calm ==
    faults = 0 /\ runtime = 0 =>
        /\ metadata = 0
        /\ \A b \in 1 .. Height : chain[b].runtime = 0
        /\ link # "down"
        /\ session = 0 => phase \in {"top", "sleep"} /\ cursor = 1 /\ start = 0
        /\ session # 0 => link = "up" /\ phase \in {"stream", "fetch", "send"}

\* Faults and upgrades are counted and never forgotten.
LEMMA CalmBefore ==
    ASSUME TypeOK, Next, faults' = 0, runtime' = 0
    PROVE  faults = 0 /\ runtime = 0
<1>1. faults \in Nat /\ runtime \in Nat
  BY DEF TypeOK
<1>2. faults' = faults \/ faults' = faults + 1
  BY DEF Next, Finalize, Upgrade, ConnectionLost, Step, Connect, ConnectFails, WakeUp,
     Subscribe, SubscribeAt, SubscribeFails, TakeBlock, StreamEnds, FetchEvents, FetchFails,
     SendEvent, BlockDone, Fault
<1>3. runtime' = runtime \/ runtime' = runtime + 1
  BY DEF Next, Finalize, Upgrade, ConnectionLost, Step, Connect, ConnectFails, WakeUp,
     Subscribe, SubscribeAt, SubscribeFails, TakeBlock, StreamEnds, FetchEvents, FetchFails,
     SendEvent, BlockDone, world
<1> QED
  BY <1>1, <1>2, <1>3

LEMMA CalmKept ==
    ASSUME TypeOK, Positions, Calm, LossNeedsFault, Next
    PROVE  (Calm /\ LossNeedsFault)'
<1> SUFFICES ASSUME faults' = 0, runtime' = 0
             PROVE  (Calm /\ LossNeedsFault)'
  BY DEF Calm, LossNeedsFault
<1>1. faults = 0 /\ runtime = 0
  BY CalmBefore
<1>2. /\ metadata = 0
      /\ \A b \in 1 .. Height : chain[b].runtime = 0
      /\ link # "down"
      /\ session = 0 => phase \in {"top", "sleep"} /\ cursor = 1 /\ start = 0
      /\ session # 0 => link = "up" /\ phase \in {"stream", "fetch", "send"}
      /\ \A b \in lost : b < start
  BY <1>1 DEF Calm, LossNeedsFault
<1>3. ASSUME NEW n \in 0 .. MaxEvents, NEW events \in [1 .. n -> Kinds], Finalize(events)
      PROVE  (Calm /\ LossNeedsFault)'
  <2>1. \A b \in 1 .. Height' : chain'[b].runtime = 0
    <3>1. /\ Len(chain') = Len(chain) + 1
          /\ \A b \in 1 .. Len(chain) : chain'[b] = chain[b]
      BY <1>3, FinalizeFacts
    <3>2. chain' = Append(chain, [runtime |-> runtime, events |-> events])
      BY <1>3 DEF Finalize
    <3>3. chain'[Len(chain) + 1].runtime = 0
      BY <1>1, <3>2 DEF TypeOK
    <3>4. Len(chain) \in Nat /\ Height' = Len(chain) + 1
      BY <3>1 DEF TypeOK, Height
    <3>5. ASSUME NEW b \in 1 .. Len(chain) + 1
          PROVE  chain'[b].runtime = 0
      <4>1. CASE b = Len(chain) + 1
        BY <3>3, <4>1
      <4>2. CASE b \in 1 .. Len(chain)
        BY <1>2, <3>1, <4>2 DEF Height
      <4> QED
        BY <3>4, <4>1, <4>2
    <3> QED
      BY <3>4, <3>5
  <2> QED
    BY <1>1, <1>2, <1>3, <2>1 DEF Finalize, Calm, LossNeedsFault, hist
<1>4. CASE Subscribe
  <2>1. session = 0 /\ lost = {}
    BY <1>2, <1>4 DEF Subscribe, SubscribeAt, TypeOK
  <2>2. PICK n \in Nat : SubscribeAt(n)
    BY <1>4 DEF Subscribe, TypeOK, Height
  <2>3. start' = n /\ session' = 1 /\ phase' = "stream" /\ lost' = 1 .. n - 1
    BY <1>2, <2>1, <2>2 DEF SubscribeAt
  <2> QED
    BY <1>2, <2>2, <2>3 DEF SubscribeAt, Calm, LossNeedsFault, world, Height
<1>5. ASSUME NEW n \in 0 .. MaxEvents, FetchEvents(n)
      PROVE  (Calm /\ LossNeedsFault)'
  <2>1. metadata = chain[block].runtime
    BY <1>2, <1>5 DEF FetchEvents, Positions
  <2>2. lost' = lost
    <3>1. n = Len(chain[block].events) /\ n \in Nat
      BY <1>5, <2>1 DEF FetchEvents
    <3> QED
      BY <1>5, <3>1 DEF FetchEvents
  <2>3. session # 0
    BY <1>2, <1>5 DEF FetchEvents
  <2> QED
    BY <1>2, <1>5, <2>2, <2>3 DEF FetchEvents, Calm, LossNeedsFault, world, Height
<1>6. ~(ConnectionLost \/ ConnectFails \/ SubscribeFails \/ FetchFails \/ StreamEnds)
  <2>1. ~Fault(TRUE)
    BY <1>1 DEF Fault
  <2>2. link \in {"none", "up"}
    BY <1>2 DEF TypeOK
  <2>3. ~ConnectionLost /\ ~ConnectFails
    BY <2>1 DEF ConnectionLost, ConnectFails
  <2>4. ~SubscribeFails
    BY <2>1, <2>2 DEF SubscribeFails, Fault
  <2>5. ~FetchFails /\ ~StreamEnds
    BY <1>2, <2>1 DEF FetchFails, StreamEnds, Fault
  <2> QED
    BY <2>3, <2>4, <2>5
<1>7. ~Upgrade
  BY <1>1 DEF Upgrade
<1>8. CASE Connect \/ WakeUp
  <2>1. session = 0
    BY <1>2, <1>8 DEF Connect, WakeUp
  <2> QED
    BY <1>1, <1>2, <1>8, <2>1 DEF Connect, WakeUp, Calm, LossNeedsFault, world, hist, Height
<1>9. CASE TakeBlock \/ SendEvent \/ BlockDone
  <2>1. session # 0
    BY <1>2, <1>9 DEF TakeBlock, SendEvent, BlockDone
  <2> QED
    BY <1>2, <1>9, <2>1 DEF TakeBlock, SendEvent, BlockDone, Calm, LossNeedsFault, world, hist,
       Height
<1> QED
  BY <1>3, <1>4, <1>5, <1>6, <1>7, <1>8, <1>9 DEF Next, Step

\* Without a fault and without an upgrade no block is lost but those finalized
\* before the task's first subscription.
THEOREM NothingLostInCalm == Spec => []LossNeedsFault
<1>1. Init => Calm /\ LossNeedsFault
  BY DEF Init, Calm, LossNeedsFault, Height
<1>2. TypeOK /\ Positions /\ Calm /\ LossNeedsFault /\ [Next]_vars => (Calm /\ LossNeedsFault)'
  <2> SUFFICES ASSUME TypeOK, Positions, Calm, LossNeedsFault, [Next]_vars
               PROVE  (Calm /\ LossNeedsFault)'
    OBVIOUS
  <2>1. CASE Next
    BY <2>1, CalmKept
  <2>2. CASE UNCHANGED vars
    BY <2>2 DEF Calm, LossNeedsFault, vars, world, hist, Height
  <2> QED
    BY <2>1, <2>2
<1>3. IInv => TypeOK /\ Positions
  BY DEF IInv
<1> QED
  BY <1>1, <1>2, <1>3, Invariance, PTL DEF Spec

-----------------------------------------------------------------------------
(* The promise to the receivers.                                           *)

LEMMA SendGives ==
    ASSUME IInv, SendEvent
    PROVE  Feed!Next
<1> USE DEF IInv
<1>1. block \in 1 .. Len(chain) /\ pos \in 1 .. Len(chain[block].events)
  <2>1. chain \in Seq(Feed!Block) /\ block \in 1 .. Len(chain)
    BY DEF TypeOK, Positions, SendEvent, Height
  <2>2. chain[block] \in Feed!Block
    BY <2>1
  <2>3. Len(chain[block].events) \in Nat
    BY <2>2 DEF Feed!Block
  <2> QED
    BY <2>1, <2>3 DEF TypeOK, Positions, SendEvent, Height
<1>2. \A f \in Filters : \A j \in 1 .. Len(given[f]) : Feed!Precedes(given[f][j], Sent)
  <2> TAKE f \in Filters
  <2> TAKE j \in 1 .. Len(given[f])
  <2>1. given[f][j] \in Feed!Event /\ Behind(given[f][j])
    BY DEF TypeOK, AllBehind
  <2> QED
    BY <2>1, SentLast
<1>3. Feed!Give(block, pos)
  BY <1>2 DEF Feed!Give, SendEvent, Sent, world
<1> QED
  BY <1>1, <1>3 DEF Feed!Next

\* The task implements the feed its receivers rely on: every step of it gives
\* one wanted event of a finalized block, after all that came before, or
\* gives nothing.
THEOREM Refinement == Spec => FeedSpec
<1>1. Init => Feed!Init
  BY DEF Init, Feed!Init
<1>2. IInv /\ [Next]_vars => [Feed!Next]_(Feed!vars)
  <2> SUFFICES ASSUME IInv, [Next]_vars PROVE Feed!Next \/ UNCHANGED Feed!vars
    OBVIOUS
  <2>1. ASSUME NEW n \in 0 .. MaxEvents, NEW events \in [1 .. n -> Kinds], Finalize(events)
        PROVE  Feed!Finalize
    BY <2>1, FinalizeFacts DEF IInv, Feed!Finalize, Finalize, hist
  <2>2. CASE Subscribe
    BY <2>2 DEF Subscribe, SubscribeAt, Feed!Next, Feed!Subscribe, world
  <2>3. CASE SendEvent
    BY <2>3, SendGives
  <2>4. CASE \/ Upgrade \/ ConnectionLost
             \/ Connect \/ ConnectFails \/ WakeUp \/ SubscribeFails \/ TakeBlock \/ StreamEnds
             \/ \E n \in 0 .. MaxEvents : FetchEvents(n)
             \/ FetchFails \/ BlockDone
    BY <2>4 DEF Upgrade, ConnectionLost, Connect, ConnectFails, WakeUp, SubscribeFails, TakeBlock,
       StreamEnds, FetchEvents, FetchFails, BlockDone, Feed!vars, world, hist
  <2>5. CASE UNCHANGED vars
    BY <2>5 DEF vars, Feed!vars, world, hist
  <2> QED
    BY <2>1, <2>2, <2>3, <2>4, <2>5 DEF Next, Step, Feed!Next
<1> QED
  BY <1>1, <1>2, Invariance, PTL DEF Spec, FeedSpec, Feed!Spec
=============================================================================
