------------------------------ MODULE EventFeed ------------------------------
(***************************************************************************)
(* What EventSubscriber promises the receivers of its filters: each gets   *)
(* events of the kind it wants, of finalized blocks, one subscription's    *)
(* worth strictly in order, and no later subscription goes back behind a   *)
(* block an earlier one got to.  Events may be missing, and the block a    *)
(* subscription ends at may come again in the next.                        *)
(***************************************************************************)
EXTENDS Naturals, Sequences

CONSTANTS Filters, Kinds, Wants

VARIABLES chain,    \* the finalized blocks
          session,  \* subscriptions so far
          given     \* for each filter, what its receiver was sent

vars == <<chain, session, given>>

Block == [runtime : Nat, events : Seq(Kinds)]
Event == [session : Nat, block : Nat, pos : Nat]

\* d is handed over before e.
Precedes(d, e) ==
    /\ d.block <= e.block
    /\ d.session <= e.session
    /\ d.session = e.session =>
          \/ d.block < e.block
          \/ d.block = e.block /\ d.pos < e.pos

Init == chain = <<>> /\ session = 0 /\ given = [f \in Filters |-> <<>>]

Finalize ==
    /\ Len(chain') = Len(chain) + 1
    /\ chain'[Len(chain')] \in Block
    /\ chain' = Append(chain, chain'[Len(chain')])
    /\ UNCHANGED <<session, given>>

Subscribe == session' = session + 1 /\ UNCHANGED <<chain, given>>

Give(b, i) ==
    LET e == [session |-> session, block |-> b, pos |-> i]
    IN  /\ \A f \in Filters : \A j \in 1 .. Len(given[f]) : Precedes(given[f][j], e)
        /\ given' = [f \in Filters |-> IF Wants[f] = chain[b].events[i]
                                       THEN Append(given[f], e) ELSE given[f]]
        /\ UNCHANGED <<chain, session>>

Next ==
    \/ Finalize
    \/ Subscribe
    \/ \E b \in 1 .. Len(chain) : \E i \in 1 .. Len(chain[b].events) : Give(b, i)

Spec == Init /\ [][Next]_vars
=============================================================================
