------------------------ MODULE AccountsIndexProofs ------------------------
(***************************************************************************)
(* The safety properties of AccountsIndex, for every set of accounts,      *)
(* programs, owners and mints, with and without faults and persistence.    *)
(***************************************************************************)
EXTENDS AccountsIndex, FunctionTheorems, FiniteSetTheorems, TLAPS

-----------------------------------------------------------------------------
(* The inductive invariant.                                                *)

\* What the task holds, by where it is.
TaskShape ==
    /\ task # "fetch" => keys = {}
    /\ task \notin {"loop", "insert"} => work = {}
    /\ (task = "insert") <=> (entry # NoEntry)

\* Excluded keys pass the task by.
NoneExcluded ==
    /\ keys \cap Excluded = {}
    /\ \A e \in work \cup {entry} : e # NoEntry => e.key \notin Excluded

\* What the node returned was so at some time, and so is the present.
Historic ==
    /\ \A e \in work \cup {entry} : e # NoEntry => e \in past
    /\ \A a \in Accounts : At(a, ledger[a]) \in past

\* The rows of the entry in hand that come before the next one are there.
Earlier == CASE next = "ProgramId"     -> {}
             [] next = "SplTokenOwner" -> {"ProgramId"}
             [] next = "SplTokenMint"  -> {"ProgramId", "SplTokenOwner"}

InOrder == entry # NoEntry => \A index \in Earlier : Row(index, entry) \in rows

\* An account that has missed nothing is announced, or held by the task in its
\* present state, or indexed in its present state.
Current(a) ==
    \/ Announced(a)
    \/ ledger[a] = NoToken
    \/ At(a, ledger[a]) \in work
    \/ entry = At(a, ledger[a])
    \/ Indexed(a)

AllCurrent == \A a \in Accounts \ (Excluded \cup missed) : Current(a)

IInv ==
    /\ TypeOK
    /\ TaskShape
    /\ NoneExcluded
    /\ Historic
    /\ InOrder
    /\ RowsBacked
    /\ AllCurrent

-----------------------------------------------------------------------------
\* A send adds one batch behind the others.
LEMMA AppendFacts ==
    ASSUME NEW S, NEW s \in Seq(S), NEW e \in S
    PROVE  /\ Append(s, e) \in Seq(S)
           /\ Len(s) \in Nat
           /\ Len(Append(s, e)) = Len(s) + 1
           /\ \A i \in 1 .. Len(s) : Append(s, e)[i] = s[i]
           /\ Append(s, e)[Len(s) + 1] = e
  OBVIOUS

\* A receive takes the first batch and leaves the others.
LEMMA TailFacts ==
    ASSUME NEW S, NEW s \in Seq(S), s # <<>>
    PROVE  /\ Tail(s) \in Seq(S)
           /\ Head(s) \in S
           /\ \A i \in 1 .. Len(s) :
                s[i] = Head(s) \/ \E j \in 1 .. Len(Tail(s)) : s[i] = Tail(s)[j]
<1>1. /\ Tail(s) \in Seq(S) /\ Len(s) \in Nat \ {0} /\ Len(Tail(s)) = Len(s) - 1
      /\ \A i \in 1 .. Len(s) - 1 : Tail(s)[i] = s[i + 1]
      /\ Head(s) = s[1] /\ Head(s) \in S
    OBVIOUS
<1>2. ASSUME NEW i \in 1 .. Len(s), i # 1
      PROVE  \E j \in 1 .. Len(Tail(s)) : s[i] = Tail(s)[j]
  <2>1. i - 1 \in 1 .. Len(Tail(s)) /\ s[i] = Tail(s)[i - 1]
      BY <1>1, <1>2
  <2> QED
      BY <2>1
<1> QED
    BY <1>1, <1>2

\* An entry is not NoEntry, a token account's state is not NoToken, and the
\* rows of an entry are rows of the table.
LEMMA EntryFacts ==
    /\ NoEntry \notin Entry
    /\ NoToken \notin TokenState
    /\ \A e \in Entry : e.key \in Accounts /\ e.state \in TokenState
                        /\ e = At(e.key, e.state)
    /\ \A a \in Accounts, st \in TokenState : At(a, st) \in Entry
    /\ \A a, st : At(a, st).key = a /\ At(a, st).state = st
  BY DEF Entry, NoEntry, TokenState, NoToken, At

LEMMA RowFacts ==
    /\ \A e \in Entry, index \in Indexes : Row(index, e) \in RowSet
    /\ \A index, e : Row(index, e).index = index /\ Row(index, e).indexed = e.key
  BY DEF Entry, TokenState, Row, RowSet, IndexKey, Indexes

-----------------------------------------------------------------------------
(* Types.                                                                  *)

LEMMA TypeInit == Init => TypeOK
  BY DEF Init, TypeOK, Indexes, At, State, ClientStart

LEMMA TypeStep == TypeOK /\ TaskShape /\ [Next]_vars => TypeOK'
<1> SUFFICES ASSUME TypeOK, TaskShape, [Next]_vars PROVE TypeOK'
    OBVIOUS
<1> USE ExcludedAssumption DEF TypeOK, node, local, vars
<1>1. ASSUME NEW B \in SUBSET Accounts, NEW delivered \in BOOLEAN,
             NEW new \in [B -> State], Transact(B, new, delivered)
      PROVE  TypeOK'
  <2>1. ledger' \in [Accounts -> State] /\ updates' \in Nat
      BY <1>1 DEF Transact
  <2>2. past' \subseteq [key : Accounts, state : State]
      BY <1>1 DEF Transact, At
  <2>3. channel' \in Seq(SUBSET Accounts)
      BY <1>1, AppendFacts DEF Transact
  <2> QED
      BY <1>1, <2>1, <2>2, <2>3 DEF Transact
<1>2. ASSUME Receive PROVE TypeOK'
  <2>1. channel' \in Seq(SUBSET Accounts) /\ keys' \subseteq Accounts
      BY <1>2, TailFacts DEF Receive
  <2> QED
      BY <1>2, <2>1 DEF Receive
<1>3. ASSUME DiscardUndecodable PROVE TypeOK'
  <2>1. channel' \in Seq(SUBSET Accounts) /\ missed' \subseteq Accounts
      BY <1>3, TailFacts DEF DiscardUndecodable
  <2> QED
      BY <1>3, <2>1 DEF DiscardUndecodable
<1>4. ASSUME Fetch PROVE TypeOK'
  <2>1. \A b \in Accounts : ledger[b] # NoToken => ledger[b] \in TokenState
      BY DEF State
  <2>2. work' \subseteq Entry
      BY <1>4, <2>1, EntryFacts DEF Fetch
  <2> QED
      BY <1>4, <2>2 DEF Fetch
<1>5. ASSUME FetchFails PROVE TypeOK'
    BY <1>5 DEF FetchFails
<1>6. ASSUME NEW e \in work, Begin(e) PROVE TypeOK'
    BY <1>6 DEF Begin, Indexes
<1>7. ASSUME Finish PROVE TypeOK'
    BY <1>7 DEF Finish
<1>8. ASSUME task = "insert" PROVE entry \in Entry
    BY <1>8 DEF TaskShape
<1>9. ASSUME InsertRow PROVE TypeOK'
  <2>1. rows' \subseteq RowSet
      BY <1>8, <1>9, RowFacts DEF InsertRow
  <2>2. next' \in Indexes
      BY <1>9 DEF InsertRow, Indexes
  <2> QED
      BY <1>9, <2>1, <2>2 DEF InsertRow
<1>10. ASSUME task = "insert", Abort
       PROVE  /\ missed' \subseteq Accounts /\ work' = {} /\ entry' = NoEntry
              /\ task' = "recv"
    BY <1>8, <1>10, EntryFacts DEF Abort
<1>11. ASSUME InsertDuplicate PROVE TypeOK'
    BY <1>10, <1>11 DEF InsertDuplicate
<1>12. ASSUME NEW written \in BOOLEAN, InsertFails(written) PROVE TypeOK'
  <2>1. rows' \subseteq RowSet
      BY <1>8, <1>12, RowFacts DEF InsertFails
  <2> QED
      BY <1>10, <1>12, <2>1 DEF InsertFails
<1>13. ASSUME Restart PROVE TypeOK'
    BY <1>13 DEF Restart, Indexes, ClientStart
<1>14. ASSUME UNCHANGED vars \/ ClientEnds PROVE TypeOK'
    BY <1>14 DEF ClientEnds
<1> QED
    BY <1>1, <1>2, <1>3, <1>4, <1>5, <1>6, <1>7, <1>9, <1>11, <1>12, <1>13,
       <1>14 DEF Next, Step

-----------------------------------------------------------------------------
(* Every action preserves the invariant.                                   *)

\* Rows stay backed while the table and the past only grow.
LEMMA BackedGrows ==
    ASSUME NEW r, Backed(r), rows \subseteq rows', past \subseteq past'
    PROVE  Backed(r)'
  BY DEF Backed

LEMMA TransactStep ==
    ASSUME IInv, NEW B \in SUBSET Accounts, NEW delivered \in BOOLEAN,
           NEW new \in [B -> State], Transact(B, new, delivered)
    PROVE  TaskShape' /\ NoneExcluded' /\ Historic' /\ InOrder' /\ RowsBacked'
           /\ AllCurrent'
<1> USE DEF IInv
<1>1. /\ UNCHANGED <<task, keys, work, entry, next, rows>>
      /\ past \subseteq past'
      /\ ledger \in [Accounts -> State]
      /\ ledger' = [a \in Accounts |-> IF a \in B THEN new[a] ELSE ledger[a]]
      /\ past' = past \cup {At(a, new[a]) : a \in B}
    BY DEF Transact, TypeOK
<1>2. TaskShape' /\ NoneExcluded' /\ InOrder'
    BY <1>1 DEF TaskShape, NoneExcluded, InOrder, Earlier
<1>3. Historic'
    BY <1>1 DEF Historic
<1>4. RowsBacked'
    BY <1>1, BackedGrows DEF RowsBacked
<1>5. AllCurrent'
  <2> SUFFICES ASSUME NEW a \in Accounts \ (Excluded \cup missed')
               PROVE  Current(a)'
      BY DEF AllCurrent
  <2>1. a \notin missed
      BY DEF Transact
  <2>2. Announced(a) => Announced(a)'
    <3>1. \A i \in 1 .. Len(channel) : i \in 1 .. Len(channel') /\ channel'[i] = channel[i]
        BY AppendFacts DEF Transact, TypeOK
    <3> QED
        BY <1>1, <3>1 DEF Announced
  <2>3. CASE a \in B
    <3>1. delivered /\ channel' = Append(channel, B)
        BY <2>3 DEF Transact
    <3>2. Len(channel') \in 1 .. Len(channel') /\ channel'[Len(channel')] = B
        BY <3>1, AppendFacts DEF TypeOK
    <3> QED
        BY <2>3, <3>2 DEF Current, Announced
  <2>4. CASE a \notin B
    <3>1. ledger'[a] = ledger[a]
        BY <1>1, <2>4
    <3> QED
        BY <1>1, <2>1, <2>2, <3>1 DEF AllCurrent, Current, Indexed
  <2> QED
      BY <2>3, <2>4
<1> QED
    BY <1>2, <1>3, <1>4, <1>5

\* Taking a batch: its keys are announced still, as the ones asked for.
LEMMA ReceiveStep ==
    ASSUME IInv, Receive \/ DiscardUndecodable
    PROVE  TaskShape' /\ NoneExcluded' /\ Historic' /\ InOrder' /\ RowsBacked'
           /\ AllCurrent'
<1> USE DEF IInv
<1>1. /\ UNCHANGED <<ledger, past, work, entry, next, rows>>
      /\ task = "recv" /\ keys = {} /\ work = {} /\ entry = NoEntry
      /\ task' \in {"recv", "fetch"}
      /\ task' = "recv" => keys' = {}
      /\ keys' \cap Excluded = {}
    BY DEF Receive, DiscardUndecodable, TaskShape, TypeOK, node
<1>2. TaskShape' /\ NoneExcluded' /\ Historic' /\ InOrder'
    BY <1>1 DEF TaskShape, NoneExcluded, Historic, InOrder
<1>3. RowsBacked'
    BY <1>1, BackedGrows DEF RowsBacked
<1>4. AllCurrent'
  <2> SUFFICES ASSUME NEW a \in Accounts \ (Excluded \cup missed'), Current(a)
               PROVE  Current(a)'
      BY DEF AllCurrent, Receive, DiscardUndecodable
  <2>1. ASSUME Announced(a) PROVE Announced(a)'
    <3>1. PICK i \in 1 .. Len(channel) : a \in channel[i]
        BY <1>1, <2>1 DEF Announced
    <3>2. channel \in Seq(SUBSET Accounts) /\ channel # <<>> /\ channel' = Tail(channel)
        BY DEF TypeOK, Receive, DiscardUndecodable
    <3>3. a \in Head(channel) \/ \E j \in 1 .. Len(channel') : a \in channel'[j]
        BY <3>1, <3>2, TailFacts
    <3> QED
        BY <3>3 DEF Announced, Receive, DiscardUndecodable
  <2> QED
      BY <1>1, <2>1 DEF Current, Indexed
<1> QED
    BY <1>2, <1>3, <1>4

\* The reply: what was announced is now held in its present state.
LEMMA FetchStep ==
    ASSUME IInv, Fetch \/ FetchFails
    PROVE  TaskShape' /\ NoneExcluded' /\ Historic' /\ InOrder' /\ RowsBacked'
           /\ AllCurrent'
<1> USE DEF IInv
<1>1. /\ UNCHANGED <<ledger, past, channel, entry, next, rows>>
      /\ task = "fetch" /\ work = {} /\ entry = NoEntry /\ keys' = {}
      /\ keys \subseteq Accounts /\ keys \cap Excluded = {}
      /\ work' \subseteq {At(a, ledger[a]) : a \in keys}
      /\ task' \in {"recv", "loop"} /\ (task' = "recv" => work' = {})
    BY DEF Fetch, FetchFails, TaskShape, NoneExcluded, TypeOK, node
<1>2. \A e \in work' : e.key \notin Excluded /\ e \in past
    BY <1>1, EntryFacts DEF Historic
<1>3. TaskShape' /\ NoneExcluded' /\ Historic' /\ InOrder'
    BY <1>1, <1>2 DEF TaskShape, NoneExcluded, Historic, InOrder
<1>4. RowsBacked'
    BY <1>1, BackedGrows DEF RowsBacked
<1>5. AllCurrent'
  <2> SUFFICES ASSUME NEW a \in Accounts \ (Excluded \cup missed'), Current(a)
               PROVE  Current(a)'
      BY DEF AllCurrent, Fetch, FetchFails
  <2>1. ASSUME a \in keys PROVE Current(a)'
      BY <1>1, <2>1 DEF Current, Fetch, FetchFails
  <2>2. ASSUME Announced(a), a \notin keys PROVE Announced(a)'
      BY <1>1, <2>2 DEF Announced
  <2> QED
      BY <1>1, <2>1, <2>2 DEF Current, Indexed
<1> QED
    BY <1>3, <1>4, <1>5

LEMMA LoopStep ==
    ASSUME IInv, Finish \/ \E e \in work : Begin(e)
    PROVE  TaskShape' /\ NoneExcluded' /\ Historic' /\ InOrder' /\ RowsBacked'
           /\ AllCurrent'
<1> USE DEF IInv
<1>1. /\ UNCHANGED <<ledger, past, channel, keys, rows, missed>>
      /\ task = "loop" /\ entry = NoEntry /\ work' \subseteq work
      /\ \/ task' = "recv" /\ work = {} /\ UNCHANGED <<work, entry, next>>
         \/ /\ task' = "insert" /\ next' = "ProgramId"
            /\ entry' \in work /\ work' = work \ {entry'}
    BY DEF Finish, Begin, TaskShape, node
<1>2. entry' # NoEntry => entry' \in work
    BY <1>1
<1>3. TaskShape' /\ NoneExcluded' /\ Historic' /\ InOrder'
    BY <1>1, EntryFacts DEF TaskShape, NoneExcluded, Historic, InOrder, Earlier,
                            TypeOK
<1>4. RowsBacked'
    BY <1>1, BackedGrows DEF RowsBacked
<1>5. AllCurrent'
  <2> SUFFICES ASSUME NEW a \in Accounts \ (Excluded \cup missed), Current(a)
               PROVE  Current(a)'
      BY <1>1 DEF AllCurrent
  <2>1. Announced(a) <=> Announced(a)'
      BY <1>1 DEF Announced
  <2>2. At(a, ledger[a]) \in work =>
          At(a, ledger[a]) \in work' \/ entry' = At(a, ledger[a])
      BY <1>1
  <2>3. entry # At(a, ledger[a]) \/ ledger[a] = NoToken
      BY <1>1, EntryFacts DEF TypeOK, State
  <2> QED
      BY <1>1, <2>1, <2>2, <2>3 DEF Current, Indexed
<1> QED
    BY <1>3, <1>4, <1>5

\* An insert adds the next row of an entry whose earlier rows are there.
LEMMA RowBacked ==
    ASSUME IInv, task = "insert", rows' = rows \cup {Row(next, entry)}, past' = past
    PROVE  RowsBacked'
<1> USE DEF IInv
<1>1. entry \in Entry /\ entry # NoEntry /\ entry \in past
      /\ entry.key \notin Excluded /\ entry.state # NoToken
    BY EntryFacts DEF TaskShape, TypeOK, Historic, NoneExcluded
<1>2. next \in Indexes /\ Row(next, entry).index = next
      /\ Row(next, entry).indexed = entry.key
    BY RowFacts DEF TypeOK
<1>3. /\ next # "ProgramId" => Row("ProgramId", entry) \in rows
      /\ next = "SplTokenMint" => Row("SplTokenOwner", entry) \in rows
    BY <1>1, <1>2 DEF InOrder, Earlier, Indexes
<1>4. PICK r : r = Row(next, entry)
    OBVIOUS
<1>5. Backed(r)'
    BY <1>1, <1>2, <1>3, <1>4 DEF Backed
<1>6. ASSUME NEW x \in rows' PROVE x.indexed \notin Excluded /\ Backed(x)'
  <2>1. CASE x \in rows
      BY <2>1, BackedGrows DEF RowsBacked
  <2>2. CASE x = r
      BY <2>2, <1>1, <1>2, <1>4, <1>5
  <2> QED
      BY <2>1, <2>2, <1>4
<1> QED
    BY <1>6 DEF RowsBacked

LEMMA InsertStep ==
    ASSUME IInv, InsertRow
    PROVE  TaskShape' /\ NoneExcluded' /\ Historic' /\ InOrder' /\ RowsBacked'
           /\ AllCurrent'
<1> USE DEF IInv
<1>1. /\ UNCHANGED <<ledger, past, channel, keys, work, missed>>
      /\ task = "insert" /\ keys = {} /\ entry \in Entry /\ entry # NoEntry
      /\ next \in Indexes
      /\ rows' = rows \cup {Row(next, entry)}
      /\ \/ /\ next = "SplTokenMint" /\ next' = "ProgramId"
            /\ entry' = NoEntry /\ task' = "loop"
         \/ /\ next = "ProgramId" /\ next' = "SplTokenOwner"
            /\ entry' = entry /\ task' = "insert"
         \/ /\ next = "SplTokenOwner" /\ next' = "SplTokenMint"
            /\ entry' = entry /\ task' = "insert"
    BY DEF InsertRow, TaskShape, TypeOK, node, Indexes
<1>2. TaskShape' /\ NoneExcluded' /\ Historic'
    BY <1>1 DEF TaskShape, NoneExcluded, Historic
<1>3. InOrder'
    BY <1>1 DEF InOrder, Earlier
<1>4. RowsBacked'
    BY <1>1, RowBacked
<1>5. ASSUME next = "SplTokenMint"
      PROVE  \A index \in Indexes : Row(index, entry) \in rows'
    BY <1>1, <1>5 DEF InOrder, Earlier, Indexes
<1>6. AllCurrent'
  <2> SUFFICES ASSUME NEW a \in Accounts \ (Excluded \cup missed), Current(a)
               PROVE  Current(a)'
      BY <1>1 DEF AllCurrent
  <2>1. Announced(a) <=> Announced(a)'
      BY <1>1 DEF Announced
  <2>2. Indexed(a) => Indexed(a)'
      BY <1>1 DEF Indexed
  <2>3. ASSUME entry = At(a, ledger[a])
        PROVE  entry' = At(a, ledger[a]) \/ Indexed(a)'
      BY <1>1, <1>5, <2>3 DEF Indexed
  <2> QED
      BY <1>1, <2>1, <2>2, <2>3 DEF Current
<1> QED
    BY <1>2, <1>3, <1>4, <1>6

\* An error ends the batch; what is left of it counts as missed.
LEMMA AbortStep ==
    ASSUME IInv, InsertDuplicate \/ \E written \in BOOLEAN : InsertFails(written)
    PROVE  TaskShape' /\ NoneExcluded' /\ Historic' /\ InOrder' /\ RowsBacked'
           /\ AllCurrent'
<1> USE DEF IInv
<1>1. /\ UNCHANGED <<ledger, past, channel, keys, next>>
      /\ task = "insert" /\ keys = {} /\ entry \in Entry /\ work \subseteq Entry
      /\ rows' = rows \/ rows' = rows \cup {Row(next, entry)}
      /\ missed' = missed \cup {e.key : e \in work \cup {entry}}
      /\ work' = {} /\ entry' = NoEntry /\ task' = "recv"
    BY DEF InsertDuplicate, InsertFails, Abort, TaskShape, TypeOK, node
<1>2. TaskShape' /\ NoneExcluded' /\ Historic' /\ InOrder'
    BY <1>1 DEF TaskShape, NoneExcluded, Historic, InOrder
<1>3. RowsBacked'
    BY <1>1, RowBacked, BackedGrows DEF RowsBacked
<1>4. AllCurrent'
  <2> SUFFICES ASSUME NEW a \in Accounts \ (Excluded \cup missed'), Current(a)
               PROVE  Current(a)'
      BY <1>1 DEF AllCurrent
  <2>1. Announced(a) <=> Announced(a)'
      BY <1>1 DEF Announced
  <2>2. At(a, ledger[a]) \notin work \cup {entry}
      BY <1>1, EntryFacts
  <2>3. Indexed(a) => Indexed(a)'
      BY <1>1 DEF Indexed
  <2> QED
      BY <1>1, <2>1, <2>2, <2>3 DEF Current
<1> QED
    BY <1>2, <1>3, <1>4

\* A restart loses what was pending, and an in-memory table with it.
LEMMA RestartStep ==
    ASSUME IInv, Restart
    PROVE  TaskShape' /\ NoneExcluded' /\ Historic' /\ InOrder' /\ RowsBacked'
           /\ AllCurrent'
<1> USE DEF IInv
<1>1. /\ UNCHANGED <<ledger, past>>
      /\ task' = "recv" /\ keys' = {} /\ work' = {} /\ entry' = NoEntry
      /\ IF Persistent THEN rows' = rows ELSE rows' = {}
      /\ missed' = missed \cup {a \in Accounts : \/ Pending(a)
                                                 \/ ~Persistent /\ ledger[a] # NoToken}
    BY DEF Restart, node
<1>2. TaskShape' /\ NoneExcluded' /\ Historic' /\ InOrder'
    BY <1>1 DEF TaskShape, NoneExcluded, Historic, InOrder
<1>3. RowsBacked'
    BY <1>1, BackedGrows DEF RowsBacked
<1>4. AllCurrent'
  <2> SUFFICES ASSUME NEW a \in Accounts \ (Excluded \cup missed'), Current(a)
               PROVE  Current(a)'
      BY <1>1 DEF AllCurrent
  <2>1. ~Pending(a) /\ (Persistent \/ ledger[a] = NoToken)
      BY <1>1
  <2>2. entry = At(a, ledger[a]) => entry = NoEntry \/ entry.key = a
      BY EntryFacts
  <2>3. CASE ledger[a] = NoToken
      BY <1>1, <2>3 DEF Current
  <2>4. CASE ledger[a] # NoToken
    <3>1. ledger[a] \in TokenState /\ At(a, ledger[a]) \in Entry
        BY <2>4, EntryFacts DEF TypeOK, State
    <3>2. ~Announced(a) /\ At(a, ledger[a]) \notin work /\ entry # At(a, ledger[a])
        BY <2>1, <3>1, EntryFacts DEF Pending
    <3>3. Indexed(a)
        BY <2>4, <3>2 DEF Current
    <3> QED
        BY <1>1, <2>1, <2>4, <3>3 DEF Current, Indexed
  <2> QED
      BY <2>3, <2>4
<1> QED
    BY <1>2, <1>3, <1>4

-----------------------------------------------------------------------------
(* The safety properties.                                                  *)

LEMMA InvariantInit == Init => IInv
<1> SUFFICES ASSUME Init PROVE IInv
    OBVIOUS
<1>1. TypeOK
    BY TypeInit
<1>2. TaskShape /\ NoneExcluded /\ Historic /\ InOrder /\ RowsBacked /\ AllCurrent
    BY DEF Init, TaskShape, NoneExcluded, Historic, InOrder, RowsBacked, AllCurrent,
           Current
<1> QED
    BY <1>1, <1>2 DEF IInv

LEMMA InvariantStep == IInv /\ [Next]_vars => IInv'
<1> SUFFICES ASSUME IInv, [Next]_vars PROVE IInv'
    OBVIOUS
<1>1. TypeOK'
    BY TypeStep DEF IInv
<1>2. CASE UNCHANGED vars \/ ClientEnds
    BY <1>2 DEF IInv, ClientEnds, vars, node, local, TypeOK, TaskShape, NoneExcluded, Historic,
                InOrder, Earlier, RowsBacked, Backed, AllCurrent, Current, Announced,
                Indexed
<1>3. CASE Next
    BY <1>1, <1>2, <1>3, TransactStep, ReceiveStep, FetchStep, LoopStep, InsertStep,
       AbortStep, RestartStep DEF Next, Step, IInv
<1> QED
    BY <1>2, <1>3

\* The inductive invariant holds in every reachable state.
THEOREM Invariance == Spec => []IInv
<1> QED
    BY InvariantInit, InvariantStep, PTL DEF Spec

\* Every variable of the indexer keeps its type.
THEOREM TypeCorrect == Spec => []TypeOK
<1>1. IInv => TypeOK
    BY DEF IInv
<1> QED
    BY <1>1, Invariance, PTL

\* Whatever fails between two inserts, a row of the table stems from a state
\* its account has been in, with the rows that go before it, and never from an
\* excluded key.
THEOREM TableSound == Spec => []RowsBacked
<1>1. IInv => RowsBacked
    BY DEF IInv
<1> QED
    BY <1>1, Invariance, PTL

\* An account of which no event and no batch was lost is indexed as it is now,
\* as soon as nothing of it is pending.
THEOREM TableComplete == Spec => []CompleteUnlessMissed
<1>1. IInv => CompleteUnlessMissed
  <2> SUFFICES ASSUME IInv, NEW a \in Accounts \ (Excluded \cup missed),
                      ~Pending(a), ledger[a] # NoToken
               PROVE  Indexed(a)
      BY DEF CompleteUnlessMissed
  <2>1. Current(a)
      BY DEF IInv, AllCurrent
  <2>2. ledger[a] \in TokenState
      BY DEF IInv, TypeOK, State
  <2>3. At(a, ledger[a]) \in Entry /\ At(a, ledger[a]).key = a
      BY <2>2, EntryFacts
  <2> QED
      BY <2>1, <2>3, EntryFacts DEF Current, Pending
<1> QED
    BY <1>1, Invariance, PTL
-----------------------------------------------------------------------------
(* How many rows an account has.                                           *)

Owned(a) == RowsOf("SplTokenOwner", a)

\* The entry in hand has made room for the row it inserts next: it got past its
\* earlier row, and only a new row does.
Sizes ==
    /\ IsFiniteSet(rows)
    /\ StaleRowsBounded
    /\ entry # NoEntry =>
         /\ next = "SplTokenOwner" =>
              Cardinality(Owned(entry.key)) < Cardinality(RowsOf("ProgramId", entry.key))
         /\ next = "SplTokenMint" =>
              Cardinality(RowsOf("SplTokenMint", entry.key)) < Cardinality(Owned(entry.key))

LEMMA SizeFacts ==
    ASSUME IsFiniteSet(rows), NEW index, NEW a
    PROVE  IsFiniteSet(RowsOf(index, a)) /\ Cardinality(RowsOf(index, a)) \in Nat
<1>1. RowsOf(index, a) \in SUBSET rows
    BY DEF RowsOf
<1> QED
    BY <1>1, FS_Subset, FS_CardinalityType

\* One row more is one row more of its account in its index.
LEMMA OneRowMore ==
    ASSUME IsFiniteSet(rows), NEW row, rows' = rows \cup {row}, row \notin rows
    PROVE  /\ IsFiniteSet(rows')
           /\ \A index, a :
                Cardinality(RowsOf(index, a)') =
                  IF row.index = index /\ row.indexed = a
                  THEN Cardinality(RowsOf(index, a)) + 1
                  ELSE Cardinality(RowsOf(index, a))
<1>1. IsFiniteSet(rows')
    BY FS_AddElement
<1>2. ASSUME NEW index, NEW a
      PROVE  Cardinality(RowsOf(index, a)') =
               IF row.index = index /\ row.indexed = a
               THEN Cardinality(RowsOf(index, a)) + 1
               ELSE Cardinality(RowsOf(index, a))
  <2>1. CASE row.index = index /\ row.indexed = a
    <3>1. RowsOf(index, a)' = RowsOf(index, a) \cup {row} /\ row \notin RowsOf(index, a)
        BY <2>1 DEF RowsOf
    <3> QED
        BY <2>1, <3>1, SizeFacts, FS_AddElement
  <2>2. CASE ~(row.index = index /\ row.indexed = a)
    <3>1. RowsOf(index, a)' = RowsOf(index, a)
        BY <2>2 DEF RowsOf
    <3> QED
        BY <2>2, <3>1
  <2> QED
      BY <2>1, <2>2
<1> QED
    BY <1>1, <1>2

\* A new row of the entry in hand finds the room, and makes room for the next.
LEMMA NewRowFits ==
    ASSUME IInv, Sizes, task = "insert", Row(next, entry) \notin rows,
           rows' = rows \cup {Row(next, entry)}, NEW k, k = entry.key
    PROVE  /\ IsFiniteSet(rows')
           /\ StaleRowsBounded'
           /\ next = "ProgramId" =>
                Cardinality(Owned(k)') < Cardinality(RowsOf("ProgramId", k)')
           /\ next = "SplTokenOwner" =>
                Cardinality(RowsOf("SplTokenMint", k)') < Cardinality(Owned(k)')
<1>1. entry \in Entry /\ entry.key \in Accounts /\ entry # NoEntry /\ next \in Indexes
    BY EntryFacts DEF IInv, TypeOK, TaskShape
<1>2. PICK row, n : row = Row(next, entry) /\ n = next
    OBVIOUS
<1>3. row.index = n /\ row.indexed = k
    BY <1>2, RowFacts
<1>4. /\ IsFiniteSet(rows')
      /\ \A index, a :
            Cardinality(RowsOf(index, a)') =
              IF n = index /\ k = a THEN Cardinality(RowsOf(index, a)) + 1
                                    ELSE Cardinality(RowsOf(index, a))
    BY <1>2, <1>3, OneRowMore DEF Sizes
<1>5. \A index, a : Cardinality(RowsOf(index, a)) \in Nat
    BY SizeFacts DEF Sizes
<1>6. \A a \in Accounts :
        /\ Cardinality(RowsOf("SplTokenOwner", a)) <= Cardinality(RowsOf("ProgramId", a))
        /\ Cardinality(RowsOf("SplTokenMint", a)) <= Cardinality(RowsOf("SplTokenOwner", a))
    BY DEF Sizes, StaleRowsBounded
<1>7. /\ n = "SplTokenOwner" =>
           Cardinality(RowsOf("SplTokenOwner", k)) < Cardinality(RowsOf("ProgramId", k))
      /\ n = "SplTokenMint" =>
           Cardinality(RowsOf("SplTokenMint", k)) < Cardinality(RowsOf("SplTokenOwner", k))
    BY <1>1, <1>2 DEF Sizes, Owned
<1>8. n \in {"ProgramId", "SplTokenOwner", "SplTokenMint"} /\ k \in Accounts
    BY <1>1, <1>2 DEF Indexes
<1>9. ASSUME NEW a \in Accounts
      PROVE  /\ Cardinality(RowsOf("SplTokenOwner", a)') <= Cardinality(RowsOf("ProgramId", a)')
             /\ Cardinality(RowsOf("SplTokenMint", a)') <= Cardinality(RowsOf("SplTokenOwner", a)')
    BY <1>4, <1>5, <1>6, <1>7, <1>8
<1>10. /\ n = "ProgramId" =>
            Cardinality(RowsOf("SplTokenOwner", k)') < Cardinality(RowsOf("ProgramId", k)')
       /\ n = "SplTokenOwner" =>
            Cardinality(RowsOf("SplTokenMint", k)') < Cardinality(RowsOf("SplTokenOwner", k)')
    BY <1>4, <1>5, <1>6, <1>8
<1> QED
    BY <1>2, <1>4, <1>9, <1>10 DEF StaleRowsBounded, Owned

LEMMA SizesStep == IInv /\ Sizes /\ [Next]_vars => Sizes'
<1> SUFFICES ASSUME IInv, Sizes, [Next]_vars PROVE Sizes'
    OBVIOUS
<1>1. CASE InsertRow
  <2>1. /\ IsFiniteSet(rows') /\ StaleRowsBounded'
        /\ entry' = NoEntry \/ entry' = entry
      BY <1>1, NewRowFits DEF InsertRow
  <2>2. PICK k : k = entry.key
      OBVIOUS
  <2>3. CASE next = "SplTokenMint"
      BY <1>1, <2>1, <2>3 DEF InsertRow, Sizes
  <2>4. CASE next = "ProgramId"
    <3>1. next' = "SplTokenOwner" /\ entry' = entry
        BY <1>1, <2>4 DEF InsertRow
    <3>2. Cardinality(Owned(k)') < Cardinality(RowsOf("ProgramId", k)')
        BY <1>1, <2>2, <2>4, NewRowFits DEF InsertRow
    <3> QED
        BY <2>1, <2>2, <3>1, <3>2 DEF Sizes
  <2>5. CASE next = "SplTokenOwner"
    <3>1. next' = "SplTokenMint" /\ entry' = entry
        BY <1>1, <2>5 DEF InsertRow
    <3>2. Cardinality(RowsOf("SplTokenMint", k)') < Cardinality(Owned(k)')
        BY <1>1, <2>2, <2>5, NewRowFits DEF InsertRow
    <3> QED
        BY <2>1, <2>2, <3>1, <3>2 DEF Sizes
  <2> QED
      BY <2>3, <2>4, <2>5 DEF IInv, TypeOK, Indexes
<1>2. CASE InsertDuplicate \/ \E written \in BOOLEAN : InsertFails(written)
  <2>1. entry' = NoEntry /\ task = "insert"
      BY <1>2 DEF InsertDuplicate, InsertFails, Abort
  <2>2. \/ rows' = rows
        \/ Row(next, entry) \notin rows /\ rows' = rows \cup {Row(next, entry)}
      BY <1>2 DEF InsertDuplicate, InsertFails
  <2>3. IsFiniteSet(rows') /\ StaleRowsBounded'
      BY <2>1, <2>2, NewRowFits DEF Sizes, StaleRowsBounded, RowsOf
  <2> QED
      BY <2>1, <2>3 DEF Sizes
<1>3. CASE rows' = rows /\ (entry' # NoEntry => next' = "ProgramId" \/ UNCHANGED <<entry, next>>)
    BY <1>3 DEF Sizes, StaleRowsBounded, Owned, RowsOf
<1>4. CASE Restart
  <2>1. entry' = NoEntry /\ rows' \in {rows, {}}
      BY <1>4 DEF Restart
  <2>2. CASE rows' = rows
      BY <1>3, <2>1, <2>2
  <2>3. CASE rows' = {}
    <3>1. \A index, a : RowsOf(index, a)' = {}
        BY <2>3 DEF RowsOf
    <3>2. IsFiniteSet({}) /\ Cardinality({}) = 0
        BY FS_EmptySet
    <3> QED
        BY <2>1, <2>3, <3>1, <3>2 DEF Sizes, StaleRowsBounded
  <2> QED
      BY <2>1, <2>2, <2>3
<1>5. ASSUME NEW e \in work, Begin(e) PROVE Sizes'
    BY <1>3, <1>5 DEF Begin
<1>6. CASE Receive \/ DiscardUndecodable \/ Fetch \/ FetchFails \/ Finish \/ ClientEnds
           \/ UNCHANGED vars
    BY <1>3, <1>6 DEF Receive, DiscardUndecodable, Fetch, FetchFails, Finish, ClientEnds, vars,
                      local
<1>7. ASSUME NEW B, NEW new, NEW delivered, Transact(B, new, delivered) PROVE Sizes'
    BY <1>3, <1>7 DEF Transact
<1> QED
    BY <1>1, <1>2, <1>4, <1>5, <1>6, <1>7 DEF Next, Step

\* An account that changes its owner, or its mint, time and again leaves no more
\* rows behind than there are by-program rows for it.
THEOREM StaleRowsAreBounded == Spec => []StaleRowsBounded
<1>1. Init => Sizes
  <2> SUFFICES ASSUME Init PROVE Sizes
      OBVIOUS
  <2>1. rows = {} /\ entry = NoEntry /\ \A index, a : RowsOf(index, a) = {}
      BY DEF Init, RowsOf
  <2>2. IsFiniteSet({}) /\ Cardinality({}) = 0
      BY FS_EmptySet
  <2> QED
      BY <2>1, <2>2 DEF Sizes, StaleRowsBounded
<1>2. Sizes => StaleRowsBounded
    BY DEF Sizes
<1> QED
    BY <1>1, <1>2, SizesStep, Invariance, PTL DEF Spec
-----------------------------------------------------------------------------
(* Every step helps: the safety half of CaughtUp.                          *)

FiniteWork == IsFiniteSet(work)

\* The node returns an account for each key at most.
LEMMA FetchedFacts ==
    ASSUME TypeOK, Fetch
    PROVE  IsFiniteSet(work') /\ Cardinality(work') <= Cardinality(Accounts)
<1> DEFINE K == {b \in keys : ledger[b] # NoToken}
           f == [a \in K |-> At(a, ledger[a])]
<1>1. IsFiniteSet(K) /\ Cardinality(K) <= Cardinality(Accounts)
  <2>1. K \in SUBSET Accounts
    BY DEF TypeOK
  <2> QED
    BY <2>1, AccountsAssumption, FS_Subset
<1>2. work' = {At(a, ledger[a]) : a \in K}
  BY DEF Fetch
<1>3. f \in Surjection(K, work')
  BY <1>2 DEF Surjection
<1>4. IsFiniteSet(work') /\ Cardinality(work') <= Cardinality(K)
  BY <1>1, <1>3, FS_Surjection
<1>5. /\ Cardinality(work') \in Nat /\ Cardinality(K) \in Nat
      /\ Cardinality(Accounts) \in Nat
  BY <1>1, <1>4, AccountsAssumption, FS_CardinalityType
<1> QED
  BY <1>1, <1>4, <1>5

LEMMA BeginFacts ==
    ASSUME FiniteWork, NEW e \in work, Begin(e)
    PROVE  IsFiniteSet(work') /\ Cardinality(work') = Cardinality(work) - 1
  BY FS_RemoveElement DEF FiniteWork, Begin

LEMMA FiniteWorkStep == TypeOK /\ FiniteWork /\ [Next]_vars => FiniteWork'
<1> SUFFICES ASSUME TypeOK, FiniteWork, [Next]_vars PROVE FiniteWork'
    OBVIOUS
<1>1. CASE Fetch
    BY <1>1, FetchedFacts DEF FiniteWork
<1>2. CASE \E e \in work : Begin(e)
    BY <1>2, BeginFacts DEF FiniteWork
<1>3. work' = {} => FiniteWork'
    BY FS_EmptySet DEF FiniteWork
<1>4. CASE Restart \/ InsertDuplicate \/ \E written \in BOOLEAN : InsertFails(written)
    BY <1>3, <1>4 DEF Restart, InsertDuplicate, InsertFails, Abort
<1>5. CASE work' = work
    BY <1>5 DEF FiniteWork
<1>6. CASE Receive \/ DiscardUndecodable \/ FetchFails \/ Finish \/ InsertRow
    BY <1>5, <1>6 DEF Receive, DiscardUndecodable, FetchFails, Finish, InsertRow
<1>7. ASSUME NEW B, NEW new, NEW delivered, Transact(B, new, delivered)
      PROVE  FiniteWork'
    BY <1>5, <1>7 DEF Transact
<1>8. CASE UNCHANGED vars \/ ClientEnds
    BY <1>5, <1>8 DEF ClientEnds, vars, local
<1> QED
    BY <1>1, <1>2, <1>4, <1>6, <1>7, <1>8 DEF Next, Step

LEMMA ChoresFacts ==
    ASSUME TypeOK, FiniteWork
    PROVE  /\ Cardinality(work) \in Nat /\ Cardinality(Accounts) \in Nat
           /\ RowsLeft \in 1 .. 3
           /\ Chores \in Nat
<1>1. Cardinality(work) \in Nat /\ Cardinality(Accounts) \in Nat
    BY AccountsAssumption, FS_CardinalityType DEF FiniteWork
<1>2. RowsLeft \in 1 .. 3
    BY DEF TypeOK, Indexes, RowsLeft
<1>3. task \in {"recv", "fetch", "loop", "insert"}
    BY DEF TypeOK
<1> QED
    BY <1>1, <1>2, <1>3 DEF Chores

LEMMA StepHelps ==
    ASSUME IInv, FiniteWork, Step
    PROVE  \/ channel' = channel /\ Chores' < Chores
           \/ Chores = 0 /\ channel # <<>> /\ channel' = Tail(channel)
<1>1. TypeOK
    BY DEF IInv
<1>2. /\ Cardinality(work) \in Nat /\ Cardinality(Accounts) \in Nat
      /\ RowsLeft \in 1 .. 3
    BY <1>1, ChoresFacts
<1>3. CASE Receive \/ DiscardUndecodable
    BY <1>3 DEF Receive, DiscardUndecodable, Chores
<1>4. CASE Fetch
  <2>1. IsFiniteSet(work') /\ Cardinality(work') <= Cardinality(Accounts)
      BY <1>1, <1>4, FetchedFacts
  <2>2. Cardinality(work') \in Nat
      BY <2>1, FS_CardinalityType
  <2>3. Chores = 4 * Cardinality(Accounts) + 2 /\ Chores' = 4 * Cardinality(work') + 1
      BY <1>4 DEF Fetch, Chores
  <2> QED
      BY <1>2, <1>4, <2>1, <2>2, <2>3 DEF Fetch
<1>5. CASE FetchFails
    BY <1>2, <1>5 DEF FetchFails, Chores
<1>6. ASSUME NEW e \in work, Begin(e)
      PROVE  channel' = channel /\ Chores' < Chores
  <2>1. Cardinality(work') = Cardinality(work) - 1
      BY <1>6, BeginFacts
  <2>2. Chores = 4 * Cardinality(work) + 1 /\ Chores' = 4 * Cardinality(work') + 1 + 3
      BY <1>6 DEF Begin, Chores, RowsLeft
  <2> QED
      BY <1>2, <1>6, <2>1, <2>2 DEF Begin
<1>7. CASE Finish
  <2>1. Cardinality(work) = 0
      BY <1>7, FS_EmptySet DEF Finish
  <2> QED
      BY <1>7, <2>1 DEF Finish, Chores
<1>8. CASE InsertRow
  <2>1. Chores = 4 * Cardinality(work) + 1 + RowsLeft
      BY <1>8 DEF InsertRow, Chores
  <2>2. CASE next = "SplTokenMint"
    <3>1. Chores' = 4 * Cardinality(work) + 1
        BY <1>8, <2>2 DEF InsertRow, Chores
    <3> QED
        BY <1>2, <1>8, <2>1, <3>1 DEF InsertRow
  <2>3. CASE next # "SplTokenMint"
    <3>1. Chores' = 4 * Cardinality(work) + 1 + RowsLeft'
        BY <1>8, <2>3 DEF InsertRow, Chores
    <3>2. RowsLeft' = RowsLeft - 1
        BY <1>1, <1>8, <2>3 DEF InsertRow, RowsLeft, TypeOK, Indexes
    <3> QED
        BY <1>2, <1>8, <2>1, <3>1, <3>2 DEF InsertRow
  <2> QED
      BY <2>2, <2>3
<1>9. CASE InsertDuplicate \/ \E written \in BOOLEAN : InsertFails(written)
  <2>1. task = "insert" /\ Abort /\ channel' = channel
      BY <1>9 DEF InsertDuplicate, InsertFails
  <2> QED
      BY <1>2, <2>1 DEF Abort, Chores
<1> QED
    BY <1>3, <1>4, <1>5, <1>6, <1>7, <1>8, <1>9 DEF Step

\* Each step of the task gets on with its batch or takes the next, whatever
\* fails; a transaction puts its batch behind the others.
THEOREM StepsHelp == Spec => EveryStepHelps
<1>1. Init => FiniteWork
    BY FS_EmptySet DEF Init, FiniteWork
<1>2. IInv => TypeOK
    BY DEF IInv
<1>3. Spec => [](IInv /\ FiniteWork)
    BY <1>1, <1>2, Invariance, FiniteWorkStep, PTL DEF Spec
<1>4. IInv /\ FiniteWork /\ [Next]_vars =>
        [\/ Restart
         \/ IF Step THEN \/ channel' = channel /\ Chores' < Chores
                         \/ Chores = 0 /\ channel # <<>> /\ channel' = Tail(channel)
                    ELSE /\ Chores' = Chores
                         /\ \A i \in 1 .. Len(channel) : channel'[i] = channel[i]]_vars
  <2> SUFFICES ASSUME IInv, FiniteWork, Next, ~Restart, ~Step
               PROVE  /\ Chores' = Chores
                      /\ \A i \in 1 .. Len(channel) : channel'[i] = channel[i]
      BY StepHelps
  <2>1. CASE ClientEnds
      BY <2>1 DEF ClientEnds, local, Chores, RowsLeft
  <2>2. CASE \E B \in (SUBSET Accounts) \ {{}}, delivered \in BOOLEAN :
               \E new \in [B -> State] : Transact(B, new, delivered)
    <3>1. PICK B \in SUBSET Accounts : channel' = channel \/ channel' = Append(channel, B)
        BY <2>2 DEF Transact
    <3>2. channel \in Seq(SUBSET Accounts)
        BY DEF IInv, TypeOK
    <3>3. UNCHANGED <<task, work, next>>
        BY <2>2 DEF Transact
    <3> QED
        BY <3>1, <3>2, <3>3, AppendFacts DEF Chores, RowsLeft
  <2> QED
      BY <2>1, <2>2 DEF Next
<1> QED
    BY <1>3, <1>4, PTL DEF Spec, EveryStepHelps
-----------------------------------------------------------------------------
(* The promise to the readers.                                             *)

LEMMA SameTable ==
    /\ State = Table!State /\ NoToken = Table!NoToken /\ Indexes = Table!Indexes
    /\ \A index, e : Row(index, e) = Table!Row(index, e)
    /\ next \in Indexes => Table!Before(next) = Earlier
  BY DEF State, TokenState, NoToken, Indexes, Row, IndexKey, Earlier, Table!State,
         Table!TokenState, Table!NoToken, Table!Indexes, Table!Row, Table!IndexKey, Table!Before

LEMMA InsertsRow ==
    ASSUME IInv, task = "insert", rows' = rows \cup {Row(next, entry)}, UNCHANGED past
    PROVE  Table!Next
<1>1. /\ entry \in Entry /\ entry \in past /\ entry.key \notin Excluded
      /\ next \in Indexes
      /\ \A index \in Earlier : Row(index, entry) \in rows
    BY DEF IInv, TypeOK, TaskShape, Historic, NoneExcluded, InOrder
<1>2. entry.state # NoToken
    BY <1>1, EntryFacts
<1>3. Table!Insert(next, entry)
    BY <1>1, <1>2, SameTable DEF Table!Insert
<1> QED
    BY <1>1, <1>3, SameTable DEF Table!Next

\* Every step of the task inserts one row of a state that was, in its turn, or
\* leaves the table as it is, unless a restart empties it.
THEOREM Refinement == Spec => TableSpec
<1>1. Init => Table!Init
  <2> SUFFICES ASSUME Init PROVE Table!Init
      OBVIOUS
  <2>1. past \subseteq [key : Accounts, state : State]
      BY TypeInit DEF TypeOK
  <2> QED
      BY <2>1, SameTable DEF Init, Table!Init
<1>2. IInv /\ IInv' /\ [Next]_vars => [Table!Next]_(Table!tvars)
  <2> SUFFICES ASSUME IInv, IInv', [Next]_vars
               PROVE  Table!Next \/ UNCHANGED <<past, rows>>
      BY DEF Table!tvars
  <2>1. CASE InsertRow
      BY <2>1, InsertsRow DEF InsertRow, node
  <2>2. CASE \E written \in BOOLEAN : InsertFails(written)
      BY <2>2, InsertsRow DEF InsertFails, node
  <2>3. ASSUME NEW B \in SUBSET Accounts, NEW new, NEW delivered, Transact(B, new, delivered)
        PROVE  Table!Next
    <3>1. past' \subseteq [key : Accounts, state : State]
        BY DEF IInv, TypeOK
    <3> QED
        BY <2>3, <3>1, SameTable DEF Transact, Table!Next, Table!Change
  <2>4. CASE Restart
      BY <2>4 DEF Restart, node, Table!Next, Table!Lose
  <2>5. CASE \/ Receive \/ DiscardUndecodable \/ Fetch \/ FetchFails \/ Finish
             \/ (\E e \in work : Begin(e)) \/ InsertDuplicate
      BY <2>5 DEF Receive, DiscardUndecodable, Fetch, FetchFails, Finish, Begin, InsertDuplicate,
                  node
  <2>6. CASE UNCHANGED vars \/ ClientEnds
      BY <2>6 DEF ClientEnds, vars, node
  <2> QED
      BY <2>1, <2>2, <2>3, <2>4, <2>5, <2>6 DEF Next, Step
<1> QED
    BY <1>1, <1>2, Invariance, PTL DEF Spec, TableSpec, Table!Spec
=============================================================================
