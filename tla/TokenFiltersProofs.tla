------------------------ MODULE TokenFiltersProofs --------------------------
(***************************************************************************)
(* Proofs about TokenFilters, for any accounts, any keys and any lists of  *)
(* filters: what is shown passes, and what is indexed and passes is shown, *)
(* whichever index the filters lead to.                                    *)
(*                                                                         *)
(* The argument follows the list from step to step.  Decoding it changes   *)
(* nothing about which accounts pass; what Lookup adds can only be missed  *)
(* by an account that the index would not have held in the first place,    *)
(* and an indexed account that passes the caller's filters has the key     *)
(* that the route looks up, so its row is found.                           *)
(***************************************************************************)
EXTENDS TokenFilters, SequenceTheorems, TLAPS

Wanted(a) == Indexable(ledger[a]) /\ Selected(program, asked, ledger[a])

\* Before the route: the list means what it meant to the caller.
Kept ==
    step \in {"verify", "route"} =>
        /\ program \in Programs
        /\ \A a \in Accounts : Selected(program, filters, ledger[a])
                                   <=> Selected(program, asked, ledger[a])

\* With the route: so does the list it makes, as far as the index goes, and
\* the index holds what is wanted.
Routed ==
    step = "lookup" =>
        /\ route # NoRoute
        /\ \A a \in Accounts : Selected(program, Added, ledger[a])
                                   => Selected(program, asked, ledger[a])
        /\ \A a \in Accounts : Wanted(a) => /\ Selected(program, Added, ledger[a])
                                            /\ Row(route.index, route.key, a) \in rows

Found ==
    step = "scan" =>
        /\ \A a \in Accounts : Selected(program, filters, ledger[a])
                                   => Selected(program, asked, ledger[a])
        /\ \A a \in Accounts : Wanted(a) => /\ Selected(program, filters, ledger[a])
                                            /\ a \in keys

\* The table holds the rows of the accounts there are.
RowsKept == RowsOf(ledger) \subseteq rows

Silent == step # "reply" => answer = {}

IInv ==
    /\ TypeOK
    /\ RowsKept
    /\ Silent
    /\ Kept
    /\ Routed
    /\ Found
    /\ ShownPasses
    /\ PassingShown

-----------------------------------------------------------------------------
(* Filters.                                                                *)

LEMMA FilterFacts ==
    /\ State \in Filter
    /\ \A k \in Keys : IsKey(k, "owner") \in Filter /\ IsKey(k, "mint") \in Filter
  <1>1. State \in Filter
    BY DEF State, Filter
  <1>2. ASSUME NEW k \in Keys, NEW name \in {"owner", "mint"}
        PROVE  IsKey(k, name) \in [kind : {"Memcmp"}, field : {"owner", "mint"}, key : Keys,
                                   whole : BOOLEAN, form : {"raw", "encoded", "bad"}]
    BY <1>2 DEF IsKey
  <1> QED
    BY <1>1, <1>2 DEF Filter

Decoded(f) == IF f.kind = "Memcmp" THEN [f EXCEPT !.form = "raw"] ELSE f

\* Decoding the bytes of a filter changes nothing about what passes it.
LEMMA Decoding ==
    ASSUME NEW f \in Filter, NEW d
    PROVE  Decoded(f) \in Filter /\ (Passes(Decoded(f), d) <=> Passes(f, d))
  <1>1. CASE f \in [kind : {"DataSize"}, size : Sizes] \cup [kind : {"TokenAccountState"}]
    BY <1>1 DEF Decoded
  <1>2. CASE f \in [kind : {"Memcmp"}, field : {"owner", "mint"}, key : Keys,
                    whole : BOOLEAN, form : {"raw", "encoded", "bad"}]
    <2>1. /\ Decoded(f) \in [kind : {"Memcmp"}, field : {"owner", "mint"}, key : Keys,
                             whole : BOOLEAN, form : {"raw", "encoded", "bad"}]
          /\ Decoded(f).kind = f.kind /\ Decoded(f).field = f.field
          /\ Decoded(f).key = f.key /\ Decoded(f).whole = f.whole
      BY <1>2 DEF Decoded
    <2> QED
      BY <1>2, <2>1 DEF Filter, Passes, Compares
  <1>3. CASE f \in [kind : {"Memcmp"}, field : {"type"}, type : {"account", "mint"},
                    form : {"raw", "encoded", "bad"}]
    <2>1. /\ Decoded(f) \in [kind : {"Memcmp"}, field : {"type"}, type : {"account", "mint"},
                             form : {"raw", "encoded", "bad"}]
          /\ Decoded(f).kind = f.kind /\ Decoded(f).field = f.field
          /\ Decoded(f).type = f.type
      BY <1>3 DEF Decoded
    <2> QED
      BY <1>3, <2>1 DEF Filter, Passes, Compares
  <1> QED
    BY <1>1, <1>2, <1>3 DEF Filter

\* What is added to a list is asked for as well.
LEMMA SelectedBoth ==
    ASSUME NEW fs \in Seq(Filter), NEW gs \in Seq(Filter), NEW p, NEW d
    PROVE  Selected(p, fs \o gs, d) <=> Selected(p, fs, d) /\ Selected(p, gs, d)
  <1>1. /\ Len(fs \o gs) = Len(fs) + Len(gs)
        /\ \A i \in 1 .. Len(fs) + Len(gs) :
              (fs \o gs)[i] = IF i <= Len(fs) THEN fs[i] ELSE gs[i - Len(fs)]
        /\ fs \o gs \in Seq(Filter)
    BY ConcatProperties
  <1>2. /\ DOMAIN fs = 1 .. Len(fs) /\ DOMAIN gs = 1 .. Len(gs)
        /\ DOMAIN (fs \o gs) = 1 .. Len(fs) + Len(gs)
        /\ Len(fs) \in Nat /\ Len(gs) \in Nat
    BY <1>1
  <1>3. ASSUME Selected(p, fs \o gs, d)
        PROVE  Selected(p, fs, d) /\ Selected(p, gs, d)
    <2>1. ASSUME NEW i \in DOMAIN fs
          PROVE  Passes(fs[i], d)
      <3>1. i \in DOMAIN (fs \o gs) /\ (fs \o gs)[i] = fs[i]
        BY <1>1, <1>2, <2>1
      <3> QED
        BY <1>3, <3>1 DEF Selected
    <2>2. ASSUME NEW i \in DOMAIN gs
          PROVE  Passes(gs[i], d)
      <3>1. i + Len(fs) \in DOMAIN (fs \o gs) /\ (fs \o gs)[i + Len(fs)] = gs[i]
        BY <1>1, <1>2, <2>2
      <3> QED
        BY <1>3, <3>1 DEF Selected
    <2> QED
      BY <1>3, <2>1, <2>2 DEF Selected
  <1>4. ASSUME Selected(p, fs, d), Selected(p, gs, d)
        PROVE  Selected(p, fs \o gs, d)
    <2>1. ASSUME NEW i \in DOMAIN (fs \o gs)
          PROVE  Passes((fs \o gs)[i], d)
      <3>1. CASE i <= Len(fs)
        <4>1. i \in DOMAIN fs /\ (fs \o gs)[i] = fs[i]
          BY <1>1, <1>2, <2>1, <3>1
        <4> QED
          BY <1>4, <4>1 DEF Selected
      <3>2. CASE ~(i <= Len(fs))
        <4>1. i - Len(fs) \in DOMAIN gs /\ (fs \o gs)[i] = gs[i - Len(fs)]
          BY <1>1, <1>2, <2>1, <3>2
        <4> QED
          BY <1>4, <4>1 DEF Selected
      <3> QED
        BY <3>1, <3>2
    <2> QED
      BY <1>4, <2>1 DEF Selected
  <1> QED
    BY <1>3, <1>4

\* An account with the key of an index is indexed under it.
LEMMA Indexed ==
    ASSUME NEW a \in Accounts, Indexable(ledger[a])
    PROVE  /\ Row("ProgramId", ledger[a].program, a) \in RowsOf(ledger)
           /\ Row("SplTokenOwner", ledger[a].owner, a) \in RowsOf(ledger)
           /\ Row("SplTokenMint", ledger[a].mint, a) \in RowsOf(ledger)
  <1> DEFINE Three(b) == {Row("ProgramId", ledger[b].program, b),
                          Row("SplTokenOwner", ledger[b].owner, b),
                          Row("SplTokenMint", ledger[b].mint, b)}
  <1>1. a \in {b \in Accounts : Indexable(ledger[b])}
    OBVIOUS
  <1>2. Three(a) \subseteq RowsOf(ledger)
    BY <1>1 DEF RowsOf
  <1> QED
    BY <1>2

-----------------------------------------------------------------------------
(* The invariant.                                                          *)

LEMMA DataFacts ==
    ASSUME NEW d \in Data \cup {NoAccount}, Indexable(d)
    PROVE  d.program \in TokenPrograms /\ d.owner \in Keys /\ d.mint \in Keys
  <1>1. d # NoAccount
    BY DEF Indexable, NoAccount, TokenPrograms
  <1> QED
    BY <1>1, ZeroAssumption DEF Indexable, Data

LEMMA RowsTyped ==
    ASSUME NEW l \in [Accounts -> Data \cup {NoAccount}]
    PROVE  RowsOf(l) \subseteq [index : {"ProgramId", "SplTokenOwner", "SplTokenMint"},
                                key : Programs \cup Keys, indexed : Accounts]
  <1>1. ASSUME NEW a \in Accounts, Indexable(l[a])
        PROVE  {Row("ProgramId", l[a].program, a), Row("SplTokenOwner", l[a].owner, a),
                Row("SplTokenMint", l[a].mint, a)}
               \subseteq [index : {"ProgramId", "SplTokenOwner", "SplTokenMint"},
                          key : Programs \cup Keys, indexed : Accounts]
    <2>1. l[a].program \in Programs /\ l[a].owner \in Keys /\ l[a].mint \in Keys
      BY <1>1, DataFacts DEF Programs
    <2> QED
      BY <2>1 DEF Row
  <1> QED
    BY <1>1 DEF RowsOf

LEMMA Initially == Init => IInv
  <1> SUFFICES ASSUME Init PROVE IInv
    OBVIOUS
  <1> USE DEF Init
  <1>1. TypeOK
    <2>1. PICK before \in [Accounts -> Data \cup {NoAccount}] :
              rows = RowsOf(before) \cup RowsOf(ledger)
      OBVIOUS
    <2>2. rows \subseteq [index : {"ProgramId", "SplTokenOwner", "SplTokenMint"},
                          key : Programs \cup Keys, indexed : Accounts]
      BY <2>1, RowsTyped
    <2>3. <<>> \in Seq(Filter)
      OBVIOUS
    <2> QED
      BY <2>2, <2>3 DEF TypeOK
  <1>2. RowsKept
    BY DEF RowsKept
  <1>3. Silent /\ Kept /\ Routed /\ Found /\ ShownPasses /\ PassingShown
    BY DEF Silent, Kept, Routed, Found, ShownPasses, PassingShown
  <1> QED
    BY <1>1, <1>2, <1>3 DEF IInv

\* The table and the accounts stand still.
LEMMA WorldStands ==
    ASSUME RowsKept, UNCHANGED world
    PROVE  RowsKept'
  BY DEF RowsKept, world, RowsOf, Indexable, Row

LEMMA StutterStep == IInv /\ UNCHANGED vars => IInv'
  <1> SUFFICES ASSUME IInv, UNCHANGED vars PROVE IInv'
    OBVIOUS
  <1> USE DEF vars, world
  <1>1. TypeOK'
    BY DEF IInv, TypeOK
  <1>2. RowsKept'
    BY WorldStands DEF IInv
  <1>3. Silent' /\ Kept' /\ Found'
    BY DEF IInv, Silent, Kept, Found, Wanted, Selected
  <1>4. Routed'
    BY DEF IInv, Routed, Wanted, Selected, Added, Meaning
  <1>5. ShownPasses' /\ PassingShown'
    BY DEF IInv, ShownPasses, PassingShown, Selected
  <1> QED
    BY <1>1, <1>2, <1>3, <1>4, <1>5 DEF IInv

LEMMA ProgramStep ==
    ASSUME IInv, step = "idle", NEW p \in Programs, NEW fs \in Lists, GetProgramAccounts(p, fs)
    PROVE  IInv'
  <1> USE DEF GetProgramAccounts, world
  <1>1. fs \in Seq(Filter)
    BY ListsAssumption
  <1>2. TypeOK'
    BY <1>1 DEF IInv, TypeOK
  <1>3. RowsKept'
    BY WorldStands DEF IInv
  <1>4. Silent' /\ Kept' /\ Routed' /\ Found' /\ ShownPasses' /\ PassingShown'
    BY DEF IInv, Silent, Kept, Routed, Found, ShownPasses, PassingShown
  <1> QED
    BY <1>2, <1>3, <1>4 DEF IInv

LEMMA OwnerStep ==
    ASSUME IInv, step = "idle", NEW p \in TokenPrograms, NEW k \in Keys,
           NEW mint \in {<<>>} \cup {<<IsKey(m, "mint")>> : m \in Keys},
           GetTokenAccountsByOwner(p, k, mint)
    PROVE  IInv'
  <1> USE DEF GetTokenAccountsByOwner, world
  <1>0. /\ State \in Filter /\ IsKey(k, "owner") \in Filter
        /\ mint \in Seq(Filter)
    <2>1. CASE mint = <<>>
      BY <2>1, FilterFacts
    <2>2. ASSUME NEW m \in Keys, mint = <<IsKey(m, "mint")>>
          PROVE  mint \in Seq(Filter)
      <3>1. IsKey(m, "mint") \in Filter
        BY FilterFacts
      <3> QED
        BY <2>2, <3>1
    <2> QED
      BY <2>1, <2>2, FilterFacts
  <1>1. /\ Append(mint, IsKey(k, "owner")) = mint \o <<IsKey(k, "owner")>>
        /\ Append(mint, IsKey(k, "owner")) \in Seq(Filter)
    BY <1>0
  <1>2. TypeOK'
    BY <1>0, <1>1 DEF IInv, TypeOK, Programs
  <1>3. RowsKept'
    BY WorldStands DEF IInv
  <1>4. Silent' /\ Kept' /\ Found' /\ ShownPasses' /\ PassingShown'
    BY DEF IInv, Silent, Kept, Found, ShownPasses, PassingShown
  <1>5. Routed'
    <2>1. Added' = mint \o <<State, IsKey(k, "owner")>>
      BY DEF Added, Meaning
    <2>2. <<State, IsKey(k, "owner")>> \in Seq(Filter) /\ <<IsKey(k, "owner")>> \in Seq(Filter)
      BY <1>0
    <2>3. ASSUME NEW a \in Accounts
          PROVE  Selected(p, Added', ledger[a])
                     <=> /\ Selected(p, mint, ledger[a])
                         /\ Selected(p, <<State, IsKey(k, "owner")>>, ledger[a])
      BY <1>0, <2>1, <2>2, SelectedBoth
    <2>4. ASSUME NEW a \in Accounts
          PROVE  Selected(p, asked', ledger[a])
                     <=> /\ Selected(p, mint, ledger[a])
                         /\ Selected(p, <<IsKey(k, "owner")>>, ledger[a])
      <3>1. asked' = mint \o <<IsKey(k, "owner")>>
        BY <1>1
      <3>2. mint \in Seq(Filter) /\ <<IsKey(k, "owner")>> \in Seq(Filter)
        BY <1>0, <2>2
      <3>3. Selected(p, mint \o <<IsKey(k, "owner")>>, ledger[a])
                <=> /\ Selected(p, mint, ledger[a])
                    /\ Selected(p, <<IsKey(k, "owner")>>, ledger[a])
        BY <3>2, SelectedBoth
      <3> QED
        BY <3>1, <3>3
    <2>5. ASSUME NEW a \in Accounts
          PROVE  /\ Selected(p, <<State, IsKey(k, "owner")>>, ledger[a])
                       <=> ledger[a].program = p /\ Passes(State, ledger[a])
                                                 /\ Passes(IsKey(k, "owner"), ledger[a])
                 /\ Selected(p, <<IsKey(k, "owner")>>, ledger[a])
                       <=> ledger[a].program = p /\ Passes(IsKey(k, "owner"), ledger[a])
      <3>1. /\ DOMAIN <<State, IsKey(k, "owner")>> = {1, 2}
            /\ <<State, IsKey(k, "owner")>>[1] = State
            /\ <<State, IsKey(k, "owner")>>[2] = IsKey(k, "owner")
            /\ DOMAIN <<IsKey(k, "owner")>> = {1}
            /\ <<IsKey(k, "owner")>>[1] = IsKey(k, "owner")
        OBVIOUS
      <3> QED
        BY <3>1 DEF Selected
    <2>6. ASSUME NEW a \in Accounts, Indexable(ledger[a])
          PROVE  Passes(State, ledger[a])
      BY <2>6 DEF Passes, State, Indexable
    <2>7. ASSUME NEW a \in Accounts, Passes(IsKey(k, "owner"), ledger[a])
          PROVE  ledger[a].owner = k
      BY <2>7 DEF Passes, Compares, IsKey
    <2>8. ASSUME NEW a \in Accounts, Wanted(a)'
          PROVE  /\ Selected(p, Added', ledger[a])
                 /\ Row("SplTokenOwner", k, a) \in rows
      <3>1. Indexable(ledger[a]) /\ Selected(p, asked', ledger[a])
        BY <2>8 DEF Wanted, Indexable, Selected
      <3>2. Passes(State, ledger[a]) /\ ledger[a].owner = k
        BY <3>1, <2>4, <2>5, <2>6, <2>7
      <3>3. Row("SplTokenOwner", ledger[a].owner, a) \in rows
        BY <3>1, Indexed DEF IInv, RowsKept
      <3> QED
        BY <2>3, <2>4, <2>5, <3>1, <3>2, <3>3
    <2>9. ASSUME NEW a \in Accounts, Selected(p, Added', ledger[a])
          PROVE  Selected(p, asked', ledger[a])
      BY <2>3, <2>4, <2>5, <2>9
    <2>10. route' # NoRoute
      BY DEF NoRoute
    <2> QED
      BY <2>8, <2>9, <2>10 DEF Routed, Selected
  <1> QED
    BY <1>2, <1>3, <1>4, <1>5 DEF IInv

LEMMA LeaveStep == ASSUME IInv, Leave, UNCHANGED world PROVE IInv'
  <1> USE DEF Leave, world
  <1>1. TypeOK'
    <2>1. <<>> \in Seq(Filter)
      OBVIOUS
    <2> QED
      BY <2>1 DEF IInv, TypeOK
  <1>2. RowsKept'
    BY WorldStands DEF IInv
  <1>3. Silent' /\ Kept' /\ Routed' /\ Found' /\ ShownPasses' /\ PassingShown'
    BY DEF IInv, Silent, Kept, Routed, Found, ShownPasses, PassingShown
  <1> QED
    BY <1>1, <1>2, <1>3 DEF IInv

LEMMA OptimizeStep == ASSUME IInv, Optimize PROVE IInv'
  <1> USE DEF Optimize, world
  <1>1. /\ DOMAIN filters = 1 .. Len(filters) /\ Len(filters) \in Nat
        /\ \A i \in DOMAIN filters : filters[i] \in Filter
        /\ filters' = [i \in DOMAIN filters |-> Decoded(filters[i])]
    BY DEF IInv, TypeOK, Decoded
  <1>2. \A i \in DOMAIN filters : Decoded(filters[i]) \in Filter
    BY <1>1, Decoding
  <1>3. filters' \in Seq(Filter)
    BY <1>1, <1>2
  <1>4. ASSUME NEW a \in Accounts
        PROVE  Selected(program, filters', ledger[a]) <=> Selected(program, filters, ledger[a])
    <2>1. \A i \in DOMAIN filters : Passes(filters'[i], ledger[a])
                                       <=> Passes(filters[i], ledger[a])
      BY <1>1, Decoding
    <2>2. DOMAIN filters' = DOMAIN filters
      BY <1>1
    <2> QED
      BY <2>1, <2>2 DEF Selected
  <1>5. TypeOK'
    BY <1>3 DEF IInv, TypeOK
  <1>6. RowsKept'
    BY WorldStands DEF IInv
  <1>7. Kept'
    <2>1. \A a \in Accounts : Selected(program, filters, ledger[a])
                                  <=> Selected(program, asked, ledger[a])
      BY DEF IInv, Kept
    <2>2. \A a \in Accounts : Selected(program, filters', ledger[a])
                                  <=> Selected(program, asked, ledger[a])
      BY <1>4, <2>1
    <2> QED
      BY <2>2 DEF IInv, Kept, Selected
  <1>8. Silent' /\ Routed' /\ Found' /\ ShownPasses' /\ PassingShown'
    BY DEF IInv, Silent, Routed, Found, ShownPasses, PassingShown
  <1> QED
    BY <1>5, <1>6, <1>7, <1>8 DEF IInv

\* What a route must bring: its key is one the index has, and an account that
\* is wanted is under it and passes what the index stands for.
LEMMA RouteStep ==
    ASSUME IInv, NEW index, NEW k, RouteTo(index, k),
           [index |-> index, key |-> k]
               \in [index : {"ProgramId"}, key : Programs]
                   \cup [index : {"SplTokenOwner", "SplTokenMint"}, key : Keys],
           Meaning' \in Seq(Filter),
           \A a \in Accounts : Wanted(a) => /\ Selected(program, Meaning', ledger[a])
                                             /\ Row(index, k, a) \in rows
    PROVE  IInv'
  <1> USE DEF RouteTo, world
  <1>1. TypeOK'
    BY DEF IInv, TypeOK
  <1>2. RowsKept'
    BY WorldStands DEF IInv
  <1>3. Silent' /\ Kept' /\ Found' /\ ShownPasses' /\ PassingShown'
    BY DEF IInv, Silent, Kept, Found, ShownPasses, PassingShown
  <1>4. Routed'
    <2>1. Added' \in {filters \o Meaning'} /\ filters \in Seq(Filter)
      BY DEF Added, IInv, TypeOK
    <2>2. ASSUME NEW a \in Accounts
          PROVE  Selected(program, Added', ledger[a])
                     <=> /\ Selected(program, filters, ledger[a])
                         /\ Selected(program, Meaning', ledger[a])
      <3>1. Added' = filters \o Meaning'
        BY <2>1
      <3> QED
        BY <2>1, <3>1, SelectedBoth
    <2>3. \A a \in Accounts : Selected(program, filters, ledger[a])
                                  <=> Selected(program, asked, ledger[a])
      BY DEF IInv, Kept
    <2>4. \A a \in Accounts : Selected(program, Added', ledger[a])
                                  => Selected(program, asked, ledger[a])
      BY <2>2, <2>3
    <2>5. \A a \in Accounts : Wanted(a) => /\ Selected(program, Added', ledger[a])
                                            /\ Row(index, k, a) \in rows
      BY <2>2, <2>3 DEF Wanted
    <2>6. /\ \A a \in Accounts : Wanted(a)' <=> Wanted(a)
          /\ program' = program /\ asked' = asked /\ ledger' = ledger /\ rows' = rows
      BY DEF Wanted, Selected
    <2>7. route' = [index |-> index, key |-> k] /\ route' # NoRoute
      BY DEF NoRoute
    <2> QED
      BY <2>4, <2>5, <2>6, <2>7 DEF Routed, Selected
  <1> QED
    BY <1>1, <1>2, <1>3, <1>4 DEF IInv

\* The filter that gives a key is passed by the accounts with that key alone.
LEMMA GivesKey ==
    ASSUME IInv, step = "route", NEW i \in DOMAIN filters, NEW name \in {"owner", "mint"},
           Gives(i, name)
    PROVE  /\ filters[i].key \in Keys
           /\ \A a \in Accounts : Wanted(a) => ledger[a][name] = filters[i].key
  <1>1. i \in Naming(filters, name)
    BY DEF Gives, IsLast
  <1>2. /\ filters[i] \in Filter /\ filters[i].kind = "Memcmp"
        /\ filters[i].field = name /\ filters[i].whole
    <2>1. filters[i] \in Filter
      BY DEF IInv, TypeOK
    <2> QED
      BY <1>1, <2>1 DEF Naming, Raw
  <1>3. filters[i].key \in Keys
    BY <1>2 DEF Filter
  <1>4. ASSUME NEW a \in Accounts, Wanted(a)
        PROVE  ledger[a][name] = filters[i].key
    <2>1. Selected(program, filters, ledger[a])
      BY <1>4 DEF IInv, Kept, Wanted
    <2>2. Passes(filters[i], ledger[a])
      BY <2>1 DEF Selected
    <2> QED
      BY <1>2, <2>2 DEF Passes, Compares
  <1> QED
    BY <1>3, <1>4

\* A wanted account with the key passes what the index of this key stands for.
LEMMA MeaningPassed ==
    ASSUME NEW name \in {"owner", "mint"}, NEW k \in Keys, NEW a \in Accounts,
           Wanted(a), ledger[a][name] = k
    PROVE  /\ <<State, IsKey(k, name)>> \in Seq(Filter)
           /\ Selected(program, <<State, IsKey(k, name)>>, ledger[a])
  <1>1. State \in Filter /\ IsKey(k, name) \in Filter
    BY FilterFacts
  <1>2. Passes(State, ledger[a])
    BY DEF Passes, State, Wanted, Indexable
  <1>3. Passes(IsKey(k, name), ledger[a])
    BY DEF Passes, IsKey, Compares
  <1>4. ledger[a].program = program
    BY DEF Wanted, Selected
  <1>5. /\ DOMAIN <<State, IsKey(k, name)>> = {1, 2}
        /\ <<State, IsKey(k, name)>>[1] = State
        /\ <<State, IsKey(k, name)>>[2] = IsKey(k, name)
    OBVIOUS
  <1>6. Selected(program, <<State, IsKey(k, name)>>, ledger[a])
    BY <1>2, <1>3, <1>4, <1>5 DEF Selected
  <1> QED
    BY <1>1, <1>6

LEMMA ByOwnerStep == ASSUME IInv, NEW i \in DOMAIN filters, ByOwner(i) PROVE IInv'
  <1> DEFINE k == filters[i].key
  <1>1. Gives(i, "owner") /\ RouteTo("SplTokenOwner", k) /\ step = "route"
    BY DEF ByOwner, RouteTo
  <1>2. k \in Keys /\ \A a \in Accounts : Wanted(a) => ledger[a].owner = k
    BY <1>1, GivesKey
  <1>3. Meaning' = <<State, IsKey(k, "owner")>>
    BY <1>1 DEF RouteTo, Meaning
  <1>4. Meaning' \in Seq(Filter)
    <2>1. State \in Filter /\ IsKey(k, "owner") \in Filter
      BY <1>2, FilterFacts
    <2> QED
      BY <1>3, <2>1
  <1>5. ASSUME NEW a \in Accounts, Wanted(a)
        PROVE  Selected(program, Meaning', ledger[a]) /\ Row("SplTokenOwner", k, a) \in rows
    <2>1. ledger[a].owner = k
      BY <1>2, <1>5
    <2>2. Selected(program, <<State, IsKey(k, "owner")>>, ledger[a])
      BY <1>2, <1>5, <2>1, MeaningPassed
    <2>3. Row("SplTokenOwner", ledger[a].owner, a) \in rows
      BY <1>5, Indexed DEF IInv, RowsKept, Wanted
    <2> QED
      BY <1>3, <2>1, <2>2, <2>3
  <1>6. [index |-> "SplTokenOwner", key |-> k]
            \in [index : {"SplTokenOwner", "SplTokenMint"}, key : Keys]
    BY <1>2
  <1> HIDE DEF k
  <1> QED
    BY <1>1, <1>4, <1>5, <1>6, RouteStep

LEMMA ByMintStep == ASSUME IInv, NEW i \in DOMAIN filters, ByMint(i) PROVE IInv'
  <1> DEFINE k == filters[i].key
  <1>1. Gives(i, "mint") /\ RouteTo("SplTokenMint", k) /\ step = "route"
    BY DEF ByMint, RouteTo
  <1>2. k \in Keys /\ \A a \in Accounts : Wanted(a) => ledger[a].mint = k
    BY <1>1, GivesKey
  <1>3. Meaning' = <<State, IsKey(k, "mint")>>
    BY <1>1 DEF RouteTo, Meaning
  <1>4. Meaning' \in Seq(Filter)
    <2>1. State \in Filter /\ IsKey(k, "mint") \in Filter
      BY <1>2, FilterFacts
    <2> QED
      BY <1>3, <2>1
  <1>5. ASSUME NEW a \in Accounts, Wanted(a)
        PROVE  Selected(program, Meaning', ledger[a]) /\ Row("SplTokenMint", k, a) \in rows
    <2>1. ledger[a].mint = k
      BY <1>2, <1>5
    <2>2. Selected(program, <<State, IsKey(k, "mint")>>, ledger[a])
      BY <1>2, <1>5, <2>1, MeaningPassed
    <2>3. Row("SplTokenMint", ledger[a].mint, a) \in rows
      BY <1>5, Indexed DEF IInv, RowsKept, Wanted
    <2> QED
      BY <1>3, <2>1, <2>2, <2>3
  <1>6. [index |-> "SplTokenMint", key |-> k]
            \in [index : {"SplTokenOwner", "SplTokenMint"}, key : Keys]
    BY <1>2
  <1> HIDE DEF k
  <1> QED
    BY <1>1, <1>4, <1>5, <1>6, RouteStep

LEMMA ByProgramStep == ASSUME IInv, ByProgram PROVE IInv'
  <1>1. RouteTo("ProgramId", program) /\ step = "route"
    BY DEF ByProgram, RouteTo
  <1>2. program \in Programs
    BY <1>1 DEF IInv, Kept
  <1>3. Meaning' = <<>> /\ <<>> \in Seq(Filter)
    BY <1>1 DEF RouteTo, Meaning
  <1>4. ASSUME NEW a \in Accounts, Wanted(a)
        PROVE  Selected(program, Meaning', ledger[a]) /\ Row("ProgramId", program, a) \in rows
    <2>1. ledger[a].program = program
      BY <1>4 DEF Wanted, Selected
    <2>2. Selected(program, <<>>, ledger[a])
      BY <2>1 DEF Selected
    <2>3. Row("ProgramId", ledger[a].program, a) \in rows
      BY <1>4, Indexed DEF IInv, RowsKept, Wanted
    <2> QED
      BY <1>3, <2>1, <2>2, <2>3
  <1>5. [index |-> "ProgramId", key |-> program] \in [index : {"ProgramId"}, key : Programs]
    BY <1>2
  <1> QED
    BY <1>1, <1>3, <1>4, <1>5, RouteStep

LEMMA LookupStep == ASSUME IInv, Lookup PROVE IInv'
  <1> USE DEF Lookup, world
  <1>1. Meaning \in Seq(Filter)
    <2>1. CASE route.index = "ProgramId"
      BY <2>1 DEF Meaning
    <2>2. CASE route.index # "ProgramId"
      <3>1. route.key \in Keys
        BY <2>2 DEF IInv, TypeOK, Routed
      <3>2. /\ State \in Filter /\ IsKey(route.key, "owner") \in Filter
            /\ IsKey(route.key, "mint") \in Filter
        BY <3>1, FilterFacts
      <3> QED
        BY <2>2, <3>2 DEF Meaning
    <2> QED
      BY <2>1, <2>2
  <1>2. filters' \in Seq(Filter)
    <2>1. filters \in Seq(Filter)
      BY DEF IInv, TypeOK
    <2> QED
      BY <1>1, <2>1, ConcatProperties DEF Added
  <1>3. keys' \subseteq Accounts /\ answer = {}
    BY DEF IInv, TypeOK, Silent
  <1>4. TypeOK'
    BY <1>2, <1>3 DEF IInv, TypeOK
  <1>5. RowsKept'
    BY WorldStands DEF IInv
  <1>6. Found'
    <2>1. /\ \A a \in Accounts : Selected(program, Added, ledger[a])
                                     => Selected(program, asked, ledger[a])
          /\ \A a \in Accounts : Wanted(a) => /\ Selected(program, Added, ledger[a])
                                                /\ Row(route.index, route.key, a) \in rows
      BY DEF IInv, Routed
    <2>2. ASSUME NEW a \in Accounts, Row(route.index, route.key, a) \in rows
          PROVE  a \in keys'
      BY <2>2 DEF Row
    <2>3. \A a \in Accounts : Wanted(a)' <=> Wanted(a)
      BY DEF Wanted, Selected
    <2>4. filters' = Added /\ program' = program /\ asked' = asked /\ ledger' = ledger
      OBVIOUS
    <2>5. \A a \in Accounts : Selected(program, filters, ledger[a])'
                                  <=> Selected(program, Added, ledger[a])
      BY <2>4 DEF Selected
    <2>6. \A a \in Accounts : Selected(program, asked, ledger[a])'
                                  <=> Selected(program, asked, ledger[a])
      BY <2>4 DEF Selected
    <2> QED
      BY <2>1, <2>2, <2>3, <2>5, <2>6 DEF Found
  <1>7. Silent' /\ Kept' /\ Routed' /\ ShownPasses' /\ PassingShown'
    BY DEF IInv, Silent, Kept, Routed, ShownPasses, PassingShown
  <1> QED
    BY <1>4, <1>5, <1>6, <1>7 DEF IInv

LEMMA ScanStep == ASSUME IInv, Scan PROVE IInv'
  <1> USE DEF Scan, world
  <1>1. answer' \subseteq keys /\ keys \subseteq Accounts
    BY DEF IInv, TypeOK
  <1>2. TypeOK'
    BY <1>1 DEF IInv, TypeOK
  <1>3. RowsKept'
    BY WorldStands DEF IInv
  <1>4. ShownPasses' /\ PassingShown'
    <2>1. \A a \in answer' : Selected(program, asked, ledger[a])
      BY <1>1 DEF IInv, Found
    <2>2. \A a \in Accounts : Wanted(a) => a \in answer'
      BY DEF IInv, Found
    <2> QED
      BY <2>1, <2>2 DEF ShownPasses, PassingShown, Wanted, Selected
  <1>5. Silent' /\ Kept' /\ Routed' /\ Found'
    BY DEF IInv, Silent, Kept, Routed, Found
  <1> QED
    BY <1>2, <1>3, <1>4, <1>5 DEF IInv

LEMMA NextStep == IInv /\ [Next]_vars => IInv'
  <1> SUFFICES ASSUME IInv, [Next]_vars PROVE IInv'
    OBVIOUS
  <1>1. CASE Receive
    <2>1. step = "idle"
      BY <1>1 DEF Receive
    <2> QED
      BY <1>1, <2>1, ProgramStep, OwnerStep DEF Receive
  <1>2. CASE Refuse \/ Reply
    BY <1>2, LeaveStep DEF Refuse, Reply
  <1>3. CASE Route
    BY <1>3, ByProgramStep, ByOwnerStep, ByMintStep DEF Route
  <1>4. CASE Optimize
    BY <1>4, OptimizeStep
  <1>5. CASE Lookup
    BY <1>5, LookupStep
  <1>6. CASE Scan
    BY <1>6, ScanStep
  <1>7. CASE UNCHANGED vars
    BY <1>7, StutterStep
  <1> QED
    BY <1>1, <1>2, <1>3, <1>4, <1>5, <1>6, <1>7 DEF Next

\* The invariant all of these follow from: each step of the handler keeps the
\* meaning of the caller's list.
THEOREM Invariance == Spec => []IInv
  <1>1. Init => IInv
    BY Initially
  <1>2. IInv /\ [Next]_vars => IInv'
    BY NextStep
  <1> QED
    BY <1>1, <1>2, PTL DEF Spec

\* The keys of the index, the route and the filters have their types, and what
\* is shown was found in the index.
THEOREM TypeCorrect == Spec => []TypeOK
  <1>1. IInv => TypeOK
    BY DEF IInv
  <1> QED
    BY <1>1, Invariance, PTL

\* Whatever lists callers send: what getProgramAccounts and
\* getTokenAccountsByOwner show passes every filter of the list.
THEOREM WhatIsShownPasses == Spec => []ShownPasses
  <1>1. IInv => ShownPasses
    BY DEF IInv
  <1> QED
    BY <1>1, Invariance, PTL

\* Whatever lists callers send: the index that get_spl_token_owner_filter and
\* get_spl_token_mint_filter choose hides no indexed account that passes.
THEOREM WhatPassesIsShown == Spec => []PassingShown
  <1>1. IInv => PassingShown
    BY DEF IInv
  <1> QED
    BY <1>1, Invariance, PTL
=============================================================================
