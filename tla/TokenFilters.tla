---------------------------- MODULE TokenFilters ----------------------------
(***************************************************************************)
(* The way a caller's filters take in getProgramAccounts and               *)
(* getTokenAccountsByOwner (src/src/rpc/solana/mod.rs): they are verified, *)
(* decoded, and decide which of the three indexes the keys come from; what *)
(* that index stands for is added to them, and the node applies them all   *)
(* to the accounts of these keys.                                          *)
(*                                                                         *)
(* An account is what the filters look at: its program, its size, and the  *)
(* fields of a token account.  The ledger stands still here; SolanaReads   *)
(* has the same scans on one that moves.                                   *)
(***************************************************************************)
EXTENDS Naturals, Sequences

CONSTANTS Accounts,
          Keys,       \* public keys: owners, mints
          Zero,       \* the key all of whose bytes are zero
          Beginning,  \* the first bytes of each key
          Lists,      \* the lists of filters callers send
          MaxFilters  \* MAX_GET_PROGRAM_ACCOUNT_FILTERS

TokenPrograms == {"token", "token_2022"}
Programs      == TokenPrograms \cup {"other"}
TokenSize     == 165
Sizes         == {TokenSize, TokenSize + 5}

\* live: it is a token account and initialized.  type: the byte behind a token
\* account, in an account of Token-2022 that has extensions.
Data ==
    [program : TokenPrograms, size : {TokenSize}, live : {TRUE}, owner : Keys,
     mint : Keys, type : {"none"}]
    \cup [program : TokenPrograms, size : {TokenSize}, live : {FALSE}, owner : {Zero},
          mint : {Zero}, type : {"none"}]
    \cup [program : {"token_2022"}, size : Sizes \ {TokenSize}, live : {TRUE}, owner : Keys,
          mint : Keys, type : {"account"}]
    \cup [program : {"token_2022"}, size : Sizes \ {TokenSize}, live : {FALSE}, owner : {Zero},
          mint : {Zero}, type : {"mint"}]
    \cup [program : {"other"}, size : {TokenSize}, live : {FALSE}, owner : Keys,
          mint : Keys, type : {"none"}]

NoAccount == [program |-> "none"]

Filter ==
    [kind : {"DataSize"}, size : Sizes]
    \cup [kind : {"TokenAccountState"}]
    \cup [kind : {"Memcmp"}, field : {"owner", "mint"}, key : Keys, whole : BOOLEAN,
          form : {"raw", "encoded", "bad"}]
    \cup [kind : {"Memcmp"}, field : {"type"}, type : {"account", "mint"},
          form : {"raw", "encoded", "bad"}]

ASSUME ZeroAssumption  == Zero \in Keys
ASSUME ListsAssumption == Lists \subseteq Seq(Filter)

VARIABLES ledger,   \* the accounts
          rows,     \* the table accounts_index
          program,  \* the program that is scanned
          asked,    \* history: the filters as the caller means them
          filters,  \* the handler's filters
          step,     \* where the handler is
          route,    \* the index it goes through, and the key it looks up
          keys,     \* what it found there
          answer

world == <<ledger, rows>>
vars  == <<world, program, asked, filters, step, route, keys, answer>>

-----------------------------------------------------------------------------
State     == [kind |-> "TokenAccountState"]
IsKey(k, name) == [kind |-> "Memcmp", field |-> name, key |-> k, whole |-> TRUE,
                   form |-> "raw"]

\* The bytes of the field are there: all of it, or its beginning.
Compares(f, d) ==
    IF f.field = "type" THEN d.size > TokenSize /\ d.type = f.type
    ELSE IF f.whole     THEN d[f.field] = f.key
                        ELSE Beginning[d[f.field]] = Beginning[f.key]

Passes(f, d) ==
    \/ f.kind = "DataSize" /\ d.size = f.size
    \/ f.kind = "TokenAccountState" /\ d.size = TokenSize /\ d.live
    \/ f.kind = "Memcmp" /\ Compares(f, d)

\* What the node does with a program and filters.
Selected(p, fs, d) == d.program = p /\ \A i \in DOMAIN fs : Passes(fs[i], d)

\* The accounts an indexer adds, and their rows.
Indexable(d) == d.program \in TokenPrograms /\ d.size = TokenSize /\ d.live

Row(index, k, a) == [index |-> index, key |-> k, indexed |-> a]
RowsOf(l) ==
    UNION {{Row("ProgramId", l[a].program, a), Row("SplTokenOwner", l[a].owner, a),
            Row("SplTokenMint", l[a].mint, a)} : a \in {b \in Accounts : Indexable(l[b])}}

-----------------------------------------------------------------------------
(* The analysis of filters.  Among several of a sort the last one counts.  *)

IsLast(i, S) == i \in S /\ \A j \in S : j <= i

Raw(f) == f.kind = "Memcmp" /\ f.form = "raw"

\* Fault variant: the beginning of a key is taken for it.
Naming_Beginnings(fs, name) == {i \in DOMAIN fs : Raw(fs[i]) /\ fs[i].field = name}

\* The filters that compare all bytes of a field that holds a key.
Naming(fs, name) == {i \in DOMAIN fs : Raw(fs[i]) /\ fs[i].field = name /\ fs[i].whole}

\* Nothing but token accounts can pass.
OnlyTokenAccounts(p, fs) ==
    \/ \E i \in DOMAIN fs :
          /\ IsLast(i, {j \in DOMAIN fs : fs[j].kind = "DataSize"})
          /\ fs[i].size = TokenSize
    \/ /\ p = "token_2022"
       /\ \E i \in DOMAIN fs :
             /\ IsLast(i, {j \in DOMAIN fs : Raw(fs[j]) /\ fs[j].field = "type"})
             /\ fs[i].type = "account"
    \/ \E i \in DOMAIN fs : fs[i].kind = "TokenAccountState"

\* get_spl_token_owner_filter and get_spl_token_mint_filter: filter i gives
\* the key to look up.
Gives(i, name) ==
    /\ program \in TokenPrograms
    /\ OnlyTokenAccounts(program, filters)
    /\ IsLast(i, Naming(filters, name))

-----------------------------------------------------------------------------
NoRoute == [index |-> "none"]

Init == /\ ledger \in [Accounts -> Data \cup {NoAccount}]
        /\ \E before \in [Accounts -> Data \cup {NoAccount}] :
              rows = RowsOf(before) \cup RowsOf(ledger)
        /\ program = "none"
        /\ asked = <<>>
        /\ filters = <<>>
        /\ step = "idle"
        /\ route = NoRoute
        /\ keys = {}
        /\ answer = {}

GetProgramAccounts(p, fs) ==
    /\ program' = p
    /\ asked' = fs
    /\ filters' = fs
    /\ step' = "verify"
    /\ UNCHANGED <<world, route, keys, answer>>

\* By owner k, and perhaps by a mint too.
GetTokenAccountsByOwner(p, k, mint) ==
    /\ program' = p
    /\ asked' = Append(mint, IsKey(k, "owner"))
    /\ filters' = mint
    /\ route' = [index |-> "SplTokenOwner", key |-> k]
    /\ step' = "lookup"
    /\ UNCHANGED <<world, keys, answer>>

Receive ==
    /\ step = "idle"
    /\ \/ \E p \in Programs, fs \in Lists : GetProgramAccounts(p, fs)
       \/ \E p \in TokenPrograms, k \in Keys,
             mint \in {<<>>} \cup {<<IsKey(m, "mint")>> : m \in Keys} :
             GetTokenAccountsByOwner(p, k, mint)

Verified == /\ Len(filters) <= MaxFilters
            /\ \A i \in DOMAIN filters : filters[i].kind = "Memcmp" => filters[i].form # "bad"

Leave == /\ step' = "idle"
         /\ program' = "none"
         /\ asked' = <<>>
         /\ filters' = <<>>
         /\ route' = NoRoute
         /\ keys' = {}
         /\ answer' = {}

Refuse ==
    /\ step = "verify"
    /\ ~Verified
    /\ Leave
    /\ UNCHANGED world

\* optimize_filters.
Optimize ==
    /\ step = "verify"
    /\ Verified
    /\ filters' = [i \in DOMAIN filters |->
                     IF filters[i].kind = "Memcmp" THEN [filters[i] EXCEPT !.form = "raw"]
                                                   ELSE filters[i]]
    /\ step' = "route"
    /\ UNCHANGED <<world, program, asked, route, keys, answer>>

RouteTo(index, k) ==
    /\ step = "route"
    /\ route' = [index |-> index, key |-> k]
    /\ step' = "lookup"
    /\ UNCHANGED <<world, program, asked, filters, keys, answer>>

ByOwner(i) == Gives(i, "owner") /\ RouteTo("SplTokenOwner", filters[i].key)

ByMint(i) ==
    /\ \A j \in DOMAIN filters : ~Gives(j, "owner")
    /\ Gives(i, "mint")
    /\ RouteTo("SplTokenMint", filters[i].key)

ByProgram ==
    /\ \A i \in DOMAIN filters : ~Gives(i, "owner") /\ ~Gives(i, "mint")
    /\ RouteTo("ProgramId", program)

\* What the index a scan goes through stands for.
Meaning ==
    IF route.index = "ProgramId"     THEN <<>>
    ELSE IF route.index = "SplTokenOwner" THEN <<State, IsKey(route.key, "owner")>>
                                          ELSE <<State, IsKey(route.key, "mint")>>

\* Fault variant: in the place of the caller's filters.
Added_Instead == IF route.index = "ProgramId" THEN filters ELSE Meaning

\* It is added to the caller's filters.
Added == filters \o Meaning

Lookup ==
    /\ step = "lookup"
    /\ filters' = Added
    /\ keys' = {r.indexed : r \in {x \in rows : x.index = route.index /\ x.key = route.key}}
    /\ step' = "scan"
    /\ UNCHANGED <<world, program, asked, route, answer>>

Scan ==
    /\ step = "scan"
    /\ answer' = {a \in keys : Selected(program, filters, ledger[a])}
    /\ step' = "reply"
    /\ UNCHANGED <<world, program, asked, filters, route, keys>>

Reply ==
    /\ step = "reply"
    /\ Leave
    /\ UNCHANGED world

Route == ByProgram \/ \E i \in DOMAIN filters : ByOwner(i) \/ ByMint(i)

Next == Receive \/ Refuse \/ Optimize \/ Route \/ Lookup \/ Scan \/ Reply

Spec == Init /\ [][Next]_vars

-----------------------------------------------------------------------------
(* Properties.                                                             *)

TypeOK ==
    /\ ledger \in [Accounts -> Data \cup {NoAccount}]
    /\ rows \subseteq [index : {"ProgramId", "SplTokenOwner", "SplTokenMint"},
                       key : Programs \cup Keys, indexed : Accounts]
    /\ program \in Programs \cup {"none"}
    /\ asked \in Seq(Filter) /\ filters \in Seq(Filter)
    /\ step \in {"idle", "verify", "route", "lookup", "scan", "reply"}
    /\ route \in [index : {"ProgramId"}, key : Programs]
                 \cup [index : {"SplTokenOwner", "SplTokenMint"}, key : Keys] \cup {NoRoute}
    /\ keys \subseteq Accounts /\ answer \subseteq keys

\* Whichever index the filters lead to, and whatever it has left of accounts
\* that are something else by now: what is shown is of the program and passes
\* every filter the caller gave, in the form he gave it.
ShownPasses ==
    step = "reply" => \A a \in answer : Selected(program, asked, ledger[a])

\* And no index hides an account: what is indexed and passes is shown, though
\* another filter of the list may name another key, a beginning of one, or
\* nothing a token account could ever have.
PassingShown ==
    step = "reply" =>
        \A a \in Accounts : Indexable(ledger[a]) /\ Selected(program, asked, ledger[a])
                                => a \in answer
=============================================================================
