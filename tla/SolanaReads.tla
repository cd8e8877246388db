----------------------------- MODULE SolanaReads -----------------------------
(***************************************************************************)
(* The reading handlers of src/src/rpc/solana/mod.rs, over the node calls  *)
(* of src/src/client/solana.rs.                                            *)
(*                                                                         *)
(* A handler asks the node for a block's hash, the best block's or the     *)
(* finalized one's, and then puts its answer together from several calls   *)
(* at that hash and a lookup in the accounts index.  Meanwhile the node    *)
(* imports blocks, reorganises and finalizes, and the index grows.  The    *)
(* first call that fails ends the handler with an error.                   *)
(*                                                                         *)
(* Handlers share nothing but the chain and the index, which they do not   *)
(* change, so there is one at a time.  Encoding, data slices and a caller's*)
(* further filters, which the node applies, are left out.                  *)
(***************************************************************************)
EXTENDS Naturals, Sequences

CONSTANTS Accounts, Owners, Mints,
          Programs,       \* the token programs
          NativeProgram,  \* the program of the native mint
          NativeMint,     \* a mint that is one with or without an account
          Methods,        \* the methods that are called
          Commitments,    \* and the commitments they are called with
          MaxAge,         \* blocks a blockhash stays valid for
          MaxBlocks       \* bound on the blocks of a behaviour

ASSUME NativeAssumption == NativeProgram \in Programs
ASSUME MaxAgeAssumption == MaxAge \in Nat
ASSUME CommitmentsAssumption == Commitments \subseteq {"processed", "confirmed", "finalized"}

VARIABLES blocks,   \* every block the node has imported
          best,     \* the tip of the chain it considers best
          final,    \* the block it finalized last
          rows,     \* the table accounts_index
          query,    \* the request being handled
          step,     \* the next call of its handler, or "reply", or "idle"
          hash,     \* the block it is pinned to
          program,  \* the token program it scans for
          keys,     \* what the lookup found
          ans,      \* the answer so far
          known     \* history: what the lookup would have found at the start

chain   == <<blocks, best, final>>
request == <<query, known>>
vars    == <<chain, rows, request, step, hash, program, keys, ans>>

-----------------------------------------------------------------------------
TokenState == [program : Programs, owner : Owners, mint : Mints]
NoToken    == [program |-> "none"]
State      == TokenState \cup {NoToken}
NoMint     == "none"

\* line: the block and its ancestors.  ledger, mints: the state after it.
Block == [line : SUBSET Nat, height : Nat, ledger : [Accounts -> State],
          mints : [Mints -> Programs \cup {NoMint}]]

At(key, state) == [key |-> key, state |-> state]

Indexes == {"ProgramId", "SplTokenOwner", "SplTokenMint"}
IndexKey(index, s) == CASE index = "ProgramId"     -> s.program
                        [] index = "SplTokenOwner" -> s.owner
                        [] index = "SplTokenMint"  -> s.mint

\* getAccountInfo and getBalance are for one account, getMultipleAccounts for a
\* list of them.  A balance is a part of the account's state.
AccountsQuery ==
    [method : {"getBalance"}, commitment : Commitments, parsed : {FALSE},
     accounts : {{a} : a \in Accounts}]
    \cup
    [method : {"getAccountInfo"}, commitment : Commitments, parsed : BOOLEAN,
     accounts : {{a} : a \in Accounts}]
    \cup
    [method : {"getMultipleAccounts"}, commitment : Commitments, parsed : BOOLEAN,
     accounts : SUBSET Accounts]

SimulateQuery ==
    [method : {"simulateTransaction"}, commitment : Commitments, parsed : BOOLEAN,
     replace : BOOLEAN, accounts : SUBSET Accounts]

\* The filters of getProgramAccounts decide on the index it goes through.
ScanQuery ==
    {q \in [method : {"getProgramAccounts"}, commitment : Commitments, parsed : BOOLEAN,
            program : Programs, mint : {"any"}, index : Indexes,
            key : Programs \cup Owners \cup Mints] :
        q.key \in CASE q.index = "ProgramId"     -> {q.program}
                    [] q.index = "SplTokenOwner" -> Owners
                    [] q.index = "SplTokenMint"  -> Mints}
    \cup
    [method : {"getTokenAccountsByOwner"}, commitment : Commitments, parsed : BOOLEAN,
     program : Programs, mint : {"any"}, index : {"SplTokenOwner"}, key : Owners]
    \cup
    [method : {"getTokenAccountsByOwner"}, commitment : Commitments, parsed : BOOLEAN,
     program : {"of mint"}, mint : Mints, index : {"SplTokenOwner"},
     key : Owners]

\* getSignatureStatuses reads at the best block, whatever it is asked.
OtherQuery ==
    [method : {"getLatestBlockhash", "getFeeForMessage"}, commitment : Commitments, parsed : {FALSE}]
    \cup
    [method : {"getSignatureStatuses"}, commitment : {"processed"}, parsed : {FALSE}]

Query   == {q \in AccountsQuery \cup SimulateQuery \cup ScanQuery \cup OtherQuery :
               q.method \in Methods}
NoQuery == [method |-> "none", commitment |-> "processed"]

IsScan(q) == q.method \in {"getProgramAccounts", "getTokenAccountsByOwner"}

\* The handler's calls, one after the other.
AfterSlot(q) ==
    CASE q.method \in {"getAccountInfo", "getBalance", "getMultipleAccounts"} -> "accounts"
      [] q.method = "getProgramAccounts"      -> "index"
      [] q.method = "getTokenAccountsByOwner" -> IF q.mint = "any" THEN "index" ELSE "mint"
      [] q.method = "getLatestBlockhash"      -> "height"
      [] q.method = "getFeeForMessage"        -> "fee"
      [] q.method = "getSignatureStatuses"    -> "reply"
      [] q.method = "simulateTransaction"     -> IF q.replace THEN "latest" ELSE "simulate"

After(s, q) ==
    CASE s = "hash"                    -> "slot"
      [] s = "slot"                    -> AfterSlot(q)
      [] s = "mint"                    -> "index"
      [] s = "index"                   -> "scan"
      [] s = "latest"                  -> "latest_height"
      [] s = "latest_height"           -> "simulate"
      [] s = "simulate"                -> "accounts"
      [] s \in {"scan", "accounts"}    -> IF q.parsed THEN "mints" ELSE "reply"
      [] s \in {"mints", "height", "fee"} -> "reply"

\* What an account must be like to be part of a scan's answer.
Matches(q, p, s) ==
    /\ s # NoToken
    /\ s.program = p
    /\ q.index # "ProgramId" => IndexKey(q.index, s) = q.key
    /\ q.mint # "any" => s.mint = q.mint

\* The mint of a token account has data in block b.
HasMint(b, s) == s # NoToken /\ blocks[b].mints[s.mint] # NoMint

NoAnswer == [slot |-> 0, height |-> 0, accounts |-> {}, mints |-> {},
             latest |-> 0, latest_height |-> 0, base |-> 0, post |-> {}]

-----------------------------------------------------------------------------
Init == /\ \E ledger \in [Accounts -> State], mints \in [Mints -> Programs \cup {NoMint}] :
             blocks = << [line |-> {1}, height |-> 1, ledger |-> ledger, mints |-> mints] >>
        /\ best = 1
        /\ final = 1
        /\ rows = {}
        /\ query = NoQuery
        /\ step = "idle"
        /\ hash = 0
        /\ program = "none"
        /\ keys = {}
        /\ ans = NoAnswer
        /\ known = {}

(* The node. *)

\* A block on top of a block that descends from the finalized one; the longest
\* chain is best.
Import(parent, ledger, mints) ==
    /\ Len(blocks) < MaxBlocks
    /\ final \in blocks[parent].line
    /\ blocks' = Append(blocks, [line   |-> blocks[parent].line \cup {Len(blocks) + 1},
                                 height |-> blocks[parent].height + 1,
                                 ledger |-> ledger, mints |-> mints])
    /\ best' = IF blocks[parent].height + 1 > blocks[best].height
               THEN Len(blocks) + 1 ELSE best
    /\ UNCHANGED <<final, rows, request, step, hash, program, keys, ans>>

\* Another block is finalized; the best chain has to contain it.
Finalize(b, tip) ==
    /\ b # final
    /\ final \in blocks[b].line
    /\ b \in blocks[tip].line
    /\ b \in blocks[best].line => tip = best
    /\ final' = b
    /\ best' = tip
    /\ UNCHANGED <<blocks, rows, request, step, hash, program, keys, ans>>

\* What an account was like in any block, one that was dropped since included.
Imported == {At(a, blocks[b].ledger[a]) : a \in Accounts, b \in 1 .. Len(blocks)}

Table == INSTANCE IndexTable WITH past <- Imported, Excluded <- {}, Persistent <- TRUE

\* The indexer, which implements IndexTable, inserts a row, of what it fetched
\* from the node some time ago.
InsertRow(index, e) ==
    /\ UNCHANGED <<chain, request, step, hash, program, keys, ans>>
    /\ Table!Insert(index, e)

-----------------------------------------------------------------------------
(* The handlers. *)

Found(q) == {r.indexed : r \in {x \in rows : x.index = q.index /\ x.key = q.key}}

Receive(q) ==
    /\ step = "idle"
    /\ query' = q
    /\ known' = IF IsScan(q) THEN Found(q) ELSE {}
    /\ step' = "hash"
    /\ UNCHANGED <<chain, rows, hash, program, keys, ans>>

\* The handler is over, its locals are gone.
Leave ==
    /\ query' = NoQuery
    /\ known' = {}
    /\ step' = "idle"
    /\ hash' = 0
    /\ program' = "none"
    /\ keys' = {}
    /\ ans' = NoAnswer

Reply ==
    /\ step = "reply"
    /\ Leave
    /\ UNCHANGED <<chain, rows>>

\* A call of Client::request or of the database fails.
Fail ==
    /\ step \notin {"idle", "reply"}
    /\ Leave
    /\ UNCHANGED <<chain, rows>>

Proceed == step' = After(step, query)

\* Fault variant: only finalized asks for the finalized block.
PinHash_Confirmed ==
    /\ step = "hash"
    /\ hash' = IF query.commitment = "finalized" THEN final ELSE best
    /\ Proceed
    /\ UNCHANGED <<chain, rows, request, program, keys, ans>>

\* get_hash_with_config.
PinHash ==
    /\ step = "hash"
    /\ hash' = IF query.commitment = "processed" THEN best ELSE final
    /\ Proceed
    /\ UNCHANGED <<chain, rows, request, program, keys, ans>>

\* get_slot.
ReadSlot ==
    /\ step = "slot"
    /\ ans' = [ans EXCEPT !.slot = blocks[hash].height]
    /\ Proceed
    /\ UNCHANGED <<chain, rows, request, hash, program, keys>>

\* get_last_valid_block_height at the pinned block.
ReadHeight ==
    /\ step = "height"
    /\ ans' = [ans EXCEPT !.height = blocks[hash].height + MaxAge]
    /\ Proceed
    /\ UNCHANGED <<chain, rows, request, hash, program, keys>>

\* get_fee_for_message: the node works it out in the pinned block.
ReadFee ==
    /\ step = "fee"
    /\ ans' = [ans EXCEPT !.base = hash]
    /\ Proceed
    /\ UNCHANGED <<chain, rows, request, hash, program, keys>>

\* get_token_program_id_and_mint: a mint stands for the program it is owned by.
ReadMintOwner ==
    /\ step = "mint"
    /\ \/ query.mint = NativeMint /\ program' = NativeProgram
       \/ /\ query.mint # NativeMint
          /\ blocks[hash].mints[query.mint] # NoMint
          /\ program' = blocks[hash].mints[query.mint]
    /\ Proceed
    /\ UNCHANGED <<chain, rows, request, hash, keys, ans>>

MintMissing ==
    /\ step = "mint"
    /\ query.mint # NativeMint
    /\ blocks[hash].mints[query.mint] = NoMint
    /\ Leave
    /\ UNCHANGED <<chain, rows>>

\* Fault variant: no by-mint index.
LookupIndex_NoMint ==
    /\ step = "index"
    /\ keys' = IF query.index = "SplTokenMint" THEN {} ELSE Found(query)
    /\ program' = IF query.program \in Programs THEN query.program ELSE program
    /\ Proceed
    /\ UNCHANGED <<chain, rows, request, hash, ans>>

\* get_indexed_keys.
LookupIndex ==
    /\ step = "index"
    /\ keys' = Found(query)
    /\ program' = IF query.program \in Programs THEN query.program ELSE program
    /\ Proceed
    /\ UNCHANGED <<chain, rows, request, hash, ans>>

\* get_filtered_indexed_accounts at block b, with those that pass the filters.
ScanAt(b, passed) ==
    /\ step = "scan"
    /\ ans' = [ans EXCEPT !.accounts = {At(a, blocks[b].ledger[a]) : a \in passed}]
    /\ keys' = {}
    /\ Proceed
    /\ UNCHANGED <<chain, rows, request, hash, program>>

\* Fault variant: without the filters the comments call redundant.
Scan_Unfiltered ==
    ScanAt(hash, {a \in keys : /\ blocks[hash].ledger[a] # NoToken
                               /\ blocks[hash].ledger[a].program = program})

\* Fault variant: at the best block of the moment (hash: None).
Scan_Latest ==
    ScanAt(best, {a \in keys : Matches(query, program, blocks[best].ledger[a])})

Scan == ScanAt(hash, {a \in keys : Matches(query, program, blocks[hash].ledger[a])})

\* latest_blockhash, for the transaction to simulate.
ReadLatest ==
    /\ step = "latest"
    /\ ans' = [ans EXCEPT !.latest = best]
    /\ Proceed
    /\ UNCHANGED <<chain, rows, request, hash, program, keys>>

\* get_last_valid_block_height at that block.
ReadLatestHeight ==
    /\ step = "latest_height"
    /\ ans' = [ans EXCEPT !.latest_height = blocks[ans.latest].height + MaxAge]
    /\ Proceed
    /\ UNCHANGED <<chain, rows, request, hash, program, keys>>

\* simulate_transaction leaves some accounts in new states, or fails, when no
\* account is read any more.
Simulate(post) ==
    /\ step = "simulate"
    /\ ans' = [ans EXCEPT !.base = hash, !.post = post]
    /\ \/ Proceed
       \/ post = {} /\ step' = "reply"
    /\ UNCHANGED <<chain, rows, request, hash, program, keys>>

\* Fault variant: what the node has goes before what the simulation left.
ReadAccounts_NoOverwrite ==
    /\ step = "accounts"
    /\ ans' = [ans EXCEPT !.accounts =
                  {At(a, blocks[hash].ledger[a]) : a \in query.accounts}]
    /\ Proceed
    /\ UNCHANGED <<chain, rows, request, hash, program, keys>>

\* get_accounts_from_overwrites_or_node.
Overwritten == {e.key : e \in ans.post}

ReadAccounts ==
    /\ step = "accounts"
    /\ ans' = [ans EXCEPT !.accounts =
                  {e \in ans.post : e.key \in query.accounts} \cup
                  {At(a, blocks[hash].ledger[a]) : a \in query.accounts \ Overwritten}]
    /\ Proceed
    /\ UNCHANGED <<chain, rows, request, hash, program, keys>>

\* get_parsed_token_account(s): the mints' data goes into the token accounts.
\* A scan leaves out the accounts whose mint has none.  A list of accounts is
\* searched for the token programs themselves, which are no token accounts, so
\* no mint is read for it.
ReadMints ==
    /\ step = "mints"
    /\ LET parsed == {e \in ans.accounts : HasMint(hash, e.state)}
           mints  == {At(e.state.mint, blocks[hash].mints[e.state.mint]) : e \in parsed}
       IN  ans' = [ans EXCEPT
                      !.accounts = IF IsScan(query) THEN parsed ELSE @,
                      !.mints = IF IsScan(query) \/ query.method = "getAccountInfo"
                                THEN mints ELSE @]
    /\ Proceed
    /\ UNCHANGED <<chain, rows, request, hash, program, keys>>

\* At most one account is left in a new state: more of them change alike.
PostStates == {{}} \cup {{At(a, s)} : a \in Accounts, s \in State}

Node ==
    \/ \E parent \in 1 .. Len(blocks), ledger \in [Accounts -> State],
          mints \in [Mints -> Programs \cup {NoMint}] : Import(parent, ledger, mints)
    \/ \E b, tip \in 1 .. Len(blocks) : Finalize(b, tip)
    \/ \E index \in Indexes, e \in Imported : InsertRow(index, e)

Call ==
    \/ PinHash \/ ReadSlot \/ ReadHeight \/ ReadFee \/ ReadMintOwner \/ MintMissing
    \/ LookupIndex \/ Scan \/ ReadLatest \/ ReadLatestHeight \/ ReadAccounts \/ ReadMints
    \/ \E post \in PostStates : Simulate(post)

Next == Node \/ (\E q \in Query : Receive(q)) \/ Call \/ Fail \/ Reply

Spec == Init /\ [][Next]_vars

-----------------------------------------------------------------------------
(* Properties.                                                             *)

AnswerSet == [slot : Nat, height : Nat, accounts : SUBSET [key : Accounts, state : State],
              mints : SUBSET [key : Mints, state : Programs], latest : Nat,
              latest_height : Nat, base : Nat, post : SUBSET [key : Accounts, state : State]]

Steps == {"idle", "hash", "slot", "height", "fee", "mint", "index", "scan", "latest", "latest_height",
          "simulate", "accounts", "mints", "reply"}

TypeOK ==
    /\ blocks \in Seq(Block)
    /\ best \in 1 .. Len(blocks)
    /\ final \in 1 .. Len(blocks)
    /\ rows \subseteq [index : Indexes, key : Programs \cup Owners \cup Mints,
                       indexed : Accounts]
    /\ known \subseteq Accounts
    /\ query \in Query \cup {NoQuery}
    /\ step \in Steps
    /\ hash \in 0 .. Len(blocks)
    /\ program \in Programs \cup {"none"}
    /\ keys \subseteq Accounts
    /\ ans \in AnswerSet

\* The parts of an answer all describe block b.
Describes(b) ==
    /\ ans.slot = blocks[b].height
    /\ ans.height \in {0, blocks[b].height + MaxAge}
    /\ ans.base \in {0, b}
    /\ \A e \in ans.accounts : e \in ans.post \/ e.state = blocks[b].ledger[e.key]
    /\ \A e \in ans.mints : e.state = blocks[b].mints[e.key]

\* Every answer is a picture of one block, although it is put together from up
\* to five calls between which the chain grows and reorganises; and of a block
\* that stays final, if the caller asked for one.
OneBlock ==
    step = "reply" =>
        \E b \in 1 .. Len(blocks) :
            /\ Describes(b)
            /\ query.commitment # "processed" => b \in blocks[final].line

\* An account is in the answer to a scan only if it belongs there in that block:
\* rows that are out of date, or stem from a block that was dropped since, do
\* not show.
ScanSound ==
    step = "reply" /\ IsScan(query) =>
        \A e \in ans.accounts :
            /\ Matches(query, program, blocks[hash].ledger[e.key])
            /\ query.parsed => \E m \in ans.mints : m.key = e.state.mint

\* No account is missing from it that was in the index when the request came,
\* and belongs there, and can be displayed as asked.
ScanComplete ==
    step = "reply" /\ IsScan(query) =>
        \A a \in Accounts :
            LET s == blocks[hash].ledger[a]
            IN  /\ a \in known
                /\ Matches(query, program, s)
                /\ query.parsed => HasMint(hash, s)
                => At(a, s) \in ans.accounts

\* A simulation shows each account asked for once, as the simulation left it if
\* it did, and the blockhash it put into the transaction goes with its height.
SimulationWhole ==
    step = "reply" /\ query.method = "simulateTransaction" =>
        /\ \A e, f \in ans.accounts : e.key = f.key => e = f
        /\ \A e \in ans.post : e.key \in query.accounts => e \in ans.accounts
        /\ query.replace => /\ ans.latest # 0
                            /\ ans.latest_height = blocks[ans.latest].height + MaxAge
=============================================================================
