-------------------------- MODULE SolanaReadsProofs --------------------------
(***************************************************************************)
(* The properties of SolanaReads, for any accounts, programs, owners and   *)
(* mints, and chains of any length and shape.                              *)
(***************************************************************************)
EXTENDS SolanaReads, TLAPS

-----------------------------------------------------------------------------
(* The inductive invariant.                                                *)

Blocks == 1 .. Len(blocks)

\* A block's line is closed under ancestry.
Ancestry ==
    \A b \in Blocks : /\ b \in blocks[b].line
                      /\ blocks[b].line \subseteq Blocks
                      /\ \A c \in blocks[b].line : blocks[c].line \subseteq blocks[b].line

\* A handler is pinned to a block that there is, and that stays final if a
\* final one was asked for.
Pinned ==
    step \notin {"idle", "hash"} =>
        /\ hash \in Blocks
        /\ query.commitment # "processed" => hash \in blocks[final].line

\* Where a handler can be, by its method.
Place ==
    /\ step # "idle" => query \in Query
    /\ step \in {"idle", "hash"} => ans = NoAnswer
    /\ step \in {"mint", "index", "scan"} => IsScan(query)
    /\ step = "mint" => query.mint \in Mints
    /\ step = "accounts" => ~IsScan(query) /\ query.accounts \subseteq Accounts
    /\ step = "mints" => query.parsed
    /\ step \in {"latest", "latest_height", "simulate"} =>
           query.method = "simulateTransaction"
    /\ step \in {"height", "fee"} =>
           query.method \in {"getLatestBlockhash", "getFeeForMessage"}

\* The answer so far describes the pinned block.
Pictured ==
    step \notin {"idle", "hash"} =>
        /\ step # "slot" => ans.slot = blocks[hash].height
        /\ ans.height \in {0, blocks[hash].height + MaxAge}
        /\ ans.base \in {0, hash}
        /\ \A e \in ans.accounts : e \in ans.post \/ e.state = blocks[hash].ledger[e.key]
        /\ \A e \in ans.mints : e.state = blocks[hash].mints[e.key]

Deserves(a) == Matches(query, program, blocks[hash].ledger[a])

\* What the lookup would have found at the start is in the index, then among
\* the keys, then in the answer, unless it does not belong there.
Carried ==
    IsScan(query) =>
        /\ step \in {"hash", "slot", "mint", "index"} => known \subseteq Found(query)
        /\ step = "scan" => known \subseteq keys
        /\ step \in {"mints", "reply"} =>
              /\ \A e \in ans.accounts : Deserves(e.key)
              /\ \A a \in known :
                    /\ Deserves(a)
                    /\ step = "reply" /\ query.parsed => HasMint(hash, blocks[hash].ledger[a])
                    => At(a, blocks[hash].ledger[a]) \in ans.accounts
        /\ step = "reply" /\ query.parsed =>
              \A e \in ans.accounts : \E m \in ans.mints : m.key = e.state.mint

\* A simulation's blockhash and its height, and what it left of the accounts.
Simulated ==
    query.method = "simulateTransaction" =>
        /\ step \in {"slot", "latest", "latest_height", "simulate"} =>
              ans.accounts = {} /\ ans.post = {}
        /\ step = "latest_height" => ans.latest \in Blocks
        /\ step \in {"simulate", "accounts", "mints", "reply"} /\ query.replace =>
              /\ ans.latest \in Blocks
              /\ ans.latest_height = blocks[ans.latest].height + MaxAge
        /\ \A e, f \in ans.post : e = f
        /\ step \in {"mints", "reply"} =>
              /\ \A e, f \in ans.accounts : e.key = f.key => e = f
              /\ \A e \in ans.post : e.key \in query.accounts => e \in ans.accounts

IInv ==
    /\ TypeOK
    /\ Ancestry
    /\ Pinned
    /\ Place
    /\ Pictured
    /\ Carried
    /\ Simulated

-----------------------------------------------------------------------------
(* What the requests look like and where the handlers go.                  *)

LEMMA QueryShape ==
    ASSUME NEW q \in Query
    PROVE  /\ q.method \in {"getAccountInfo", "getBalance", "getMultipleAccounts",
                            "simulateTransaction", "getProgramAccounts",
                            "getTokenAccountsByOwner", "getLatestBlockhash",
                            "getFeeForMessage", "getSignatureStatuses"}
           /\ q.method \in {"getAccountInfo", "getBalance", "getMultipleAccounts",
                            "simulateTransaction"} => q.accounts \subseteq Accounts
           /\ IsScan(q) => q.index \in Indexes
           /\ q.method = "getTokenAccountsByOwner" => q.mint = "any" \/ q.mint \in Mints
<1>1. q \in AccountsQuery \cup SimulateQuery \cup ScanQuery \cup OtherQuery
  BY DEF Query
<1>2. CASE q \in AccountsQuery
  BY <1>2 DEF AccountsQuery, IsScan
<1>3. CASE q \in SimulateQuery
  BY <1>3 DEF SimulateQuery, IsScan
<1>4. CASE q \in ScanQuery
  BY <1>4 DEF ScanQuery, IsScan, Indexes
<1>5. CASE q \in OtherQuery
  BY <1>5 DEF OtherQuery, IsScan
<1> QED
  BY <1>1, <1>2, <1>3, <1>4, <1>5

LEMMA AfterSlotFacts ==
    ASSUME NEW q \in Query
    PROVE  /\ AfterSlot(q) \in {"accounts", "index", "mint", "height", "fee", "reply",
                                "latest", "simulate"}
           /\ AfterSlot(q) \in {"index", "mint"} <=> IsScan(q)
           /\ AfterSlot(q) = "mint" => q.mint \in Mints
           /\ AfterSlot(q) = "accounts" => q.accounts \subseteq Accounts
           /\ q.method = "simulateTransaction" =>
                 AfterSlot(q) = IF q.replace THEN "latest" ELSE "simulate"
           /\ AfterSlot(q) \in {"latest", "simulate"} => q.method = "simulateTransaction"
           /\ AfterSlot(q) \in {"height", "fee"} =>
                 q.method \in {"getLatestBlockhash", "getFeeForMessage"}
  BY QueryShape DEF AfterSlot, IsScan

LEMMA AfterFacts ==
    ASSUME NEW q
    PROVE  /\ After("hash", q) = "slot"
           /\ After("slot", q) = AfterSlot(q)
           /\ After("mint", q) = "index"
           /\ After("index", q) = "scan"
           /\ After("latest", q) = "latest_height"
           /\ After("latest_height", q) = "simulate"
           /\ After("simulate", q) = "accounts"
           /\ \A s \in {"scan", "accounts"} : After(s, q) = IF q.parsed THEN "mints" ELSE "reply"
           /\ \A s \in {"mints", "height", "fee"} : After(s, q) = "reply"
  BY DEF After

LEMMA InitIInv == Init => IInv
<1> SUFFICES ASSUME Init PROVE IInv
  OBVIOUS
<1>1. PICK ledger \in [Accounts -> State], mints \in [Mints -> Programs \cup {NoMint}] :
         blocks = << [line |-> {1}, height |-> 1, ledger |-> ledger, mints |-> mints] >>
  BY DEF Init
<1>2. [line |-> {1}, height |-> 1, ledger |-> ledger, mints |-> mints] \in Block
  BY DEF Block
<1>3. blocks \in Seq(Block) /\ Len(blocks) = 1 /\ blocks[1].line = {1}
  BY <1>1, <1>2
<1>4. TypeOK
  <2>1. NoAnswer \in AnswerSet
    BY DEF NoAnswer, AnswerSet
  <2> QED
    BY <1>3, <2>1 DEF Init, TypeOK, Steps
<1>5. Ancestry
  BY <1>3 DEF Ancestry, Blocks
<1>6. Pinned /\ Place /\ Pictured
  BY DEF Init, Pinned, Place, Pictured
<1>7. ~IsScan(NoQuery) /\ NoQuery.method # "simulateTransaction"
  BY DEF NoQuery, IsScan
<1>8. Carried /\ Simulated
  BY <1>7 DEF Init, Carried, Simulated
<1> QED
  BY <1>4, <1>5, <1>6, <1>8 DEF IInv

-----------------------------------------------------------------------------
(* The node's steps.                                                       *)

\* The chain grows; the blocks there were stay as they were.
LEMMA ImportFacts ==
    ASSUME TypeOK,
           NEW parent \in 1 .. Len(blocks), NEW ledger \in [Accounts -> State],
           NEW mints \in [Mints -> Programs \cup {NoMint}],
           Import(parent, ledger, mints)
    PROVE  /\ blocks' \in Seq(Block)
           /\ Len(blocks') = Len(blocks) + 1
           /\ Len(blocks) \in Nat
           /\ \A b \in Blocks : blocks'[b] = blocks[b]
           /\ blocks'[Len(blocks) + 1].line = blocks[parent].line \cup {Len(blocks) + 1}
           /\ best' \in 1 .. Len(blocks')
<1>1. blocks \in Seq(Block) /\ blocks[parent] \in Block /\ blocks[best] \in Block
  BY DEF TypeOK
<1> DEFINE new == [line   |-> blocks[parent].line \cup {Len(blocks) + 1},
                   height |-> blocks[parent].height + 1,
                   ledger |-> ledger, mints |-> mints]
<1>2. Len(blocks) \in Nat /\ blocks[parent].height \in Nat
      /\ blocks[parent].line \in SUBSET Nat
  BY <1>1 DEF Block
<1>3. new \in Block
  BY <1>2 DEF Block
<1>4. blocks' = Append(blocks, new)
  BY DEF Import
<1> HIDE DEF new
<1>5. /\ blocks' \in Seq(Block) /\ Len(blocks') = Len(blocks) + 1
      /\ \A b \in Blocks : blocks'[b] = blocks[b]
      /\ blocks'[Len(blocks) + 1] = new
  BY <1>1, <1>3, <1>4 DEF Blocks
<1>6. best' \in 1 .. Len(blocks')
  BY <1>2, <1>5 DEF Import, TypeOK
<1> QED
  BY <1>2, <1>5, <1>6 DEF new

LEMMA ImportIInv ==
    ASSUME IInv,
           NEW parent \in 1 .. Len(blocks), NEW ledger \in [Accounts -> State],
           NEW mints \in [Mints -> Programs \cup {NoMint}],
           Import(parent, ledger, mints)
    PROVE  IInv'
<1>1. TypeOK /\ Ancestry /\ Pinned /\ Place /\ Pictured /\ Carried /\ Simulated
  BY DEF IInv
<1>2. UNCHANGED <<final, rows, query, known, step, hash, program, keys, ans>>
  BY DEF Import, request
<1>3. /\ blocks' \in Seq(Block)
      /\ Len(blocks') = Len(blocks) + 1
      /\ Len(blocks) \in Nat
      /\ \A b \in Blocks : blocks'[b] = blocks[b]
      /\ blocks'[Len(blocks) + 1].line = blocks[parent].line \cup {Len(blocks) + 1}
      /\ best' \in 1 .. Len(blocks')
  BY <1>1, ImportFacts
<1>4. TypeOK'
  BY <1>1, <1>2, <1>3 DEF TypeOK
<1>5. Ancestry'
  BY <1>1, <1>3 DEF Ancestry, Blocks
<1>6. Pinned'
  <2>1. final \in Blocks
    BY <1>1 DEF TypeOK, Blocks
  <2> QED
    BY <1>1, <1>2, <1>3, <2>1 DEF Pinned, Blocks
<1>7. Place'
  BY <1>1, <1>2 DEF Place, IsScan
<1>8. step \notin {"idle", "hash"} => hash \in Blocks /\ blocks'[hash] = blocks[hash]
  BY <1>1, <1>3 DEF Pinned
<1>9. Pictured'
  BY <1>1, <1>2, <1>8 DEF Pictured
<1>10. Carried'
  BY <1>1, <1>2, <1>8 DEF Carried, IsScan, Found, Deserves, Matches, IndexKey, HasMint
<1>11. Simulated'
  BY <1>1, <1>2, <1>3 DEF Simulated, Blocks
<1> QED
  BY <1>4, <1>5, <1>6, <1>7, <1>9, <1>10, <1>11 DEF IInv

LEMMA FinalizeIInv ==
    ASSUME IInv, NEW b \in 1 .. Len(blocks), NEW tip \in 1 .. Len(blocks), Finalize(b, tip)
    PROVE  IInv'
<1>1. TypeOK /\ Ancestry /\ Pinned /\ Place /\ Pictured /\ Carried /\ Simulated
  BY DEF IInv
<1>2. UNCHANGED <<blocks, rows, query, known, step, hash, program, keys, ans>>
  BY DEF Finalize, request
<1>3. final' = b /\ best' = tip /\ final \in blocks[b].line
  BY DEF Finalize
<1>4. TypeOK'
  BY <1>1, <1>2, <1>3 DEF TypeOK
<1>5. Ancestry'
  BY <1>1, <1>2 DEF Ancestry, Blocks
<1>6. Pinned'
  <2>1. blocks[final].line \subseteq blocks[b].line
    BY <1>1, <1>3 DEF Ancestry, Blocks
  <2> QED
    BY <1>1, <1>2, <1>3, <2>1 DEF Pinned, Blocks
<1>7. Place' /\ Pictured' /\ Simulated'
  BY <1>1, <1>2 DEF Place, Pictured, Simulated, IsScan, Blocks
<1>8. Carried'
  BY <1>1, <1>2 DEF Carried, IsScan, Found, Deserves, Matches, IndexKey, HasMint
<1> QED
  BY <1>4, <1>5, <1>6, <1>7, <1>8 DEF IInv

LEMMA InsertRowIInv ==
    ASSUME IInv, NEW index \in Indexes, NEW e \in Imported, InsertRow(index, e)
    PROVE  IInv'
<1>1. TypeOK /\ Ancestry /\ Pinned /\ Place /\ Pictured /\ Carried /\ Simulated
  BY DEF IInv
<1>2. UNCHANGED <<blocks, best, final, query, known, step, hash, program, keys, ans>>
  BY DEF InsertRow, chain, request
<1>3. rows' = rows \cup {Table!Row(index, e)}
  BY DEF InsertRow, Table!Insert
<1>4. TypeOK'
  <2>1. e.key \in Accounts /\ e.state \in TokenState
    <3>1. PICK a \in Accounts, b \in 1 .. Len(blocks) : e = At(a, blocks[b].ledger[a])
      BY DEF Imported
    <3>2. e.key = a /\ e.state = blocks[b].ledger[a]
      BY <3>1 DEF At
    <3>3. blocks[b] \in Block
      BY <1>1 DEF TypeOK
    <3> QED
      BY <3>2, <3>3 DEF Block, State, InsertRow, Table!Insert, Table!NoToken, NoToken
  <2>2. Table!IndexKey(index, e.state) \in Programs \cup Owners \cup Mints
    BY <2>1 DEF Table!IndexKey, Indexes, TokenState
  <2>3. Table!Row(index, e)
          \in [index : Indexes, key : Programs \cup Owners \cup Mints, indexed : Accounts]
    BY <2>1, <2>2 DEF Table!Row
  <2> QED
    BY <1>1, <1>2, <1>3, <2>3 DEF TypeOK
<1>5. Ancestry' /\ Pinned' /\ Place' /\ Pictured' /\ Simulated'
  BY <1>1, <1>2 DEF Ancestry, Pinned, Place, Pictured, Simulated, IsScan, Blocks
<1>6. Carried'
  <2>1. Found(query) \subseteq Found(query)'
    BY <1>2, <1>3 DEF Found
  <2> QED
    BY <1>1, <1>2, <2>1 DEF Carried, IsScan, Deserves, Matches, IndexKey, HasMint
<1> QED
  BY <1>4, <1>5, <1>6 DEF IInv

-----------------------------------------------------------------------------
(* A request comes, and its handler leaves.                                *)

LEMMA ReceiveIInv ==
    ASSUME IInv, NEW q \in Query, Receive(q)
    PROVE  IInv'
<1>1. TypeOK /\ Ancestry /\ Pinned /\ Place /\ Pictured /\ Carried /\ Simulated
  BY DEF IInv
<1>2. /\ UNCHANGED <<blocks, best, final, rows, hash, program, keys, ans>>
      /\ step = "idle" /\ step' = "hash" /\ query' = q
      /\ known' = IF IsScan(q) THEN Found(q) ELSE {}
  BY DEF Receive, chain
<1>3. TypeOK'
  <2>1. Found(q) \subseteq Accounts
    BY <1>1 DEF Found, TypeOK
  <2> QED
    BY <1>1, <1>2, <2>1 DEF TypeOK, Steps
<1>4. ans = NoAnswer
  BY <1>1, <1>2 DEF Place
<1>5. Ancestry' /\ Pinned' /\ Place' /\ Pictured'
  BY <1>1, <1>2, <1>4 DEF Ancestry, Pinned, Place, Pictured, Blocks
<1>6. Carried'
  BY <1>2 DEF Carried, IsScan, Found
<1>7. Simulated'
  BY <1>2, <1>4 DEF Simulated, NoAnswer
<1> QED
  BY <1>3, <1>5, <1>6, <1>7 DEF IInv

LEMMA LeaveIInv ==
    ASSUME IInv, Leave, UNCHANGED <<chain, rows>>
    PROVE  IInv'
<1>1. TypeOK /\ Ancestry
  BY DEF IInv
<1>2. /\ UNCHANGED <<blocks, best, final, rows>>
      /\ step' = "idle" /\ query' = NoQuery /\ known' = {} /\ hash' = 0
      /\ program' = "none" /\ keys' = {} /\ ans' = NoAnswer
  BY DEF Leave, chain
<1>3. TypeOK'
  <2>1. NoAnswer \in AnswerSet
    BY DEF NoAnswer, AnswerSet
  <2>2. Len(blocks) \in Nat
    BY <1>1 DEF TypeOK
  <2> QED
    BY <1>1, <1>2, <2>1, <2>2 DEF TypeOK, Steps
<1>4. Ancestry' /\ Pinned' /\ Place' /\ Pictured'
  BY <1>1, <1>2 DEF Ancestry, Pinned, Place, Pictured, Blocks
<1>5. Carried' /\ Simulated'
  BY <1>2 DEF Carried, Simulated, IsScan, NoQuery
<1> QED
  BY <1>1, <1>3, <1>4, <1>5 DEF IInv

-----------------------------------------------------------------------------
(* The calls of a handler.                                                 *)

\* After any call the handler is where its method has its next one.
LEMMA Proceeds ==
    ASSUME TypeOK, Place, step \notin {"idle", "reply"}, Proceed, query' = query
    PROVE  /\ Place'
           /\ step' \in Steps \ {"idle", "hash"}
<1>1. query \in Query /\ step \in Steps
  BY DEF Place, TypeOK
<1>2. step' = After(step, query)
  BY DEF Proceed
<1>3. /\ query.method \in {"getAccountInfo", "getBalance", "getMultipleAccounts",
                           "simulateTransaction"} => query.accounts \subseteq Accounts
      /\ query.method = "simulateTransaction" => ~IsScan(query)
  BY <1>1, QueryShape DEF IsScan
<1>4. CASE step = "hash"
  BY <1>2, <1>4, AfterFacts DEF Place, Steps
<1>5. CASE step = "slot"
  <2>1. step' = AfterSlot(query)
    BY <1>2, <1>5, AfterFacts
  <2> QED
    BY <1>1, <2>1, AfterSlotFacts DEF Place, Steps, IsScan
<1>6. CASE step = "mint" \/ step = "index"
  BY <1>2, <1>6, AfterFacts DEF Place, Steps, IsScan
<1>7. CASE step \in {"latest", "latest_height", "simulate"}
  BY <1>2, <1>3, <1>7, AfterFacts DEF Place, Steps, IsScan
<1>8. CASE step \in {"scan", "accounts"}
  <2>1. step' = IF query.parsed THEN "mints" ELSE "reply"
    BY <1>2, <1>8, AfterFacts
  <2> QED
    BY <1>1, <2>1 DEF Place, Steps
<1>9. CASE step \in {"mints", "height", "fee"}
  BY <1>1, <1>2, <1>9, AfterFacts DEF Place, Steps
<1> QED
  BY <1>1, <1>4, <1>5, <1>6, <1>7, <1>8, <1>9 DEF Steps

\* A call after the first leaves the handler pinned, whatever it answers.
LEMMA CallFrame ==
    ASSUME IInv, step \notin {"idle", "hash", "reply"}, Proceed,
           UNCHANGED <<chain, rows, request, hash>>,
           program' \in Programs \cup {"none"}, keys' \subseteq Accounts, ans' \in AnswerSet
    PROVE  TypeOK' /\ Ancestry' /\ Pinned' /\ Place'
<1>1. TypeOK /\ Ancestry /\ Pinned /\ Place
  BY DEF IInv
<1>2. UNCHANGED <<blocks, best, final, rows, query, known, hash>>
  BY DEF chain, request
<1>3. Place' /\ step' \in Steps \ {"idle", "hash"}
  BY <1>1, <1>2, Proceeds
<1>4. TypeOK'
  BY <1>1, <1>2, <1>3 DEF TypeOK
<1>5. Ancestry' /\ Pinned'
  BY <1>1, <1>2 DEF Ancestry, Pinned, Blocks
<1> QED
  BY <1>3, <1>4, <1>5

LEMMA PinHashIInv ==
    ASSUME IInv, PinHash
    PROVE  IInv'
<1>1. TypeOK /\ Ancestry /\ Pinned /\ Place /\ Pictured /\ Carried /\ Simulated
  BY DEF IInv
<1>2. /\ UNCHANGED <<blocks, best, final, rows, query, known, program, keys, ans>>
      /\ step = "hash" /\ Proceed
      /\ hash' = IF query.commitment = "processed" THEN best ELSE final
  BY DEF PinHash, chain, request
<1>3. step' = "slot"
  BY <1>2, AfterFacts DEF Proceed
<1>4. ans = NoAnswer
  BY <1>1, <1>2 DEF Place
<1>5. best \in Blocks /\ final \in Blocks
  BY <1>1 DEF TypeOK, Blocks
<1>6. TypeOK'
  BY <1>1, <1>2, <1>3, <1>5 DEF TypeOK, Steps, Blocks
<1>7. Ancestry'
  BY <1>1, <1>2 DEF Ancestry, Blocks
<1>8. Pinned'
  BY <1>1, <1>2, <1>3, <1>5 DEF Ancestry, Pinned, Blocks
<1>9. Place'
  BY <1>1, <1>2, Proceeds
<1>10. Pictured'
  BY <1>2, <1>3, <1>4 DEF Pictured, NoAnswer
<1>11. Carried'
  BY <1>1, <1>2, <1>3 DEF Carried, IsScan, Found
<1>12. Simulated'
  BY <1>2, <1>3, <1>4 DEF Simulated, NoAnswer
<1> QED
  BY <1>6, <1>7, <1>8, <1>9, <1>10, <1>11, <1>12 DEF IInv

LEMMA ReadSlotIInv ==
    ASSUME IInv, ReadSlot
    PROVE  IInv'
<1>1. TypeOK /\ Pinned /\ Place /\ Pictured /\ Carried /\ Simulated
  BY DEF IInv
<1>2. /\ UNCHANGED <<blocks, best, final, rows, query, known, hash, program, keys>>
      /\ step = "slot" /\ Proceed
      /\ ans' = [ans EXCEPT !.slot = blocks[hash].height]
  BY DEF ReadSlot, chain, request
<1>3. query \in Query /\ step' = AfterSlot(query)
  BY <1>1, <1>2, AfterFacts DEF Place, Proceed
<1>4. ans' \in AnswerSet
  <2>1. blocks[hash] \in Block
    BY <1>1, <1>2 DEF TypeOK, Pinned, Blocks
  <2> QED
    BY <1>1, <1>2, <2>1 DEF TypeOK, AnswerSet, Block
<1>5. TypeOK' /\ Ancestry' /\ Pinned' /\ Place'
  BY <1>1, <1>2, <1>4, CallFrame DEF TypeOK, chain, request
<1>6. ans \in AnswerSet
  BY <1>1 DEF TypeOK
<1>7. Pictured'
  BY <1>1, <1>2, <1>6 DEF Pictured, AnswerSet
<1>8. Carried'
  BY <1>1, <1>2, <1>3, AfterSlotFacts DEF Carried, IsScan, Found
<1>9. Simulated'
  BY <1>1, <1>2, <1>3, <1>6, AfterSlotFacts DEF Simulated, AnswerSet
<1> QED
  BY <1>5, <1>7, <1>8, <1>9 DEF IInv

\* The two calls of which nothing is left to do but to reply.
LEMMA ReadHeightOrFeeIInv ==
    ASSUME IInv, ReadHeight \/ ReadFee
    PROVE  IInv'
<1>1. TypeOK /\ Pinned /\ Place /\ Pictured /\ Carried /\ Simulated
  BY DEF IInv
<1>2. /\ UNCHANGED <<blocks, best, final, rows, query, known, hash, program, keys>>
      /\ step \in {"height", "fee"} /\ Proceed
      /\ \/ ans' = [ans EXCEPT !.height = blocks[hash].height + MaxAge]
         \/ ans' = [ans EXCEPT !.base = hash]
  BY DEF ReadHeight, ReadFee, chain, request
<1>3. ans \in AnswerSet /\ step' = "reply" /\ ~IsScan(query)
  BY <1>1, <1>2, AfterFacts DEF TypeOK, Proceed, Place, IsScan
<1>4. ans' \in AnswerSet
  <2>1. blocks[hash] \in Block /\ hash \in Nat
    BY <1>1, <1>2 DEF TypeOK, Pinned, Blocks
  <2> QED
    BY <1>2, <1>3, <2>1, MaxAgeAssumption DEF AnswerSet, Block
<1>5. TypeOK' /\ Ancestry' /\ Pinned' /\ Place'
  BY <1>1, <1>2, <1>4, CallFrame DEF TypeOK, chain, request
<1>6. Pictured'
  BY <1>1, <1>2, <1>3 DEF Pictured, AnswerSet
<1>7. Carried'
  BY <1>2, <1>3 DEF Carried, IsScan
<1>8. Simulated'
  BY <1>1, <1>2, <1>3 DEF Simulated, Place
<1> QED
  BY <1>5, <1>6, <1>7, <1>8 DEF IInv

\* The mint stands for its program: the index is looked up next.
LEMMA ReadMintOwnerIInv ==
    ASSUME IInv, ReadMintOwner
    PROVE  IInv'
<1>1. TypeOK /\ Pinned /\ Place /\ Pictured /\ Carried /\ Simulated
  BY DEF IInv
<1>2. /\ UNCHANGED <<blocks, best, final, rows, query, known, hash, keys, ans>>
      /\ step = "mint" /\ Proceed
      /\ \/ program' = NativeProgram
         \/ /\ blocks[hash].mints[query.mint] # NoMint
            /\ program' = blocks[hash].mints[query.mint]
  BY DEF ReadMintOwner, chain, request
<1>3. query.mint \in Mints /\ IsScan(query) /\ step' = "index"
  BY <1>1, <1>2, AfterFacts DEF Place, Proceed
<1>4. program' \in Programs
  <2>1. blocks[hash] \in Block
    BY <1>1, <1>2 DEF TypeOK, Pinned, Blocks
  <2> QED
    BY <1>2, <1>3, <2>1, NativeAssumption DEF Block
<1>5. TypeOK' /\ Ancestry' /\ Pinned' /\ Place'
  BY <1>1, <1>2, <1>4, CallFrame DEF TypeOK, chain, request
<1>6. Pictured'
  BY <1>1, <1>2, <1>3 DEF Pictured
<1>7. Carried'
  BY <1>1, <1>2, <1>3 DEF Carried, IsScan, Found
<1>8. Simulated'
  BY <1>2, <1>3 DEF Simulated, IsScan
<1> QED
  BY <1>5, <1>6, <1>7, <1>8 DEF IInv

LEMMA LookupIndexIInv ==
    ASSUME IInv, LookupIndex
    PROVE  IInv'
<1>1. TypeOK /\ Pinned /\ Place /\ Pictured /\ Carried /\ Simulated
  BY DEF IInv
<1>2. /\ UNCHANGED <<blocks, best, final, rows, query, known, hash, ans>>
      /\ step = "index" /\ Proceed
      /\ keys' = Found(query)
      /\ program' = IF query.program \in Programs THEN query.program ELSE program
  BY DEF LookupIndex, chain, request
<1>3. IsScan(query) /\ step' = "scan"
  BY <1>1, <1>2, AfterFacts DEF Place, Proceed
<1>4. keys' \subseteq Accounts
  BY <1>1, <1>2 DEF Found, TypeOK
<1>5. TypeOK' /\ Ancestry' /\ Pinned' /\ Place'
  BY <1>1, <1>2, <1>4, CallFrame DEF TypeOK, chain, request
<1>6. Pictured'
  BY <1>1, <1>2, <1>3 DEF Pictured
<1>7. Carried'
  BY <1>1, <1>2, <1>3 DEF Carried, IsScan, Found
<1>8. Simulated'
  BY <1>2, <1>3 DEF Simulated, IsScan
<1> QED
  BY <1>5, <1>6, <1>7, <1>8 DEF IInv

\* The keys are looked at in the pinned block, and those that pass are shown.
LEMMA ScanIInv ==
    ASSUME IInv, Scan
    PROVE  IInv'
<1>1. TypeOK /\ Pinned /\ Place /\ Pictured /\ Carried /\ Simulated
  BY DEF IInv
<1>2. /\ UNCHANGED <<blocks, best, final, rows, query, known, hash, program>>
      /\ step = "scan" /\ Proceed /\ keys' = {}
      /\ ans' = [ans EXCEPT !.accounts =
                    {At(a, blocks[hash].ledger[a]) : a \in {b \in keys : Deserves(b)}}]
  BY DEF Scan, ScanAt, Deserves, chain, request
<1>3. /\ IsScan(query) /\ ans \in AnswerSet
      /\ step' = IF query.parsed THEN "mints" ELSE "reply"
  BY <1>1, <1>2, AfterFacts DEF Place, Proceed, TypeOK
<1>4. \A e \in ans'.accounts : \E a \in keys : e = At(a, blocks[hash].ledger[a]) /\ Deserves(a)
  BY <1>2, <1>3 DEF AnswerSet
<1>5. \A a \in keys : Deserves(a) => At(a, blocks[hash].ledger[a]) \in ans'.accounts
  BY <1>2, <1>3 DEF AnswerSet
<1>6. \A f \in {"slot", "height", "mints", "base", "post"} : ans'[f] = ans[f]
  BY <1>2, <1>3 DEF AnswerSet
<1>7. ans' \in AnswerSet
  <2>1. blocks[hash] \in Block
    BY <1>1, <1>2 DEF TypeOK, Pinned, Blocks
  <2>2. ans'.accounts \subseteq [key : Accounts, state : State]
    BY <1>1, <1>4, <2>1 DEF TypeOK, Block, At
  <2> QED
    BY <1>2, <1>3, <2>2 DEF AnswerSet
<1>8. TypeOK' /\ Ancestry' /\ Pinned' /\ Place'
  BY <1>1, <1>2, <1>7, CallFrame DEF TypeOK, chain, request
<1>9. \A a : Deserves(a)' <=> Deserves(a)
  BY <1>2 DEF Deserves, Matches, IndexKey
<1>10. Pictured'
  <2>1. \A e \in ans'.accounts : e.state = blocks[hash].ledger[e.key]
    BY <1>4 DEF At
  <2> QED
    BY <1>1, <1>2, <1>6, <2>1 DEF Pictured
<1>11. Carried'
  <2>1. \A e \in ans'.accounts : Deserves(e.key)
    BY <1>4 DEF At
  <2>2. \A a \in known : Deserves(a) => At(a, blocks[hash].ledger[a]) \in ans'.accounts
    BY <1>1, <1>2, <1>3, <1>5 DEF Carried
  <2> HIDE DEF Deserves
  <2> QED
    BY <1>2, <1>3, <1>9, <2>1, <2>2 DEF Carried, IsScan
<1>12. Simulated'
  BY <1>2, <1>3 DEF Simulated, IsScan
<1> QED
  BY <1>8, <1>10, <1>11, <1>12 DEF IInv

\* A simulation's own calls before it, to the best block of the moment.
LEMMA ReadLatestIInv ==
    ASSUME IInv, ReadLatest \/ ReadLatestHeight
    PROVE  IInv'
<1>1. TypeOK /\ Pinned /\ Place /\ Pictured /\ Carried /\ Simulated
  BY DEF IInv
<1>2. /\ UNCHANGED <<blocks, best, final, rows, query, known, hash, program, keys>>
      /\ step \in {"latest", "latest_height"} /\ Proceed
      /\ \/ step = "latest" /\ ans' = [ans EXCEPT !.latest = best]
         \/ /\ step = "latest_height"
            /\ ans' = [ans EXCEPT !.latest_height = blocks[ans.latest].height + MaxAge]
  BY DEF ReadLatest, ReadLatestHeight, chain, request
<1>3. /\ ans \in AnswerSet
      /\ query.method = "simulateTransaction" /\ ~IsScan(query)
      /\ step' = IF step = "latest" THEN "latest_height" ELSE "simulate"
  BY <1>1, <1>2, AfterFacts DEF TypeOK, Proceed, Place, IsScan
<1>4. step = "latest_height" => ans.latest \in Blocks /\ blocks[ans.latest] \in Block
  BY <1>1, <1>3 DEF Simulated, TypeOK, Blocks
<1>5. ans' \in AnswerSet
  <2>1. best \in Nat
    BY <1>1 DEF TypeOK
  <2> QED
    BY <1>2, <1>3, <1>4, <2>1, MaxAgeAssumption DEF AnswerSet, Block
<1>6. TypeOK' /\ Ancestry' /\ Pinned' /\ Place'
  BY <1>1, <1>2, <1>5, CallFrame DEF TypeOK, chain, request
<1>7. Pictured'
  BY <1>1, <1>2, <1>3 DEF Pictured, AnswerSet
<1>8. Carried'
  BY <1>2, <1>3 DEF Carried, IsScan
<1>9. Simulated'
  <2>1. /\ ans'.accounts = {} /\ ans'.post = {}
        /\ ans'.latest \in Blocks
        /\ step = "latest_height" => ans'.latest_height = blocks[ans'.latest].height + MaxAge
    BY <1>1, <1>2, <1>3, <1>4 DEF Simulated, AnswerSet, TypeOK, Blocks
  <2> QED
    BY <1>2, <1>3, <2>1 DEF Simulated, Blocks
<1> QED
  BY <1>6, <1>7, <1>8, <1>9 DEF IInv

LEMMA SimulateIInv ==
    ASSUME IInv, NEW post \in PostStates, Simulate(post)
    PROVE  IInv'
<1>1. TypeOK /\ Ancestry /\ Pinned /\ Place /\ Pictured /\ Carried /\ Simulated
  BY DEF IInv
<1>2. /\ UNCHANGED <<blocks, best, final, rows, query, known, hash, program, keys>>
      /\ step = "simulate"
      /\ ans' = [ans EXCEPT !.base = hash, !.post = post]
      /\ Proceed \/ (post = {} /\ step' = "reply")
  BY DEF Simulate, chain, request
<1>3. /\ ans \in AnswerSet /\ query \in Query
      /\ query.method = "simulateTransaction" /\ ~IsScan(query)
  BY <1>1, <1>2 DEF TypeOK, Place, IsScan
<1>4. /\ post \subseteq [key : Accounts, state : State]
      /\ \A e, f \in post : e = f
  BY DEF PostStates, At
<1>5. ans' \in AnswerSet
  <2>1. hash \in Nat
    BY <1>1 DEF TypeOK
  <2> QED
    BY <1>2, <1>3, <1>4, <2>1 DEF AnswerSet
<1>6. /\ ans'.accounts = {} /\ ans'.post = post /\ ans'.base = hash
      /\ ans'.slot = ans.slot /\ ans'.height = ans.height /\ ans'.mints = ans.mints
      /\ ans'.latest = ans.latest /\ ans'.latest_height = ans.latest_height
  BY <1>1, <1>2, <1>3 DEF AnswerSet, Simulated
<1>7. step' = "accounts" \/ (post = {} /\ step' = "reply")
  BY <1>2, AfterFacts DEF Proceed
<1>8. TypeOK'
  BY <1>1, <1>2, <1>5, <1>7 DEF TypeOK, Steps
<1>9. Ancestry' /\ Pinned'
  BY <1>1, <1>2 DEF Ancestry, Pinned, Blocks
<1>10. Place'
  BY <1>2, <1>3, <1>7, QueryShape DEF Place, IsScan
<1>11. Pictured'
  BY <1>1, <1>2, <1>6 DEF Pictured
<1>12. Carried'
  BY <1>2, <1>3 DEF Carried, IsScan
<1>13. Simulated'
  BY <1>1, <1>2, <1>3, <1>4, <1>6, <1>7 DEF Simulated, Blocks
<1> QED
  BY <1>8, <1>9, <1>10, <1>11, <1>12, <1>13 DEF IInv

\* Each account is shown from one source: what the simulation left, or the node.
LEMMA ReadAccountsIInv ==
    ASSUME IInv, ReadAccounts
    PROVE  IInv'
<1>1. TypeOK /\ Pinned /\ Place /\ Pictured /\ Carried /\ Simulated
  BY DEF IInv
<1>2. /\ UNCHANGED <<blocks, best, final, rows, query, known, hash, program, keys>>
      /\ step = "accounts" /\ Proceed
      /\ ans' = [ans EXCEPT !.accounts =
                    {e \in ans.post : e.key \in query.accounts} \cup
                    {At(a, blocks[hash].ledger[a]) : a \in query.accounts \ Overwritten}]
  BY DEF ReadAccounts, chain, request
<1>3. /\ ans \in AnswerSet /\ ~IsScan(query) /\ query.accounts \subseteq Accounts
      /\ step' = IF query.parsed THEN "mints" ELSE "reply"
  BY <1>1, <1>2, AfterFacts DEF TypeOK, Place, Proceed
<1>4. \A e \in ans'.accounts :
         \/ e \in ans.post
         \/ \E a \in query.accounts \ Overwritten : e = At(a, blocks[hash].ledger[a])
  BY <1>2, <1>3 DEF AnswerSet
<1>5. \A e \in ans.post : e.key \in query.accounts => e \in ans'.accounts
  BY <1>2, <1>3 DEF AnswerSet
<1>6. /\ ans'.slot = ans.slot /\ ans'.height = ans.height /\ ans'.mints = ans.mints
      /\ ans'.base = ans.base /\ ans'.post = ans.post
      /\ ans'.latest = ans.latest /\ ans'.latest_height = ans.latest_height
  BY <1>2, <1>3 DEF AnswerSet
<1>7. ans' \in AnswerSet
  <2>1. blocks[hash] \in Block
    BY <1>1, <1>2 DEF TypeOK, Pinned, Blocks
  <2>2. ans'.accounts \subseteq [key : Accounts, state : State]
    BY <1>3, <1>4, <2>1 DEF AnswerSet, Block, At
  <2> QED
    BY <1>2, <1>3, <2>2 DEF AnswerSet
<1>8. TypeOK' /\ Ancestry' /\ Pinned' /\ Place'
  BY <1>1, <1>2, <1>7, CallFrame DEF TypeOK, chain, request
<1>9. Pictured'
  <2>1. \A e \in ans'.accounts : e \in ans.post \/ e.state = blocks[hash].ledger[e.key]
    BY <1>4 DEF At
  <2> QED
    BY <1>1, <1>2, <1>6, <2>1 DEF Pictured
<1>10. Carried'
  BY <1>2, <1>3 DEF Carried, IsScan
<1>11. Simulated'
  <2> SUFFICES ASSUME query.method = "simulateTransaction"
               PROVE  Simulated'
    BY <1>2 DEF Simulated
  <2>1. \A e, f \in ans.post : e = f
    BY <1>1 DEF Simulated
  <2>2. ASSUME NEW e \in ans'.accounts, NEW f \in ans'.accounts, e.key = f.key
        PROVE  e = f
    <3>1. CASE e \in ans.post /\ f \in ans.post
      BY <2>1, <3>1
    <3>2. CASE e \notin ans.post /\ f \notin ans.post
      BY <1>4, <2>2, <3>2 DEF At
    <3>3. CASE e \in ans.post /\ f \notin ans.post
      BY <1>4, <2>2, <3>3 DEF At, Overwritten
    <3>4. CASE e \notin ans.post /\ f \in ans.post
      BY <1>4, <2>2, <3>4 DEF At, Overwritten
    <3> QED
      BY <3>1, <3>2, <3>3, <3>4
  <2> QED
    BY <1>1, <1>2, <1>3, <1>5, <1>6, <2>1, <2>2 DEF Simulated, Blocks
<1> QED
  BY <1>8, <1>9, <1>10, <1>11 DEF IInv

\* A scan loses the accounts without their mint's data, and no other.
LEMMA ReadMintsIInv ==
    ASSUME IInv, ReadMints
    PROVE  IInv'
<1>1. TypeOK /\ Pinned /\ Place /\ Pictured /\ Carried /\ Simulated
  BY DEF IInv
<1>2. PICK parsed, mints :
        /\ parsed = {e \in ans.accounts : HasMint(hash, e.state)}
        /\ mints = {At(e.state.mint, blocks[hash].mints[e.state.mint]) : e \in parsed}
        /\ ans' = [ans EXCEPT
                      !.accounts = IF IsScan(query) THEN parsed ELSE @,
                      !.mints = IF IsScan(query) \/ query.method = "getAccountInfo"
                                THEN mints ELSE @]
  BY DEF ReadMints
<1>3. /\ UNCHANGED <<blocks, best, final, rows, query, known, hash, program, keys>>
      /\ step = "mints" /\ Proceed
  BY DEF ReadMints, chain, request
<1>4. ans \in AnswerSet /\ step' = "reply" /\ query.parsed /\ blocks[hash] \in Block
  BY <1>1, <1>3, AfterFacts DEF TypeOK, Pinned, Place, Proceed, Blocks
<1>5. parsed \subseteq ans.accounts
  BY <1>2
<1>6. mints \subseteq [key : Mints, state : Programs]
  <2>1. \A e \in parsed : e.state \in TokenState /\ blocks[hash].mints[e.state.mint] # NoMint
    BY <1>2, <1>4 DEF AnswerSet, HasMint, State
  <2> QED
    BY <1>2, <1>4, <2>1 DEF TokenState, Block, At
<1>7. /\ ans'.slot = ans.slot /\ ans'.height = ans.height /\ ans'.base = ans.base
      /\ ans'.post = ans.post /\ ans'.latest = ans.latest
      /\ ans'.latest_height = ans.latest_height
      /\ ans'.accounts = IF IsScan(query) THEN parsed ELSE ans.accounts
      /\ ans'.mints \in {mints, ans.mints}
      /\ IsScan(query) => ans'.mints = mints
  BY <1>2, <1>4 DEF AnswerSet
<1>8. ans' \in AnswerSet
  BY <1>2, <1>4, <1>6 DEF AnswerSet
<1>9. TypeOK' /\ Ancestry' /\ Pinned' /\ Place'
  BY <1>1, <1>3, <1>8, CallFrame DEF TypeOK, chain, request
<1>10. Pictured'
  <2>1. \A e \in mints : e.state = blocks[hash].mints[e.key]
    BY <1>2 DEF At
  <2>2. ans'.accounts \subseteq ans.accounts
    BY <1>5, <1>7
  <2> QED
    BY <1>1, <1>3, <1>7, <2>1, <2>2 DEF Pictured
<1>11. Carried'
  <2> SUFFICES ASSUME IsScan(query)
               PROVE  Carried'
    BY <1>3 DEF Carried, IsScan
  <2>1. \A a : /\ Deserves(a)' <=> Deserves(a)
               /\ HasMint(hash, blocks[hash].ledger[a])' <=> HasMint(hash, blocks[hash].ledger[a])
    BY <1>3 DEF Deserves, Matches, IndexKey, HasMint
  <2>2. \A e \in parsed : /\ Deserves(e.key)
                          /\ \E m \in mints : m.key = e.state.mint
    <3> SUFFICES ASSUME NEW e \in parsed
                 PROVE  /\ Deserves(e.key)
                        /\ \E m \in mints : m.key = e.state.mint
      OBVIOUS
    <3>1. Deserves(e.key)
      BY <1>1, <1>3, <1>5 DEF Carried
    <3>2. At(e.state.mint, blocks[hash].mints[e.state.mint]) \in mints
      BY <1>2
    <3> QED
      BY <3>1, <3>2 DEF At
  <2>3. \A a \in known :
           Deserves(a) /\ HasMint(hash, blocks[hash].ledger[a])
              => At(a, blocks[hash].ledger[a]) \in parsed
    <3> SUFFICES ASSUME NEW a \in known, Deserves(a),
                        HasMint(hash, blocks[hash].ledger[a])
                 PROVE  At(a, blocks[hash].ledger[a]) \in parsed
      OBVIOUS
    <3>1. At(a, blocks[hash].ledger[a]) \in ans.accounts
      BY <1>1, <1>3 DEF Carried
    <3> QED
      BY <1>2, <3>1 DEF At
  <2> QED
    BY <1>3, <1>4, <1>7, <2>1, <2>2, <2>3 DEF Carried
<1>12. Simulated'
  BY <1>1, <1>3, <1>4, <1>7 DEF Simulated, IsScan, Blocks
<1> QED
  BY <1>9, <1>10, <1>11, <1>12 DEF IInv

-----------------------------------------------------------------------------
(* The theorems.                                                           *)

LEMMA StutterIInv == IInv /\ UNCHANGED vars => IInv'
<1> SUFFICES ASSUME IInv, UNCHANGED vars
             PROVE  IInv'
  OBVIOUS
<1>1. TypeOK /\ Ancestry /\ Pinned /\ Place /\ Pictured /\ Carried /\ Simulated
  BY DEF IInv
<1>2. UNCHANGED <<blocks, best, final, rows, query, known, step, hash, program, keys, ans>>
  BY DEF vars, chain, request
<1>3. TypeOK' /\ Ancestry' /\ Pinned'
  BY <1>1, <1>2 DEF TypeOK, Ancestry, Pinned, Blocks
<1>4. Place' /\ Pictured' /\ Simulated'
  BY <1>1, <1>2 DEF Place, Pictured, Simulated, IsScan, Blocks
<1>5. Carried'
  BY <1>1, <1>2 DEF Carried, IsScan, Found, Deserves, Matches, IndexKey, HasMint
<1> QED
  BY <1>3, <1>4, <1>5 DEF IInv

LEMMA NextIInv == IInv /\ [Next]_vars => IInv'
<1> SUFFICES ASSUME IInv, [Next]_vars
             PROVE  IInv'
  OBVIOUS
<1>1. CASE Node
  BY <1>1, ImportIInv, FinalizeIInv, InsertRowIInv DEF Node
<1>2. CASE \E q \in Query : Receive(q)
  BY <1>2, ReceiveIInv
<1>3. CASE Call
  <2>1. CASE PinHash
    BY <2>1, PinHashIInv
  <2>2. CASE ReadSlot
    BY <2>2, ReadSlotIInv
  <2>3. CASE ReadHeight \/ ReadFee
    BY <2>3, ReadHeightOrFeeIInv
  <2>4. CASE ReadMintOwner
    BY <2>4, ReadMintOwnerIInv
  <2>5. CASE MintMissing
    BY <2>5, LeaveIInv DEF MintMissing
  <2>6. CASE LookupIndex
    BY <2>6, LookupIndexIInv
  <2>7. CASE Scan
    BY <2>7, ScanIInv
  <2>8. CASE ReadLatest \/ ReadLatestHeight
    BY <2>8, ReadLatestIInv
  <2>9. CASE ReadAccounts
    BY <2>9, ReadAccountsIInv
  <2>10. CASE ReadMints
    BY <2>10, ReadMintsIInv
  <2>11. CASE \E post \in PostStates : Simulate(post)
    BY <2>11, SimulateIInv
  <2> QED
    BY <1>3, <2>1, <2>2, <2>3, <2>4, <2>5, <2>6, <2>7, <2>8, <2>9, <2>10, <2>11 DEF Call
<1>4. CASE Fail
  BY <1>4, LeaveIInv DEF Fail
<1>5. CASE Reply
  BY <1>5, LeaveIInv DEF Reply
<1>6. CASE UNCHANGED vars
  BY <1>6, StutterIInv
<1> QED
  BY <1>1, <1>2, <1>3, <1>4, <1>5, <1>6 DEF Next

\* The chain, the index and the handler keep the inductive invariant.
THEOREM Invariance == Spec => []IInv
  BY InitIInv, NextIInv, PTL DEF Spec

\* Whatever comes in, the state of the handlers keeps its types.
THEOREM TypeCorrect == Spec => []TypeOK
<1>1. IInv => TypeOK
  BY DEF IInv
<1> QED
  BY <1>1, Invariance, PTL

\* An answer describes one block, a final one if the caller asked for it.
THEOREM OnePicture == Spec => []OneBlock
<1>1. IInv => OneBlock
  <2> SUFFICES ASSUME IInv, step = "reply"
               PROVE  \E b \in 1 .. Len(blocks) :
                          /\ Describes(b)
                          /\ query.commitment # "processed" => b \in blocks[final].line
    BY DEF OneBlock
  <2>1. hash \in 1 .. Len(blocks) /\ (query.commitment # "processed" => hash \in blocks[final].line)
    BY DEF IInv, Pinned, Blocks
  <2>2. Describes(hash)
    BY DEF IInv, Pictured, Describes
  <2> QED
    BY <2>1, <2>2
<1> QED
  BY <1>1, Invariance, PTL

\* The answer to a scan holds only accounts that belong there in the pinned
\* block, however old the rows of the index are.
THEOREM ScansSound == Spec => []ScanSound
<1>1. IInv => ScanSound
  BY DEF IInv, Carried, ScanSound, Deserves
<1> QED
  BY <1>1, Invariance, PTL

\* No account is missing from it that the index had when the request came.
THEOREM ScansComplete == Spec => []ScanComplete
<1>1. IInv => ScanComplete
  BY DEF IInv, Carried, ScanComplete, Deserves
<1> QED
  BY <1>1, Invariance, PTL

\* A simulation's answer shows what it left of the accounts, once each, and a
\* blockhash with its own last valid height.
THEOREM SimulationsWhole == Spec => []SimulationWhole
<1>1. IInv => SimulationWhole
  BY DEF IInv, Simulated, SimulationWhole, Blocks, TypeOK
<1> QED
  BY <1>1, Invariance, PTL
=============================================================================
