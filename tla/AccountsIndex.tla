---------------------------- MODULE AccountsIndex ----------------------------
(***************************************************************************)
(* The accounts index: src/src/db/index/mod.rs, and the tables behind it,  *)
(* src/src/db/index/{sqlite,postgres}.rs.                                  *)
(*                                                                         *)
(* One task receives the batches of account keys that transactions loaded, *)
(* drops the excluded keys, asks the node for the accounts as they are by  *)
(* now, and inserts three rows for each SPL token account among them, one  *)
(* by one: by program, by owner and by mint.  The table refuses a row it   *)
(* already has, and the first error of any kind ends the batch; it is      *)
(* logged and nothing is tried again.                                      *)
(*                                                                         *)
(* The channel stands for an event's whole way from the node to the task.  *)
(* A batch is a set: the order of a transaction's keys is any order.       *)
(***************************************************************************)
EXTENDS Naturals, Sequences, FiniteSets

CONSTANTS Accounts,          \* account keys
          Excluded,          \* exclude_keys
          Programs,          \* the known SPL token programs
          Owners, Mints,
          Persistent,        \* is the table on disk (or in Postgres)?
          FaultsPossible,    \* do events get lost, calls fail, processes die?
          MaxUpdates         \* bound on the transactions of a behaviour

ASSUME AccountsAssumption == IsFiniteSet(Accounts)
ASSUME ExcludedAssumption == Excluded \subseteq Accounts
ASSUME FlagsAssumption == Persistent \in BOOLEAN /\ FaultsPossible \in BOOLEAN

VARIABLES ledger,    \* the accounts at the node
          past,      \* history: every state an account has been in
          wiped,     \* history: accounts that ceased to be token accounts
          updates,   \* transactions so far
          client,    \* the client's task: "serving" requests; "starved" of them,
                     \* as it waits for Ctrl-C before it receives any; "ended"
          channel,   \* batches of keys on their way to the task
          task,      \* where the task is
          keys,      \* the keys it has asked the node for
          work,      \* token accounts of the batch not yet begun
          entry,     \* the one whose rows are being inserted
          next,      \* the index its next row goes to
          rows,      \* the table accounts_index
          missed     \* history: accounts the index owes nothing: an event or a
                     \* batch of theirs was lost, or never came

node  == <<ledger, past, wiped, updates, client>>
local == <<channel, task, keys, work, entry, next>>
vars  == <<node, local, rows, missed>>

-----------------------------------------------------------------------------
\* A token account: owned by a known token program, of the packed length and
\* initialized.  Any other account, or none, is NoToken.
TokenState == [program : Programs, owner : Owners, mint : Mints]
NoToken    == [program |-> "none"]
State      == TokenState \cup {NoToken}

Entry   == [key : Accounts, state : TokenState]
NoEntry == [key |-> "none"]

Indexes == {"ProgramId", "SplTokenOwner", "SplTokenMint"}

IndexKey(index, state) == CASE index = "ProgramId"     -> state.program
                            [] index = "SplTokenOwner" -> state.owner
                            [] index = "SplTokenMint"  -> state.mint

Row(index, e)  == [index |-> index, key |-> IndexKey(index, e.state), indexed |-> e.key]
RowSet         == [index : Indexes, key : Programs \cup Owners \cup Mints,
                   indexed : Accounts]
At(a, state)   == [key |-> a, state |-> state]

\* get_indexed_keys: what a reader finds.
Lookup(index, key) ==
    {r.indexed : r \in {x \in rows : x.index = index /\ x.key = key}}

Announced(a) == \/ \E i \in 1 .. Len(channel) : a \in channel[i]
                \/ a \in keys
Pending(a)   == \/ Announced(a)
                \/ \E e \in work : e.key = a
                \/ entry # NoEntry /\ entry.key = a

-----------------------------------------------------------------------------
\* Client::run's loop begins with ctrl_c().await: where a listener can be
\* installed it receives nothing until Ctrl-C, elsewhere it serves.
ClientStart == IF FaultsPossible THEN {"serving", "starved"} ELSE {"serving"}

\* The sidecar may start on a chain that already has token accounts; nothing
\* announces those.
Init == /\ ledger \in [Accounts -> State]
        /\ past = {At(a, ledger[a]) : a \in Accounts}
        /\ wiped = {}
        /\ updates = 0
        /\ client \in ClientStart
        /\ channel = <<>>
        /\ task = "recv"
        /\ keys = {}
        /\ work = {}
        /\ entry = NoEntry
        /\ next = "ProgramId"
        /\ rows = {}
        /\ missed = {a \in Accounts : ledger[a] # NoToken}

\* A transaction loads the accounts of B and leaves them in new states (or as
\* they were).  Its LoadedAccounts event arrives, or falls into a gap of the
\* subscription.  A reorganisation of the chain is a change without event, an
\* event delivered twice is an event without change.
Transact(B, new, delivered) ==
    /\ updates < MaxUpdates
    /\ FaultsPossible \/ delivered
    /\ updates' = updates + 1
    /\ ledger' = [a \in Accounts |-> IF a \in B THEN new[a] ELSE ledger[a]]
    /\ past' = past \cup {At(a, new[a]) : a \in B}
    /\ wiped' = wiped \cup {a \in B : ledger[a] # NoToken /\ new[a] = NoToken}
    /\ channel' = IF delivered THEN Append(channel, B) ELSE channel
    /\ missed' = IF delivered THEN missed ELSE missed \cup B
    /\ UNCHANGED <<client, task, keys, work, entry, next, rows>>

\* Ctrl-C where there is a listener; where there is none, the panic over a
\* caller that is gone.  Every request fails from then on, waiting ones too.
ClientEnds ==
    /\ FaultsPossible
    /\ client' = "ended"
    /\ UNCHANGED <<ledger, past, wiped, updates, local, rows, missed>>

\* rx.recv() and the filter by exclude_keys.
Receive ==
    /\ task = "recv"
    /\ channel # <<>>
    /\ channel' = Tail(channel)
    /\ keys' = Head(channel) \ Excluded
    /\ task' = "fetch"
    /\ UNCHANGED <<node, work, entry, next, rows, missed>>

\* The event's bytes are not a list of keys (the runtime has changed).
DiscardUndecodable ==
    /\ FaultsPossible
    /\ task = "recv"
    /\ channel # <<>>
    /\ channel' = Tail(channel)
    /\ missed' = missed \cup Head(channel)
    /\ UNCHANGED <<node, task, keys, work, entry, next, rows>>

\* get_accounts at the latest block, however far that is past the event's own.
Fetch ==
    /\ client = "serving"
    /\ task = "fetch"
    /\ work' = {At(a, ledger[a]) : a \in {b \in keys : ledger[b] # NoToken}}
    /\ keys' = {}
    /\ task' = "loop"
    /\ UNCHANGED <<node, channel, entry, next, rows, missed>>

\* Fault variant: a batch the node did not answer goes back into the channel.
FetchFails_Requeue ==
    /\ FaultsPossible
    /\ client # "starved"
    /\ task = "fetch"
    /\ channel' = Append(channel, keys)
    /\ keys' = {}
    /\ task' = "recv"
    /\ UNCHANGED <<node, work, entry, next, rows, missed>>

\* Any error of Client::request, or a reply with another number of accounts.
FetchFails ==
    /\ FaultsPossible
    /\ client # "starved"
    /\ task = "fetch"
    /\ missed' = missed \cup keys
    /\ keys' = {}
    /\ task' = "recv"
    /\ UNCHANGED <<node, channel, work, entry, next, rows>>

\* Fault variant: the by-mint row goes first, and nothing else.
Begin_MintFirst(e) ==
    /\ task = "loop"
    /\ e \in work
    /\ work' = work \ {e}
    /\ entry' = e
    /\ next' = "SplTokenMint"
    /\ task' = "insert"
    /\ UNCHANGED <<node, channel, keys, rows, missed>>

Begin(e) ==
    /\ task = "loop"
    /\ e \in work
    /\ work' = work \ {e}
    /\ entry' = e
    /\ next' = "ProgramId"
    /\ task' = "insert"
    /\ UNCHANGED <<node, channel, keys, rows, missed>>

Finish ==
    /\ task = "loop"
    /\ work = {}
    /\ task' = "recv"
    /\ UNCHANGED <<node, channel, keys, work, entry, next, rows, missed>>

\* update_index returns the error, run logs it.
Abort ==
    /\ missed' = missed \cup {e.key : e \in work \cup {entry}}
    /\ work' = {}
    /\ entry' = NoEntry
    /\ task' = "recv"

\* Fault variant: the next index is not reset after the last row.
InsertRow_Overrun ==
    /\ task = "insert"
    /\ Row(next, entry) \notin rows
    /\ rows' = rows \cup {Row(next, entry)}
    /\ next' = CASE next = "ProgramId"     -> "SplTokenOwner"
                 [] next = "SplTokenOwner" -> "SplTokenMint"
                 [] next = "SplTokenMint"  -> "none"
    /\ IF next = "SplTokenMint" THEN entry' = NoEntry /\ task' = "loop"
                                ELSE UNCHANGED <<entry, task>>
    /\ UNCHANGED <<node, channel, keys, work, missed>>

\* Fault variant: the loop ends with the first token account it indexes.
InsertRow_First ==
    /\ task = "insert"
    /\ Row(next, entry) \notin rows
    /\ rows' = rows \cup {Row(next, entry)}
    /\ next' = CASE next = "ProgramId"     -> "SplTokenOwner"
                 [] next = "SplTokenOwner" -> "SplTokenMint"
                 [] next = "SplTokenMint"  -> "ProgramId"
    /\ IF next = "SplTokenMint" THEN entry' = NoEntry /\ task' = "recv" /\ work' = {}
                                ELSE UNCHANGED <<entry, task, work>>
    /\ UNCHANGED <<node, channel, keys, missed>>

\* insert_index: the row is new.
InsertRow ==
    /\ task = "insert"
    /\ Row(next, entry) \notin rows
    /\ rows' = rows \cup {Row(next, entry)}
    /\ next' = CASE next = "ProgramId"     -> "SplTokenOwner"
                 [] next = "SplTokenOwner" -> "SplTokenMint"
                 [] next = "SplTokenMint"  -> "ProgramId"
    /\ IF next = "SplTokenMint" THEN entry' = NoEntry /\ task' = "loop"
                                ELSE UNCHANGED <<entry, task>>
    /\ UNCHANGED <<node, channel, keys, work, missed>>

\* Fault variant: ON CONFLICT DO NOTHING.
InsertDuplicate_Skipped ==
    /\ task = "insert"
    /\ Row(next, entry) \in rows
    /\ next' = CASE next = "ProgramId"     -> "SplTokenOwner"
                 [] next = "SplTokenOwner" -> "SplTokenMint"
                 [] next = "SplTokenMint"  -> "ProgramId"
    /\ IF next = "SplTokenMint" THEN entry' = NoEntry /\ task' = "loop"
                                ELSE UNCHANGED <<entry, task>>
    /\ UNCHANGED <<node, channel, keys, work, rows, missed>>

\* insert_index: UNIQUE (index_name, index_key, indexed_key) refuses the row.
InsertDuplicate ==
    /\ task = "insert"
    /\ Row(next, entry) \in rows
    /\ Abort
    /\ UNCHANGED <<node, channel, keys, next, rows>>

\* insert_index: no connection, or the database fails before or after it has
\* the row.
InsertFails(written) ==
    /\ FaultsPossible
    /\ task = "insert"
    /\ rows' = IF written THEN rows \cup {Row(next, entry)} ELSE rows
    /\ Abort
    /\ UNCHANGED <<node, channel, keys, next>>

\* The process dies and starts again.  The channel is lost; so are the rows of
\* an in-memory table.
Restart ==
    /\ FaultsPossible
    /\ channel' = <<>>
    /\ task' = "recv"
    /\ keys' = {}
    /\ work' = {}
    /\ entry' = NoEntry
    /\ next' = "ProgramId"
    /\ rows' = IF Persistent THEN rows ELSE {}
    /\ missed' = missed \cup {a \in Accounts : \/ Pending(a)
                                               \/ ~Persistent /\ ledger[a] # NoToken}
    /\ client' \in ClientStart
    /\ UNCHANGED <<ledger, past, wiped, updates>>

Step ==
    \/ Receive \/ DiscardUndecodable
    \/ Fetch \/ FetchFails
    \/ \E e \in work : Begin(e)
    \/ Finish
    \/ InsertRow \/ InsertDuplicate
    \/ \E written \in BOOLEAN : InsertFails(written)

Next ==
    \/ \E B \in (SUBSET Accounts) \ {{}}, delivered \in BOOLEAN :
         \E new \in [B -> State] : Transact(B, new, delivered)
    \/ Step
    \/ ClientEnds
    \/ Restart

Spec == Init /\ [][Next]_vars

\* The runtime polls the task, a client that serves answers (NodeClient's
\* Answered), one that has ended fails requests at once, and the database
\* answers.  Nothing is assumed of a starved client: Step is not enabled then.
FairSpec == Spec /\ WF_vars(Step)

-----------------------------------------------------------------------------
(* Properties.                                                             *)

TypeOK ==
    /\ ledger \in [Accounts -> State]
    /\ past \subseteq [key : Accounts, state : State]
    /\ wiped \subseteq Accounts
    /\ updates \in Nat
    /\ client \in {"serving", "starved", "ended"}
    /\ channel \in Seq(SUBSET Accounts)
    /\ task \in {"recv", "fetch", "loop", "insert"}
    /\ keys \subseteq Accounts
    /\ work \subseteq Entry
    /\ entry \in Entry \cup {NoEntry}
    /\ next \in Indexes
    /\ rows \subseteq RowSet
    /\ missed \subseteq Accounts

\* A row is backed by one state the account has really been in, and an owner
\* or mint row never stands without the rows inserted before it for that very
\* state: whatever fails between two inserts, and however often the account
\* changes, a by-mint lookup finds nothing that a by-owner and a by-program
\* lookup would not.  Excluded keys never get in.
Backed(r) ==
    \E e \in past :
        /\ e.key = r.indexed
        /\ e.state # NoToken
        /\ r = Row(r.index, e)
        /\ r.index # "ProgramId" => Row("ProgramId", e) \in rows
        /\ r.index = "SplTokenMint" => Row("SplTokenOwner", e) \in rows

RowsBacked == \A r \in rows : r.indexed \notin Excluded /\ Backed(r)

\* The rows of an account in an index.
RowsOf(index, a) == {r \in rows : r.index = index /\ r.indexed = a}

\* An account is found under no more owners than programs and under no more
\* mints than owners, although it may change any of them time and again: a state
\* of the same program never gets past its by-program row, so old owners' rows
\* do not pile up.
StaleRowsBounded ==
    \A a \in Accounts :
        /\ Cardinality(RowsOf("SplTokenOwner", a)) <= Cardinality(RowsOf("ProgramId", a))
        /\ Cardinality(RowsOf("SplTokenMint", a)) <= Cardinality(RowsOf("SplTokenOwner", a))

\* The task fills the table as its readers expect.
Table == INSTANCE IndexTable

TableSpec == Table!Spec

\* An account whose events all arrived and whose batches all went through is
\* found under its present program, owner and mint as soon as nothing of it is
\* on its way: changes that overtake the task, other accounts' failures and
\* restarts do not make the index silently incomplete for it.
Indexed(a) == \A index \in Indexes : Row(index, At(a, ledger[a])) \in rows

CompleteUnlessMissed ==
    \A a \in Accounts \ (Excluded \cup missed) :
        Pending(a) \/ ledger[a] = NoToken \/ Indexed(a)

\* What the task has left to do for the batch in hand: the calls and the rows,
\* were every account a token account.
RowsLeft == CASE next = "ProgramId"     -> 3
              [] next = "SplTokenOwner" -> 2
              [] next = "SplTokenMint"  -> 1
Chores ==
    CASE task = "recv"   -> 0
      [] task = "fetch"  -> 4 * Cardinality(Accounts) + 2
      [] task = "loop"   -> 4 * Cardinality(work) + 1
      [] task = "insert" -> 4 * Cardinality(work) + 1 + RowsLeft

\* Each step of the task gets on with the batch in hand or, once that is done
\* with, takes the next; whatever fails is not begun again, and what is announced
\* meanwhile waits behind the batches that were there and costs them nothing.
EveryStepHelps ==
    [][\/ Restart
       \/ IF Step THEN \/ channel' = channel /\ Chores' < Chores
                       \/ Chores = 0 /\ channel # <<>> /\ channel' = Tail(channel)
                  ELSE /\ Chores' = Chores
                       /\ \A i \in 1 .. Len(channel) : channel'[i] = channel[i]]_vars

\* Every announced account is dealt with, if only by giving up on it, as long as
\* the client's task receives requests or has ended: a starved one leaves every
\* batch where it is until Ctrl-C, and from then on this holds again.
CaughtUp == \A a \in Accounts : Pending(a) ~> ~Pending(a) \/ client = "starved"

\* What the comment on get_filtered_spl_token_accounts_by_owner says of the
\* by-owner index: as inclusion checks the owner, filtering a lookup by owner
\* is redundant but for accounts that were wiped.
FilterRedundant ==
    \A owner \in Owners :
        \A a \in Lookup("SplTokenOwner", owner) \ wiped :
            ~Pending(a) => ledger[a].owner = owner
=============================================================================
