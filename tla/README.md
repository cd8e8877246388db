# A verification development of noir-sidecar

noir-sidecar is a process that stands beside a Noir (Substrate) node and gives it
a Solana JSON-RPC interface.  This directory holds TLA+ modules for its parts, TLC
configurations that check them on small instances, and TLAPS proofs of the
properties that matter most for every instance.  All paths below are relative to
the repository.

Contents: [the system](#the-system) - [the modules](#the-modules) -
[runs](#runs-and-what-they-show) - [fairness](#fairness) - [proofs](#proofs) -
[what the code does not do as it says](#where-the-code-and-its-words-part) -
[abstractions](#abstractions-and-what-is-left-out) - [plan](#plan).

## The system

```
 caller --HTTP--> server --> RPC handlers --Client::request--> client task --WebSocket--> node
                                 |                                  ^                      |
                          get_indexed_keys                    get_accounts          finalized blocks
                                 v                                  |                      v
                           accounts_index <--insert_index-- indexer task <--channel-- event task
```

| part | source | state | operations |
|---|---|---|---|
| Client | `src/src/client/mod.rs` | an unbounded queue, the task's `Option<WsClient>`, one oneshot per request | `request`, `run` (receive, forward, requeue, give up, reconnect), end on Ctrl-C |
| Solana RPC | `src/src/rpc/solana/mod.rs`, `src/src/client/solana.rs` | none but a handler's locals | the methods of `SolanaServer`, each several node calls at a pinned block and a lookup |
| AccountsIndex | `src/src/db/index/*.rs` | table `accounts_index`, a channel of batches | `initialize`, `run` / `update_index`, `insert_index`, `get_indexed_keys` |
| EventSubscriber | `src/src/event/mod.rs` | its client, a subscription | `run`: connect, subscribe, take blocks, hand out events |
| Server and main | `src/src/server.rs`, `src/src/main.rs`, `src/src/router/mod.rs`, `src/src/rpc/mod.rs` | a listener | start-up, request timeout, graceful shutdown |
| Mock SVM | `src/src/rpc/solana/mock/*.rs` | a LiteSVM in a blocking thread | polled requests, `terminateSvm` |
| Database handles | `src/src/db/{sqlite,postgres}.rs` | a connection, a pool | open, `conn` |
| Configuration, CLI, logger | `src/src/{config,cli,logger}.rs` | none after start-up | read once |

**How they interact.**  Handlers and the indexer reach the node only through
`Client::request`: a message on the client's queue and a oneshot for the answer.
The event task has a connection of its own, and sends raw event bytes to the
indexer over an unbounded channel.  Handlers and the indexer share the table.  The
server's timeout drops a handler's future, and with it the receiver of its oneshot.
Processes that are given the same database share its table.

**What is hard in it**, and what each part has to get right:

* *Client.*  The task that owns the connection also requeues what it could not
  send, in two sends between which other callers' messages may come; callers vanish
  while they wait; the task may end with messages in its queue.  A request must not
  reach the node twice (it may be a transaction), `RequestFailed` must mean that the
  node has not seen it, the retry budget must be honoured, nobody may be left
  waiting on a oneshot whose other end is lost, and everybody must be answered.
* *AccountsIndex.*  Accounts are read long after the event, and rows are inserted
  one at a time into a table that refuses duplicates; the first error ends a batch;
  events get lost; the process restarts.  Rows must stem from states that really
  were, in an order a reader can rely on, and the index must be complete for every
  account that missed nothing.
* *Index creation.*  Several processes look for the table and create it in steps,
  any of which may fail, and a process may die between two of them.
* *EventSubscriber.*  Connections break, subscriptions restart at the newest block,
  a runtime upgrade leaves the client with stale metadata.  What is handed out must
  stay in order, and what is missed must have been skipped for a reason.
* *Solana RPC.*  An answer is put together from up to five calls, while the node
  imports, reorganises and finalizes and the index grows.  It must be a picture of
  one block, and show exactly the accounts that belong to it there.
* *A caller's filters.*  They decide which index a scan goes through: the last of
  several filters on one field counts there, a filter may compare only the beginning
  of a key, and the index has rows of what an account once was.  The choice of the
  index must neither hide an account that passes all filters nor show one that does
  not.
* *Server, main, mock SVM.*  Signals come at any time, before the server listens
  too, and reach only who listens by then.  The server drains while its backend may
  be the first to go; timeouts drop handlers whose calls are under way.  Nobody who
  was let in may be left waiting, a request that is over may leave one call at most
  behind in a queue, and the process must end.

`PROJECT.json` lists every hazard at its line, with the properties that look for it
or the reason why none does.

## The modules

| module | what it is | code |
|---|---|---|
| `RequestService` | what `Client::request` promises its callers | `client/mod.rs` 75-93 |
| `NodeClient` | the queue, the client task, the connection, the callers; implements `RequestService` | `client/mod.rs` 56-181 |
| `NodeClientProofs` | its theorems | |
| `IndexTable` | what the table's readers may rely on | `db/index/mod.rs` 131-146, `sqlite.rs` 90-93 |
| `AccountsIndex` | the indexing task and the table's rows, against a ledger that changes; implements `IndexTable` | `db/index/mod.rs`, `sqlite.rs`, `postgres.rs` |
| `AccountsIndexProofs` | its theorems | |
| `IndexSchema` | creation of the table by processes that start, collide and die | `create_index` of `sqlite.rs`, `postgres.rs`; `main.rs` |
| `IndexSchemaProofs` | its theorems | |
| `EventFeed` | what the subscriber promises the receivers of its filters | `event/mod.rs` |
| `EventSubscriber` | the event task; implements `EventFeed` | `event/mod.rs` 29-106 |
| `EventSubscriberProofs` | its theorems | |
| `SolanaReads` | the reading handlers, call by call, over a forking chain and the rows of `IndexTable` | `rpc/solana/mod.rs`, `client/solana.rs` |
| `SolanaReadsProofs` | its theorems | |
| `TokenFilters` | the way of a caller's filters to an index and to the node | `rpc/solana/mod.rs` 318-429, 1112-1161, 1286-1301, 1413-1513 |
| `TokenFiltersProofs` | its theorems | |
| `MockSvm` | the mock backend's channel and thread; implements `RequestService` within `Sidecar` | `rpc/solana/mock/svm.rs`, `execute` of `mock/mod.rs` |
| `MockSvmProofs` | its invariant and theorems | |
| `Sidecar` | the process: server, handlers, signals, shutdown, over `NodeClient` or `MockSvm` | `main.rs`, `server.rs`, `rpc/mod.rs`, `router/mod.rs` |
| `SidecarProofs` | its theorems | |
| `MCNodeClient`, `MCAccountsIndex`, `MCEventSubscriber`, `MCSolanaReads`, `MCTokenFilters`, `MCSidecar` | symmetries and values for TLC | |

```
 RequestService <---- NodeClient <--+             EventFeed <---- EventSubscriber
                <---- MockSvm    <--+-- Sidecar
 IndexTable <---- AccountsIndex
            <-- SolanaReads
 (<---- implements, <-- instantiates)
```

`IndexTable` is where the two sides of the table meet: `AccountsIndex` is shown to do
nothing that it does not allow, and `SolanaReads` lets any row that it allows appear
between two calls of a handler, so that what is shown of the handlers holds
over the indexer as it is.  (A table in memory is lost by a restart, which ends the
handlers as well.)

Definitions named `X_Something` under the words "Fault variant" are bugs that the
code does not have.  No specification uses them.  Put in the place of `X` each makes
TLC find the property `PROJECT.json` names with it violated: that is how the
properties are known to say something.

**NodeClient.**  `queue` is the channel; `task` is where the spawned task is:
`"signal"` at `ctrl_c().await`, `"recv"` at `rx.recv()`, `"requeue"` between its two
sends, `"requesting"` and `"connecting"` at the awaits of the node.  `client` is the
`Option<WsClient>` together with `is_connected`.  `caller` is what each caller of
`Client::request` is doing; `Cancel` is the timeout layer that drops it.  One action
per branch of the loop.  `listener` is fixed when a process starts: with a Ctrl-C
listener the loop does not get past its first await before Ctrl-C, without one the
await is an error and the turn goes on.  `sent` and `tries` are history.

**AccountsIndex.**  `channel`, `keys`, `work`, `entry` and `next` are the indexer's
place: the batches announced, the keys it has asked for, the token accounts left,
the one whose rows are being inserted and the index its next row goes to.
`Receive`, `Fetch`, `Begin`, `InsertRow`, `InsertDuplicate`, `Finish` and the failure
of each are the steps of `run` and `update_index`.  `client` is what has become of the
client's task, which decides whether a fetch is answered, fails, or waits; it stands
for `task` of `NodeClient`, and `ClientEnds` for its Ctrl-C and its panic.  The `channel` also stands for an
event's way through the event task.  `past`, `wiped` and `missed` are history.

**IndexSchema.**  `schema` is what there is of the table and its two indexes, `pc`
each process' place in `initialize`.  SQLite's batch is one step, Postgres' three
statements are three.

**EventSubscriber.**  `link` and `metadata` are the task's `Option<OnlineClient>`,
`phase` its place in the two nested loops, `cursor` what the subscription gives next,
and `buffered` how far the stream goes on after its connection broke; the events of
such a block cannot be had any more.
The chain of finalized blocks, and the runtime that built each, are the environment.

**SolanaReads.**  A handler is a sequence of calls (`AfterSlot`, `After`): pin a
block, read its slot, then what its method reads.  `hash`, `program`, `keys` and
`ans` are its locals.  `blocks`, `best` and `final` are the node: every block
carries the state after it, `Import` may fork, `Finalize` may reorganise.  `rows` is
the table, to which rows of the state of an account in any imported block may be added
at any time, in the order of `IndexTable`; they may be out of date or stem from a block
that was dropped.  `known` is what the lookup would have found when the
request came.

**TokenFilters.**  One handler from the request to the answer: `filters` is its
`Vec<RpcFilterType>`, `route` the index and the key, `keys` what `get_indexed_keys`
gave.  `Refuse` and `Optimize` are `verify_filter` and `optimize_filters`,
`ByOwner`, `ByMint` and `ByProgram` the branches of `get_program_accounts`,
`Lookup` adds to the filters what the chosen index stands for, `Scan` is what the node
does with the keys and filters.  `asked` is history: the list as the caller meant
it.  The ledger stands still, as `SolanaReads` has the one that moves.

**MockSvm.**  `channel` is the mpsc channel, `thread` the loop of `spawn_blocking`,
`held` the request it executes.  `Take` is `try_recv`, `Finish` the answer on the
oneshot, `Stop` the message `terminateSvm`.

**Sidecar.**  `http` is what each HTTP request has come to, `server` where
`axum::serve` with its graceful shutdown is, `stopper` the mock's task that awaits
Ctrl-C, `ears` who has installed a signal listener and `heard` who has heard a signal
since, `process` whether `main` runs, waits for the runtime to shut down, or is over.
A handler is a sequence of up to `Calls` calls of the backend, each the `Submit` of
`NodeClient` or `MockSvm`; `Ok` and `Error` are its answers, `TimeOut` is the timeout
layer and `HangUp` a peer that goes, both of which drop the handler's future and the
oneshot it waits on.  `Return` is the end of `main`, which drops every task;
`Exit` waits for the mock's thread.  Only the server awaits SIGTERM; everyone who
listens hears Ctrl-C; a signal that nobody listens for kills the process.

## Runs and what they show

| run | instance | shows |
|---|---|---|
| `client` | 3 requests, 3 retries | no request sent twice, no false `RequestFailed`, budget kept, nobody forgotten, queue bounded, each turn takes every caller nearer to his answer, everybody answered where the loop can turn, the promise of `Client::request` kept; 336 000 states |
| `index` | 2 accounts, 2 owners, 2 transactions, in-memory table, all faults | old rows do not pile up, complete unless missed, implements `IndexTable`, each step leaves less to do, catches up unless the client is starved; 204 000 states |
| `schema` | 3 processes, 2 crashes or failed calls, both engines | nobody runs without the table, Postgres adds up while nothing fails, each is ready after seven steps of its own, all run in the end; 2 300 states |
| `events` | 2 filters, 2 blocks of up to 2 events, 1 upgrade, 3 faults | in order, no silent gap, no loss without cause, each step takes every block nearer to being settled, recovers, settles every block, implements the feed; 1.1 million states |
| `reads_scan` | an account with 2 owners, its mint there or not, 3 blocks | scans are sound, complete and of one block; 2.0 million states |
| `reads_block` | an account, the native mint, 3 blocks | the other methods' answers are of one block, simulations whole; 1.3 million states |
| `filters` | an account of every sort, rows of what it is and was, about a thousand lists of filters | whatever index a list leads to, what is shown passes and what is indexed and passes is shown; 2.4 million states |
| `sidecar` | 2 HTTP requests of up to 2 calls, either backend, signals at any time | nobody stranded, at most one call outlives its request, either backend keeps `RequestService` and comes nearer to every answer with each turn, every request ends, a shutdown is never set back and ends the process; 119 000 states |
| `client_unwrap`, `client_starved`, `index_redundant`, `schema_expect` | as small as it takes | four things the repository says that the code does not do, see below |

**Bounds.**  Three requests let one be forwarded while another is requeued and the
TryConnect of a third comes between; three is the retry count of the code.  Two
accounts are a batch in which one's duplicate row ends the other's; two transactions
are an event on an account whose rows are there already.  Three processes are a
winner, a loser and one that starts after both.  Two blocks with two events each let
a subscription break between blocks and within one; three faults are a break, a
failed reconnection and a failed read.  Three blocks are the smallest chain that
forks and is reorganised while a handler runs.
Lists of three filters are two that contradict or repeat each other and one that
tells that only token accounts pass; without such a one no index by owner or mint is
taken, and its place among the other two makes no difference to them, so of the lists
of three those whose first or last filter tells are enough.
The code allows four, and the proofs hold for lists of any length and any limit.  Two
HTTP requests of two calls are one that fails or is dropped between its calls while
the other's call is behind it in the queue.  There one retry is enough: what the
first request connects serves the others.
An account's only traits are its program, its owner and its mint,
so that an account that changes its owner stands for one that changes any of them.
The properties that are proved hold beyond these bounds.  The MC modules extend the
proof modules where there is one, so that adding `IInv` to a configuration checks the
proof's invariant on the same instance; it is not part of the runs.

`CHECK_DEADLOCK FALSE` is in a configuration where the environment is bounded: with
no transaction, block or request left the task waits for more, as it should.

## Fairness

* `NodeClient`: `WF(Turn)`.  The runtime polls the task; a connection attempt and a
  request end within jsonrpsee's timeouts, which `try_connect` configures.  Nothing
  is assumed of Ctrl-C, of the connection's health or of the callers.
* `AccountsIndex`: `WF(Step)`.  The runtime polls the task, and the database answers,
  with success or an error.  `Client::request` is not taken to answer always: with
  `client = "starved"`, as it is wherever a Ctrl-C listener can be installed and until
  Ctrl-C (`client_starved` below), neither `Fetch` nor `FetchFails` is enabled, since
  `update_index` has no timeout, and the fairness asks for nothing.  `CaughtUp` says so:
  what is announced is dealt with *or the client is starved*.  With `"serving"` the
  answer is `Answered` of `NodeClient`; with `"ended"` every request fails at once.
* `IndexSchema`: `WF(Start \/ Initialize)` per process.  Whoever runs the processes
  starts them again; the database answers.  Crashes and failures are bounded.
* `EventSubscriber`: `WF(Step)`.  The runtime polls the task, the node answers or the
  connection is lost.  The code has no timeout of its own there: on a node that keeps
  the connection and stays silent the task hangs, which is listed as a hazard.
  Faults are bounded, so what is shown is recovery once they stop.

* `Sidecar`: weak fairness of the server's and `main`'s steps, of the backend's, of
  the stopper's message once it has heard Ctrl-C, and of each handler's steps and its
  timer, which the timeout layer arms for every request.  No signal need come, no
  peer need hang up, and no listener need be installed in time: a signal may always
  come first.

`SolanaReads` and `TokenFilters` state safety only.  That their calls end is what
`Answered` says of a process without a Ctrl-C listener; with one it is the timeout
layer that ends the handler (`HandlersEnd`).

## Proofs

Each proof module has an inductive invariant `IInv`, shown to hold at first, to be
preserved by each action in a lemma of its own, and to imply the properties.

* **`NodeClientProofs`**, for any requests and any number of retries: `TypeCorrect`,
  `NeverSentTwice`, `FailureIsClean`, `BudgetKept`, `NobodyForgotten`,
  `QueueIsBounded`, `TurnsHelp`, `NeverStuck`, and `Refinement` of `RequestService`.
  The properties are not inductive: that a request
  is not sent twice rests on there being one message of it at most, in the queue or in
  the task's hands (`Distinct`, `HandShape`), that none in the queue has been sent
  (`QueuedUnsent`), and that a caller who is answered had his sent (`AnsweredSent`).
  The budget rests on `Budget`: as many connection attempts were finished as retries
  are gone, or a TryConnect is ahead of the request in the queue.  `QueueIsBounded`
  rests on `Paired`: every TryConnect can be put down to a request behind it.
* **`AccountsIndexProofs`**, for any accounts, exclusions, programs, owners and mints,
  with and without faults and persistence: `TypeCorrect`, `TableSound`,
  `TableComplete`, `StaleRowsAreBounded`, `StepsHelp`, and `Refinement` of `IndexTable`.
  `TableSound` is the state form of `Refinement` and part of the invariant
  (`RowsBacked`).  `StaleRowsAreBounded` rests on `Sizes`: the entry in hand got past its
  earlier row, so it has room for the next.  The key to the rest is
  `AllCurrent`: an account that missed nothing is announced, or in the task's hands *in
  its present state*, or indexed in it; a change of the account while it is in hand is
  always accompanied by an event that announces it again, or puts it among the missed.
* **`IndexSchemaProofs`**, for any number of processes and faults: `TypeCorrect`,
  `TableBeforeTasks`, `BatchIsAtomic`, `StatementsAddUp`, `StartUpEnds`.
  `StatementsAddUp` rests on
  `Attended`: while nothing has failed, some process is at work on the first part
  that is missing.
* **`EventSubscriberProofs`**, for any filters and bounds: `TypeCorrect`,
  `SentInOrder`, `GapsAccountedFor`, `NothingLostInCalm`, `StepsHelp`, and `Refinement`
  of `EventFeed`.  `NothingLostInCalm` rests on `Calm`, what the task looks like as long as
  nothing has gone wrong.  Order rests on
  `AllBehind`, that all that was sent lies behind the task's position in the chain;
  the absence of gaps on `HalfDone`, what was handed out of the block in hand.
* **`SolanaReadsProofs`**, for any accounts, programs, owners, mints and chains, and
  every interleaving of a handler with the node and the indexer: `TypeCorrect`,
  `OnePicture`, `ScansSound`, `ScansComplete`, `SimulationsWhole`.  `Ancestry` and
  `Pinned` keep a finalized block final while the handler works, `Pictured` and
  `Carried` say what its locals owe to the pinned block and to the index at each step,
  and `Place` which steps a method has.
* **`TokenFiltersProofs`**, for any accounts, keys and lists of filters: `TypeCorrect`,
  `WhatIsShownPasses`, `WhatPassesIsShown`.  The argument follows the list: decoding
  changes nothing about what passes (`Kept`); what `Lookup` adds is only missed by
  accounts the index does not hold, and an indexed account that passes the caller's
  list has the key of the route, so its row is found (`Routed`, `Found`).
* **`SidecarProofs`**, with `MockSvmProofs` and the lemmas of `NodeClientProofs`, for any
  handlers, calls and retries and for both builds: `TypeCorrect`, `NobodyIsStranded`,
  `AtMostOneOutlives`, `TurnsHelp`, `ShutdownAdvances`, `TerminateNotLost`, and
  `Refinement`: over the whole life of the process either
  backend implements `RequestService`.  A handler that has been answered waits for
  nothing, one that was dropped waited for one call, and a backend executes only what
  somebody waits for or was dropped from.
  `Termination` follows the message `terminateSvm` to the thread.

**Progress.**  Leads-to properties are beyond the prover, but what makes them true is
not: a measure that every step of the task lowers and that nobody else raises.  These
are action properties; each is checked by a run and proved for every instance.

| theorem | what decreases | it carries |
|---|---|---|
| `NodeClientProofs!TurnsHelp` | for each caller who waits: twice the retries his request has left, one more while it is held back (`Round`), its place in the queue (`Place`), what the task does before it receives again (`Stage`), in this order | `Answered` |
| `EventSubscriberProofs!StepsHelp` | for each finalized block: the blocks the stream gives before it (`Ahead`), what the task does before it takes the next (`Chores`) | `EveryBlockSettled`, `Recovers` |
| `AccountsIndexProofs!StepsHelp` | the calls and rows left of the batch in hand (`Chores`, `RowsLeft`), and then the batches behind it, for any finite set of accounts | `CaughtUp` |
| `IndexSchemaProofs!StartUpEnds` | at most seven steps of each process, its panics and restarts included (`StepsLeft`) | `AllReady` |
| `SidecarProofs!TurnsHelp` | the distance of every caller from his answer, over either backend | `HandlersEnd` |
| `SidecarProofs!ShutdownAdvances` | the open handlers, the steps of `main` (`StepsLeft`), the place of `terminateSvm` in the channel (`UntilEnd`) | `Ends` |

Two invariants go with them: `NeverStuck`, that the client task has a turn to take
whenever somebody waits and no listener holds it up, and `TerminateNotLost`, that the
mock's thread has a message to come to as long as it runs.  What the proofs leave to TLC
is the step from there to the leads-to properties: that a step which is always possible
is taken in the end, and that a measure cannot decrease forever.

Assumptions: that `Retries`, `MaxAge` and the bounds are naturals, that `Accounts` of the
index is finite (there are finitely many on a chain), that `Excluded` is
part of `Accounts`, that `Wants` gives each filter a kind, that the native mint's
program is a token program, that `Calls` is a natural, that `Zero` is a key, and that
`Lists` are lists of filters.  TLC evaluates all of them.

Every safety property of the runs, action properties and refinements included, is proved.
The type invariants of `NodeClient` and `AccountsIndex` are part of their runs; those of
the other modules, `AllOrNothing` and `TerminateInSight` are proved and not run again.
Model-checked only is what is said about
liveness (`Answered`, `CaughtUp`, `AllReady`, `Recovers`, `EveryBlockSettled`,
`HandlersEnd`, `Ends`), which is out of the prover's reach.

## Where the code and its words part

* `client_unwrap`: `res_tx.send(response).unwrap()` (`src/src/client/mod.rs:160`)
  asserts that the caller is still there.  A caller that was dropped by the request
  timeout makes the client task panic; every request after that is `RequestFailed`.
  `NodeClient` has the panic (`ReplyUnwanted`), and the safety properties hold of it.
* `client_starved`: the loop awaits Ctrl-C before it looks at its queue, on every
  turn (`src/src/client/mod.rs:127`).  Where a listener can be installed no request
  is received before Ctrl-C, whatever the configured timeouts say.
* `index_redundant`: the comment on the by-owner lookup calls the owner filter
  redundant but for wiped accounts (`src/src/rpc/solana/mod.rs:1120`).  An account is
  indexed once, under the owner it then had; when it changes its owner the old row
  stays, and no by-owner lookup returns it any more.
* `schema_expect`: two processes that start together on an empty and healthy database
  can both find no table; the second CREATE INDEX fails and that process panics with
  "Failed to initialize AccountsIndex." (`src/src/main.rs:70`).

## Abstractions and what is left out

* A request, account, owner, program, mint or event is a model value; encodings,
  data slices, logging and the wording of errors are not modelled.
* `NodeClient`: request timeouts and connection timeouts are the outcome "error".
* `AccountsIndex`: a batch is a set, in which the task takes any order; a chain
  reorganisation is a change of the ledger without event.
* `EventSubscriber`: a receiver that is gone is left out, as the indexer's lives as
  long as the process; stale metadata decodes some prefix of a block's events.
* `SolanaReads`: one handler at a time, as handlers share only what they do not
  change.  Accounts are token accounts of the known programs or nothing.  A caller's
  filters are in `TokenFilters`; the order of an answer is left out.  A
  simulation leaves at most one account in a new state, as accounts are merged one
  by one.  Lists (`getMultipleAccounts`, simulations) never read a mint, because the
  code asks whether an account's *key* is a token program
  (`src/src/rpc/solana/mod.rs:1397`); the model follows it.  A blockhash is the hash of
  the block it belongs to; how it is written is left out (`getLatestBlockhash` writes
  base58, `src/src/rpc/solana/mod.rs:536`, and `simulateTransaction` whatever
  `to_string` makes of it, line 631).
* `TokenFilters`: one handler at a time on a ledger that stands still.  A filter
  compares a whole key, the beginning of one, or the byte behind a token account; one
  that compares other bytes narrows the answer like any of them and gives no route.
  The index holds initialised accounts of 165 bytes and nothing else, so the claim that
  nothing is hidden is about those.
* `MockSvm`: what the SVM computes is a value or an error.  The mock's own handlers
  are calls of `execute` one after the other, as `Sidecar` has them, and their answers
  are not modelled.
* `Sidecar`: the indexer and the event task are left out: nobody waits for them, and
  they are dropped with the runtime.  The mock's thread ends by `terminateSvm` only,
  which is only sent after Ctrl-C; after SIGTERM or a failed bind the runtime waits
  for the thread for good, and `Ends` says in which cases the process does end.
* Several sidecars that write rows to one Postgres table are not modelled (each
  would meet the others' rows as duplicates), only their start-up is.
* `sendTransaction` is two requests to the node and keeps nothing; its hazards are
  those of `NodeClient`.  Methods with a constant answer have no behaviour.
* Not modelled: the configuration, the command line, the logger and the database
  handles, which do their work once at start-up.

## Plan

In this order, the most important first.

1. `NodeClient` with `RequestService`: done, checked, proved.
2. `AccountsIndex`, `IndexSchema`: done, checked, proved.
3. `EventSubscriber` with `EventFeed`: done, checked, proved.
4. `SolanaReads`: done, checked, proved.
5. `TokenFilters`: done, checked, proved.
6. `Sidecar` over either backend: done, checked, proved.
7. `MockSvm`: done as the backend of `Sidecar`; the mock's answers are not modelled.
8. The composition of `EventSubscriber` and `AccountsIndex`: not done.  They share
   nothing but the channel of event bytes, and `AccountsIndex` leaves to chance
   whether and when an event gets to that channel, which covers all that the
   subscriber may do.  A composition would tie each missed account to the block that
   was skipped (`GapsAccountedFor` counts those) at the price of the product of two
   large state spaces.
9. The composition of `AccountsIndex` and `SolanaReads`: by `IndexTable`, which the one
   implements and the other assumes.
10. What is worth proving next: that a handler of `SolanaReads` implements the reading of
   one block in one step, and what a caller may conclude from `RequestService`,
   `EventFeed` and `IndexTable` alone.
