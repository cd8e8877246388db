----------------------------- MODULE IndexSchema -----------------------------
(***************************************************************************)
(* AccountsIndex::initialize: create_index of src/src/db/index/sqlite.rs   *)
(* and postgres.rs, run by each process as it starts, on one database.     *)
(*                                                                         *)
(* Both look for the table first and are done if it is there.  SQLite then *)
(* runs one transaction that creates the table and two indexes; Postgres   *)
(* runs three statements, each on its own.  The table is created IF NOT    *)
(* EXISTS, the indexes are not.  An error makes main panic.                *)
(***************************************************************************)
EXTENDS Naturals

CONSTANTS Instances,   \* the processes that share the database
          MaxFaults    \* bound on crashes and failed calls

ASSUME FaultsAssumption == MaxFaults \in Nat

VARIABLES engine,  \* the database: "sqlite" (a file) or "postgres"
          schema,  \* what there is of the table and its two indexes
          pc,      \* where each process is
          faults   \* crashes and failed calls so far

vars == <<engine, schema, pc, faults>>

Full == {"table", "by_key", "by_indexed"}

Init == /\ engine \in {"sqlite", "postgres"}
        /\ schema = {}
        /\ pc = [i \in Instances |-> "off"]
        /\ faults = 0

Goto(i, label) == pc' = [pc EXCEPT ![i] = label]

\* The process starts, for the first time or again.
Start(i) ==
    /\ pc[i] \in {"off", "panicked"}
    /\ Goto(i, "check")
    /\ UNCHANGED <<engine, schema, faults>>

\* Fault variant: the table is not looked for.
Check_Always(i) ==
    /\ pc[i] = "check"
    /\ Goto(i, "create")
    /\ UNCHANGED <<engine, schema, faults>>

Check(i) ==
    /\ pc[i] = "check"
    /\ Goto(i, IF "table" \in schema THEN "ready" ELSE "create")
    /\ UNCHANGED <<engine, schema, faults>>

\* Fault variant: the batch is not committed.
CreateAll_Uncommitted(i) ==
    /\ engine = "sqlite"
    /\ pc[i] = "create"
    /\ Goto(i, IF "by_key" \in schema THEN "panicked" ELSE "ready")
    /\ UNCHANGED <<engine, schema, faults>>

\* SQLite's batch: all of it or, if another process was faster, nothing.
CreateAll(i) ==
    /\ engine = "sqlite"
    /\ pc[i] = "create"
    /\ \/ "by_key" \notin schema /\ schema' = Full /\ Goto(i, "ready")
       \/ "by_key" \in schema /\ Goto(i, "panicked") /\ UNCHANGED schema
    /\ UNCHANGED <<engine, faults>>

\* Postgres' first statement.  IF NOT EXISTS is no help against a statement of
\* another process that runs at the same time.
CreateTable(i) ==
    /\ engine = "postgres"
    /\ pc[i] = "create"
    /\ schema' = schema \cup {"table"}
    /\ \/ Goto(i, "by_key")
       \/ "table" \in schema /\ Goto(i, "panicked")
    /\ UNCHANGED <<engine, faults>>

\* Fault variant: done with the first index.
CreateIndex_One(i) ==
    /\ pc[i] = "by_key"
    /\ \/ pc[i] \notin schema /\ schema' = schema \cup {pc[i]} /\ Goto(i, "ready")
       \/ pc[i] \in schema /\ Goto(i, "panicked") /\ UNCHANGED schema
    /\ UNCHANGED <<engine, faults>>

\* Its second and third.
CreateIndex(i) ==
    /\ pc[i] \in {"by_key", "by_indexed"}
    /\ \/ /\ pc[i] \notin schema
          /\ schema' = schema \cup {pc[i]}
          /\ Goto(i, IF pc[i] = "by_key" THEN "by_indexed" ELSE "ready")
       \/ pc[i] \in schema /\ Goto(i, "panicked") /\ UNCHANGED schema
    /\ UNCHANGED <<engine, faults>>

\* The database is unreachable or refuses a call.
CallFails(i) ==
    /\ faults < MaxFaults
    /\ pc[i] \in {"check", "create", "by_key", "by_indexed"}
    /\ Goto(i, "panicked")
    /\ faults' = faults + 1
    /\ UNCHANGED <<engine, schema>>

\* The process dies.
Crash(i) ==
    /\ faults < MaxFaults
    /\ pc[i] \notin {"off", "panicked"}
    /\ Goto(i, "off")
    /\ faults' = faults + 1
    /\ UNCHANGED <<engine, schema>>

Initialize(i) == Check(i) \/ CreateAll(i) \/ CreateTable(i) \/ CreateIndex(i)

Next == \E i \in Instances : Start(i) \/ Initialize(i) \/ CallFails(i) \/ Crash(i)

Spec == Init /\ [][Next]_vars

\* Whoever runs the processes starts them again; the database answers.
FairSpec == Spec /\ \A i \in Instances : WF_vars(Start(i) \/ Initialize(i))

-----------------------------------------------------------------------------
(* Properties.                                                             *)

TypeOK ==
    /\ engine \in {"sqlite", "postgres"}
    /\ schema \subseteq Full
    /\ pc \in [Instances -> {"off", "panicked", "check", "create", "by_key", "by_indexed",
                             "ready"}]
    /\ faults \in Nat

\* The tasks and the server start on a table that exists, with the UNIQUE
\* constraint that keeps its rows apart, whichever process created it.
ReadyHasTable == (\E i \in Instances : pc[i] = "ready") => "table" \in schema

\* On SQLite the table never stands without its indexes, whoever dies when.
AllOrNothing == engine = "sqlite" => schema \in {{}, Full}

\* On Postgres it may: but without a crash and a failed call only while some
\* process is still at it, although every process that comes second gives up
\* half way.
QuietMeansComplete ==
    /\ faults = 0
    /\ "table" \in schema
    /\ \A i \in Instances : pc[i] \in {"off", "panicked", "ready"}
    => schema = Full

\* What a process has yet to do at most until it is ready, if nothing fails.
\* One that panics over what another has created finds the table next time.
StepsLeft(i) ==
    CASE pc[i] = "create"     -> 5
      [] pc[i] = "by_key"     -> 4
      [] pc[i] = "by_indexed" -> 3
      [] pc[i] = "ready"      -> 0
      [] pc[i] = "check"               -> IF "table" \in schema THEN 1 ELSE 6
      [] pc[i] \in {"off", "panicked"} -> IF "table" \in schema THEN 2 ELSE 7

\* Without a crash or a failed call a process is ready after seven steps of its
\* own, panics and restarts included: each takes it nearer, and none of the
\* others' puts it back, though they create what it was about to.
SevenSteps ==
    [][faults' = faults =>
          \A i \in Instances :
              IF Start(i) \/ Initialize(i) THEN StepsLeft(i)' < StepsLeft(i)
                                           ELSE StepsLeft(i)' <= StepsLeft(i)]_vars

\* All processes get to run in the end: one that gave up finds the table when
\* it is started again.
AllReady == <>[](\A i \in Instances : pc[i] = "ready")

\* What main expects: "Failed to initialize AccountsIndex." is for a database
\* that fails.
InitializeSucceeds == faults = 0 => \A i \in Instances : pc[i] # "panicked"
=============================================================================
