-------------------------- MODULE IndexSchemaProofs --------------------------
(* Theorems about IndexSchema, for any number of processes and faults. *)
EXTENDS IndexSchema, TLAPS

\* The parts are created in this order; whoever runs has what he relies on.
Ordered ==
    /\ "by_indexed" \in schema => "by_key" \in schema
    /\ "by_key" \in schema => "table" \in schema
    /\ \A i \in Instances :
          /\ pc[i] \in {"by_key", "by_indexed", "ready"} => "table" \in schema
          /\ pc[i] = "by_indexed" => "by_key" \in schema
          /\ pc[i] \in {"by_key", "by_indexed"} => engine = "postgres"

\* As long as nothing fails somebody is at work on what is missing.
Attended ==
    faults = 0 =>
        /\ "table" \in schema /\ "by_key" \notin schema =>
              \E i \in Instances : pc[i] = "by_key"
        /\ "by_key" \in schema /\ "by_indexed" \notin schema =>
              \E i \in Instances : pc[i] = "by_indexed"

IInv == TypeOK /\ Ordered /\ AllOrNothing /\ Attended

USE DEF Full, Goto

LEMMA InitIInv == Init => IInv
BY DEF Init, IInv, TypeOK, Ordered, AllOrNothing, Attended

LEMMA FaultsOnlyGrow ==
    ASSUME TypeOK, NEW i \in Instances, CallFails(i) \/ Crash(i)
    PROVE  faults' \in Nat /\ faults' # 0
BY DEF TypeOK, CallFails, Crash

LEMMA NextIInv == IInv /\ Next => IInv'
<1> SUFFICES ASSUME IInv, NEW i \in Instances,
                    Start(i) \/ Initialize(i) \/ CallFails(i) \/ Crash(i)
             PROVE  IInv'
  BY DEF Next
<1> USE FaultsAssumption DEF IInv, TypeOK, Ordered, AllOrNothing, Attended
<1>1. CASE Start(i)
  BY <1>1 DEF Start
<1>2. CASE Check(i)
  BY <1>2 DEF Check
<1>3. CASE CreateAll(i)
  BY <1>3 DEF CreateAll
<1>4. CASE CreateTable(i)
  <2>1. CASE pc' = [pc EXCEPT ![i] = "by_key"]
    BY <1>4, <2>1 DEF CreateTable
  <2>2. CASE "table" \in schema /\ pc' = [pc EXCEPT ![i] = "panicked"]
    BY <1>4, <2>2 DEF CreateTable
  <2> QED
    BY <1>4, <2>1, <2>2 DEF CreateTable
<1>5. CASE CreateIndex(i)
  <2>1. CASE pc[i] \in schema
    BY <1>5, <2>1 DEF CreateIndex
  <2>2. CASE pc[i] = "by_key" /\ "by_key" \notin schema
    <3>1. /\ schema' = schema \cup {"by_key"}
          /\ pc' = [pc EXCEPT ![i] = "by_indexed"]
          /\ faults' = faults /\ engine' = engine
      BY <1>5, <2>2 DEF CreateIndex
    <3>2. pc'[i] = "by_indexed" /\ \A j \in Instances \ {i} : pc'[j] = pc[j]
      BY <3>1
    <3>3. TypeOK' /\ AllOrNothing'
      BY <2>2, <3>1
    <3>4. Ordered'
      BY <2>2, <3>1, <3>2
    <3>5. Attended'
      BY <2>2, <3>1, <3>2
    <3> QED
      BY <3>3, <3>4, <3>5
  <2>3. CASE pc[i] = "by_indexed" /\ "by_indexed" \notin schema
    BY <1>5, <2>3 DEF CreateIndex
  <2> QED
    BY <1>5, <2>1, <2>2, <2>3 DEF CreateIndex
<1>6. CASE CallFails(i)
  BY <1>6, FaultsOnlyGrow DEF CallFails
<1>7. CASE Crash(i)
  BY <1>7, FaultsOnlyGrow DEF Crash
<1> QED
  BY <1>1, <1>2, <1>3, <1>4, <1>5, <1>6, <1>7 DEF Initialize

\* The inductive invariant: the parts come in order, and someone attends to
\* what is missing until something fails.
THEOREM Invariance == Spec => []IInv
<1>1. IInv /\ UNCHANGED vars => IInv'
  BY DEF IInv, TypeOK, Ordered, AllOrNothing, Attended, vars
<1> QED
  BY <1>1, InitIInv, NextIInv, PTL DEF Spec

\* A process is in one of the places initialize has, and no part of the table
\* is there that no statement creates.
THEOREM TypeCorrect == Spec => []TypeOK
<1>1. IInv => TypeOK
  BY DEF IInv
<1> QED
  BY <1>1, Invariance, PTL

\* No process starts its tasks without the table, however many start at once
\* and however often they die.
THEOREM TableBeforeTasks == Spec => []ReadyHasTable
<1>1. IInv => ReadyHasTable
  BY DEF IInv, Ordered, ReadyHasTable
<1> QED
  BY <1>1, Invariance, PTL

\* SQLite's transaction leaves no table without indexes.
THEOREM BatchIsAtomic == Spec => []AllOrNothing
<1>1. IInv => AllOrNothing
  BY DEF IInv
<1> QED
  BY <1>1, Invariance, PTL

\* Postgres' three statements leave none either as long as nothing fails, for
\* any number of processes that collide.
THEOREM StatementsAddUp == Spec => []QuietMeansComplete
<1>1. IInv => QuietMeansComplete
  BY DEF IInv, TypeOK, Ordered, Attended, QuietMeansComplete
<1> QED
  BY <1>1, Invariance, PTL

-----------------------------------------------------------------------------
(* Start-up ends.                                                          *)

\* A step of process i leaves the others where they are, and takes nothing of
\* the schema away.
LEMMA OthersKeep ==
    ASSUME TypeOK, NEW i \in Instances, NEW j \in Instances, i # j,
           Start(i) \/ Initialize(i)
    PROVE  StepsLeft(j)' <= StepsLeft(j)
<1>1. pc'[j] = pc[j] /\ schema \subseteq schema'
  BY DEF TypeOK, Start, Initialize, Check, CreateAll, CreateTable, CreateIndex
<1>2. pc[j] \in {"off", "panicked", "check", "create", "by_key", "by_indexed", "ready"}
  BY DEF TypeOK
<1> QED
  BY <1>1, <1>2 DEF StepsLeft

\* Its own step takes it on, to panic at most once: over a table that it finds
\* when it starts again.
LEMMA OwnStep ==
    ASSUME IInv, NEW i \in Instances, Start(i) \/ Initialize(i)
    PROVE  StepsLeft(i)' < StepsLeft(i)
<1> USE DEF IInv, TypeOK, StepsLeft
<1>1. CASE Start(i)
  BY <1>1 DEF Start
<1>2. CASE Check(i)
  BY <1>2 DEF Check
<1>3. CASE CreateAll(i)
  BY <1>3 DEF CreateAll, Ordered
<1>4. CASE CreateTable(i)
  BY <1>4 DEF CreateTable
<1>5. CASE CreateIndex(i)
  BY <1>5 DEF CreateIndex, Ordered
<1> QED
  BY <1>1, <1>2, <1>3, <1>4, <1>5 DEF Initialize

\* However many processes create the index at once, each is through after seven
\* steps that nothing made fail.
THEOREM StartUpEnds == Spec => SevenSteps
<1>1. IInv /\ [Next]_vars =>
        [faults' = faults =>
           \A i \in Instances :
               IF Start(i) \/ Initialize(i) THEN StepsLeft(i)' < StepsLeft(i)
                                            ELSE StepsLeft(i)' <= StepsLeft(i)]_vars
  <2> SUFFICES ASSUME IInv, Next, faults' = faults, NEW i \in Instances
               PROVE  IF Start(i) \/ Initialize(i) THEN StepsLeft(i)' < StepsLeft(i)
                                                   ELSE StepsLeft(i)' <= StepsLeft(i)
    OBVIOUS
  <2>1. PICK j \in Instances : Start(j) \/ Initialize(j)
    BY DEF Next, CallFails, Crash, IInv, TypeOK
  <2>2. CASE Start(i) \/ Initialize(i)
    BY <2>2, OwnStep
  <2>3. CASE ~(Start(i) \/ Initialize(i))
    BY <2>1, <2>3, OthersKeep DEF IInv
  <2> QED
    BY <2>2, <2>3
<1> QED
  BY <1>1, Invariance, PTL DEF Spec, SevenSteps
=============================================================================
