----------------------------- MODULE IndexTable -----------------------------
(***************************************************************************)
(* What the readers of the table accounts_index may rely on, whatever goes *)
(* wrong in the task that fills it (src/src/db/index/mod.rs, update_index):*)
(*                                                                         *)
(*   - a row is of a state its account has been in, and of no account that *)
(*     is excluded;                                                        *)
(*   - rows come one at a time, for one state of an account its by-program *)
(*     row first and its by-mint row last;                                 *)
(*   - no row is changed or deleted, but a table in memory is empty again  *)
(*     after a restart.                                                    *)
(*                                                                         *)
(* It is not promised that a row is there, or that it is up to date.       *)
(***************************************************************************)
CONSTANTS Accounts, Programs, Owners, Mints,
          Excluded,    \* accounts that are not indexed
          Persistent   \* does the table outlive the process?

VARIABLES past,   \* every state an account has been in
          rows    \* the table

tvars == <<past, rows>>

TokenState == [program : Programs, owner : Owners, mint : Mints]
NoToken    == [program |-> "none"]
State      == TokenState \cup {NoToken}

Indexes == {"ProgramId", "SplTokenOwner", "SplTokenMint"}

IndexKey(index, s) == CASE index = "ProgramId"     -> s.program
                        [] index = "SplTokenOwner" -> s.owner
                        [] index = "SplTokenMint"  -> s.mint

Row(index, e) == [index |-> index, key |-> IndexKey(index, e.state), indexed |-> e.key]

\* The indexes a state is entered in before this one.
Before(index) == CASE index = "ProgramId"     -> {}
                   [] index = "SplTokenOwner" -> {"ProgramId"}
                   [] index = "SplTokenMint"  -> {"ProgramId", "SplTokenOwner"}

Init == past \subseteq [key : Accounts, state : State] /\ rows = {}

\* Accounts change.
Change ==
    /\ past \subseteq past' /\ past' \subseteq [key : Accounts, state : State]
    /\ UNCHANGED rows

Insert(index, e) ==
    /\ e.state # NoToken
    /\ e.key \notin Excluded
    /\ \A earlier \in Before(index) : Row(earlier, e) \in rows
    /\ rows' = rows \cup {Row(index, e)}
    /\ UNCHANGED past

Lose == ~Persistent /\ rows' = {} /\ UNCHANGED past

Next == Change \/ (\E index \in Indexes, e \in past : Insert(index, e)) \/ Lose

Spec == Init /\ [][Next]_tvars
=============================================================================
