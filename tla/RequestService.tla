--------------------------- MODULE RequestService ---------------------------
(***************************************************************************)
(* What Client::request promises its callers (src/src/client/mod.rs,       *)
(* lines 75-93), whatever queue, task and connection stand behind it:      *)
(*                                                                         *)
(*   - the node executes a request at most once, and only one that was     *)
(*     submitted;                                                          *)
(*   - an answer (the node's value or its error) is given only for a       *)
(*     request the node was asked to execute;                              *)
(*   - a refusal (Error::RequestFailed) is given only for a request that   *)
(*     the node has not seen and never will;                               *)
(*   - a caller gets one outcome, and no outcome is ever changed.          *)
(*                                                                         *)
(* It does not promise that a request whose caller went away is left       *)
(* alone: it may still be executed.                                        *)
(***************************************************************************)
EXTENDS Naturals

CONSTANT Requests

VARIABLES status,      \* what the caller of each request knows
          executions   \* how often the node was asked to execute it

svars == <<status, executions>>

Statuses == {"idle", "pending", "answered", "refused", "abandoned"}

Init == /\ status = [r \in Requests |-> "idle"]
        /\ executions = [r \in Requests |-> 0]

Submit(r) ==
    /\ status[r] = "idle"
    /\ status' = [status EXCEPT ![r] = "pending"]
    /\ UNCHANGED executions

Execute(r) ==
    /\ status[r] \in {"pending", "abandoned"}
    /\ executions[r] = 0
    /\ executions' = [executions EXCEPT ![r] = 1]
    /\ UNCHANGED status

Answer(r) ==
    /\ status[r] = "pending"
    /\ executions[r] = 1
    /\ status' = [status EXCEPT ![r] = "answered"]
    /\ UNCHANGED executions

\* One request is refused, or all that the end of the service leaves behind.
Refuse(R) ==
    /\ \A r \in R : status[r] \in {"idle", "pending"} /\ executions[r] = 0
    /\ status' = [r \in Requests |-> IF r \in R THEN "refused" ELSE status[r]]
    /\ UNCHANGED executions

Abandon(r) ==
    /\ status[r] = "pending"
    /\ status' = [status EXCEPT ![r] = "abandoned"]
    /\ UNCHANGED executions

Next == \/ \E r \in Requests : Submit(r) \/ Execute(r) \/ Answer(r) \/ Abandon(r)
        \/ \E R \in SUBSET Requests : Refuse(R)

Spec == Init /\ [][Next]_svars
=============================================================================
