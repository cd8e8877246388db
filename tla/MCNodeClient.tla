---------------------------- MODULE MCNodeClient ----------------------------
(* NodeClient, with the invariant of its proofs, for TLC: symmetric requests. *)
EXTENDS NodeClientProofs, TLC

Symmetry == Permutations(Requests)
=============================================================================
