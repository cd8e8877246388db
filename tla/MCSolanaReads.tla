---------------------------- MODULE MCSolanaReads ----------------------------
(* SolanaReads, with the invariant of its proofs, for TLC: owners are *)
(* interchangeable.                                                    *)
EXTENDS SolanaReadsProofs, TLC

Symmetry == Permutations(Owners)
=============================================================================
