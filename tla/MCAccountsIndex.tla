--------------------------- MODULE MCAccountsIndex ---------------------------
(* AccountsIndex, with the invariant of its proofs, for TLC: accounts that are *)
(* not excluded are interchangeable, and so are owners.                        *)
EXTENDS AccountsIndexProofs, TLC

Symmetry == Permutations(Accounts \ Excluded) \cup Permutations(Owners)
=============================================================================
