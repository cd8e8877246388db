----------------------------- MODULE MCSidecar -----------------------------
(* Sidecar, with the invariant of its proofs, for TLC. *)
EXTENDS SidecarProofs
=============================================================================
