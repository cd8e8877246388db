-------------------------- MODULE MCEventSubscriber --------------------------
(* EventSubscriber, with the invariants of its proofs, for TLC: two kinds of *)
(* events, and filters that all ask for the same one.                        *)
EXTENDS EventSubscriberProofs

CONSTANTS loaded, other

MCWants == [f \in Filters |-> loaded]
=============================================================================
