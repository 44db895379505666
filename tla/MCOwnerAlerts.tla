--------------------------- MODULE MCOwnerAlerts ---------------------------
(* A small instance of OwnerAlerts for TLC. *)
EXTENDS OwnerAlerts, TLC

CONSTANTS r1, h1, h2, retry, worker

SameReason == [e \in Handoffs |-> r1]

HandoffSymmetry == Permutations({h1, h2})
=============================================================================
