----------------------------- MODULE MCBroadcast -----------------------------
(* An instance of Broadcast for TLC.                                       *)
EXTENDS Broadcast

CONSTANTS v, w, x

FixedCommittee == { [key |-> k, start |-> 0, end |-> 0] : k \in Validators }

NoOrder(p, q) == FALSE
=============================================================================
