-------------------------- MODULE MCCoordinatorLoop --------------------------
(* Instances of CoordinatorLoop for TLC.                                   *)
EXTENDS CoordinatorLoop
=============================================================================
