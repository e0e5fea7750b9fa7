------------------------------ MODULE MCHeaviest ------------------------------
(* Instances of Heaviest for TLC.                                          *)
EXTENDS Heaviest, TLC

Symmetry == Permutations(Blocks)
=============================================================================
