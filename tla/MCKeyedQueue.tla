---------------------------- MODULE MCKeyedQueue ----------------------------
(* Instances of KeyedQueue for TLC.                                        *)
EXTENDS KeyedQueue
=============================================================================
