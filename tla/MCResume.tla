------------------------------ MODULE MCResume ------------------------------
(* An instance of Resume for TLC.                                          *)
EXTENDS Resume

CONSTANTS v1, v2

(* v1 has more than two thirds of the voting power, v2 may fall behind.    *)
LeaderDecides == {{v1}}
=============================================================================
