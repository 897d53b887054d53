---------------------------- MODULE MCRunEngine -----------------------------
(* Instances of RunEngine for TLC.                                         *)
EXTENDS RunEngine

CONSTANTS m1, m2, q1, q2
=============================================================================
