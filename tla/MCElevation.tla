---------------------------- MODULE MCElevation -----------------------------
(* Instances of Elevation for TLC.                                          *)
EXTENDS Elevation, TLC

CONSTANTS m1, h1, p1, p2

OneSide == [p \in Project |-> "source"]
TwoSides == [p \in Project |-> IF p = p1 THEN "source" ELSE "target"]

Projects == Permutations(Project)
=============================================================================
