---------------------------- MODULE MCCycleCount ----------------------------
(* Small instances of CycleCount for TLC.                                  *)
EXTENDS CycleCount, TLC

CONSTANTS c1, c2, c3, c4, p1, p2

OneEach == [p \in Products |-> 1]
InAndOut == {1, -1}
CountSymmetry == Permutations(Calls) \cup Permutations(Products)
=============================================================================
