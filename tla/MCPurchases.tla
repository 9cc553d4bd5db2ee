---------------------------- MODULE MCPurchases -----------------------------
(* Small instances of Purchases for TLC.                                   *)
EXTENDS Purchases

CONSTANTS l1, l2

Amounts(a, b) == [l \in Lines |-> IF l = l1 THEN a ELSE b]

\* A receipt of both lines leaves the second one partly due.
OneAndTwo == Amounts(1, 2)

\* Both lines; one taken back while the other is received; one taken back alone.
SomeAsked == {Amounts(1, 1), Amounts(-1, 1), Amounts(-1, 0)}
=============================================================================
