--------------------------- MODULE MCStockLedger ---------------------------
(* Small instances of StockLedger for TLC.                                 *)
EXTENDS StockLedger, TLC

CONSTANTS c1, c2, c3, c4, w1, w2

\* Every warehouse starts with a row; one unit of the first is reserved.
OpenedOpening == (w1 :> 3) @@ (w2 :> 1)
OpenedReserved == (w1 :> 1) @@ (w2 :> 0)
\* The second warehouse has never held the product.
PartlyOpening == w1 :> 3
PartlyReserved == w1 :> 1

CallSymmetry == Permutations(Calls)
=============================================================================
