SPECIFICATION Spec
CONSTANTS
  c1 = c1
  c2 = c2
  c3 = c3
  c4 = c4
  p1 = p1
  p2 = p2
  Calls = {c1, c2, c3, c4}
  Products = {p1, p2}
  Opening <- OneEach
  Counted = {0, 2}
  Moves <- InAndOut
  MaxOnHand = 2
  MaxRunning = 2
  Deaths = TRUE
  None = None
SYMMETRY CountSymmetry
INVARIANTS
  TypeOK
  SuccessMeansAdjusted
  ClosedIsCounted
  ClosedStockIsCounted
