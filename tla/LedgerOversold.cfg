SPECIFICATION Spec
CONSTANTS
  c1 = c1
  c2 = c2
  c3 = c3
  c4 = c4
  w1 = w1
  w2 = w2
  Calls = {c1, c2}
  Warehouses = {w1, w2}
  Opening <- OpenedOpening
  Reserved <- OpenedReserved
  Quantities = {1, 2}
  Types = {"ADJUSTMENT"}
  UnitCosts = {FALSE}
  None = None
SYMMETRY CallSymmetry
PROPERTIES
  MovementsLeaveReserved
