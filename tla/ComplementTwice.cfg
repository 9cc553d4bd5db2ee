SPECIFICATION Spec
CONSTANTS
  MaxCalls = 4
  Totals = {2}
  Amounts = {1, 2}
  MaxRunning = 2
  Deaths = FALSE
  None = None
  Blank = Blank
INVARIANTS
  OneComplementInForce
