SPECIFICATION Spec
CONSTANTS
  MaxCalls = 6
  Amounts = {1}
  MaxRunning = 3
  Deaths = TRUE
  None = None
INVARIANTS
  TypeOK
  BalanceIsLedger
  OneReversalPerPosting
PROPERTIES
  ClosedKeepsBooks
  JournalsAreLedger
