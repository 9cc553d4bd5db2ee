SPECIFICATION FairSpec
CONSTANTS
  MaxCalls = 4
  Totals = {2, 3}
  Amounts = {1, 2}
  MaxRunning = 2
  Deaths = TRUE
  None = None
  Blank = Blank
INVARIANTS
  TypeOK
  OneReceiptInForce
  PaidIsPayments
  ReceiptsAgree
  RecordsAreIssued
PROPERTIES
  StampingEnds
