SPECIFICATION Spec
CONSTANTS
  l1 = l1
  l2 = l2
  MaxCalls = 4
  Lines = {l1, l2}
  Goods = {l1}
  Ordered <- OneAndTwo
  Asked <- SomeAsked
  MaxRunning = 2
  MaxStops = 1
  None = None
INVARIANTS
  TypeOK
  StatusAgrees
  ReceiptsAddUp
  PaidIsMatched
