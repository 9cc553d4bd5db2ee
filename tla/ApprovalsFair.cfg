SPECIFICATION FairSpec
CONSTANTS
  c1 = c1
  c2 = c2
  c3 = c3
  Calls = {c1, c2, c3}
  LastStep = 3
  AutoSteps = {1, 3}
  Capped = TRUE
  Deaths = TRUE
  None = None
INVARIANTS
  TypeOK
  ConfirmedOnlyAfterAllSteps
PROPERTIES
  OutcomeReachesOrder
  WorkflowIsLadder
