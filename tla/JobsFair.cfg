SPECIFICATION FairJobSpec
CONSTANTS
  j1 = j1
  j2 = j2
  j3 = j3
  Jobs = {j1, j2, j3}
  UniqueId = UniqueId
  AttemptLimits = {1, 2}
  BatchSize = 2
  NoJob = NoJob
INVARIANTS
  JobsTypeOK
  EveryJobInOnePlace
  OneUniqueWaitsFirst
PROPERTIES
  EveryJobEnds
  JobsFollowLife
CHECK_DEADLOCK FALSE
