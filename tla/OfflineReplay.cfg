SPECIFICATION Spec
CONSTANTS
  MaxMutations = 2
  WithMedia = {1}
  Binary = {2}
  MaxAttempts = 2
  MaxInFlight = 2
  MaxBusy = 1
  MaxIncidents = 1
  None = None
INVARIANTS
  TypeOK
  QueuedIsNotLost
  BodiesAreWhole
PROPERTIES
  ChangesFollowLife
