SPECIFICATION FairSpec
CONSTANTS
  MaxMutations = 1
  WithMedia = {1}
  Binary = {}
  MaxAttempts = 2
  MaxInFlight = 2
  MaxBusy = 1
  MaxIncidents = 0
  None = None
PROPERTIES
  SyncedWhileOnline
