SPECIFICATION FairSpec
CONSTANTS
  None = None
  LogLevelOptions <- MCLogLevelOptions
  EditsWhileStarting = FALSE
  MaxRequests = 4
  MaxEdits = 2
INVARIANTS
  TypeOK
  FaultsOnlyAtTheEnds
  HolderRuns
  InventoryFollowsEdits
  SessionSwitchesBack
PROPERTIES
  RequestsAnswered
  SignalStops
