SPECIFICATION Spec
CONSTANTS
  None = None
  LogLevelOptions <- MCLogLevelOptions
  EditsWhileStarting = TRUE
  MaxRequests = 4
  MaxEdits = 2
INVARIANTS
  SessionSwitchesBack
