CONSTANTS
  Scenarios <- AllSessions
  MaxPrompts = 2
  MaxRequests = 3
SPECIFICATION FairSpec
CHECK_DEADLOCK FALSE
INVARIANTS ReaderFree UnlistedIsDead
PROPERTIES KeepsTurns WaitsEnd
