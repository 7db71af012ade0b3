CONSTANTS
  MaxOutput = 2
  Limit = 2
SPECIFICATION Spec
CHECK_DEADLOCK FALSE
INVARIANT NothingIsLost
