CONSTANTS
  Scenarios <- Errexit
  MaxRounds = 2
  MaxDepth = 7
SPECIFICATION Spec
CHECK_DEADLOCK FALSE
INVARIANT ErrexitSpares
