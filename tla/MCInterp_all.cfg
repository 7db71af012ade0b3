CONSTANTS
  Scenarios <- Covered
  MaxRounds = 2
  MaxDepth = 7
SPECIFICATION Spec
\* A script ends.
CHECK_DEADLOCK FALSE
INVARIANTS
  FlagsScoped ExitTrapOnce ErrTrapOncePerLevel ExitSticks BreakHitsItsLoops
