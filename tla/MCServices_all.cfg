CONSTANTS
  MaxChanges = 1
  MaxTime = 6
  CountsTTL = 1
  ScanTimeout = 2
  Plugin = {1, 2}
  Name = {"a", "r"}
  Reserved = {"r"}
  Cached = {2}
  MaxFaults = 1
  MaxOps = 1
  Inputs = 3
  MaxJobs = 2
  Leavers = {2}
  RepoChanges = 3
  MaxFailures = 2
  MaxOutput = 4
  Limit = 2
SPECIFICATION MCSpec
\* The pool returns, the host is closed, and the line ends.
CHECK_DEADLOCK FALSE
INVARIANTS OldCountsAreMarked ProcessesInHand FirstFailureIsLast
PROPERTIES NamesKeepTheirOwner CloseEnds PoolEnds CatchesUp LineEndsWithTail
