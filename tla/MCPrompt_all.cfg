CONSTANTS
  Job = {j1, j2}
  Waiter = {w1, w2, w3}
  Nobody = Nobody
  ChunkSize = 2
  MaxResize = 1
  Slow = TRUE
SPECIFICATION MCSpec
INVARIANTS ListIsConsistent InputKept FirstPasteStaysText
PROPERTIES
  LocksComeRound AllArrives
\* The shell ends when its input does; and Snapshot and procDone may block each
\* other for good, see locks_snapshot.
CHECK_DEADLOCK FALSE
