\* Background pipelines and substitutions, where two may wait for one child, and
\* background goroutines that come to the exec seam lines later.
CONSTANTS
  Job = {1, 2}
  Proc = {p1, p2}
  Offset = {1}
  NoJob = NoJob
  NoProc = NoProc
  Shell = Shell
  Features = {"bgpipes", "late", "subst"}
SPECIFICATION Spec
SYMMETRY Symmetry
INVARIANTS
  LiveNeverOvercounts
  GroupInv
\* The session ends with the two jobs it may allocate.
CHECK_DEADLOCK FALSE
