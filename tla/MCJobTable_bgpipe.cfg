CONSTANTS
  Job = {1, 2, 3}
  Proc = {p1, p2, p3}
  Offset = {1}
  NoJob = NoJob
  NoProc = NoProc
  Shell = Shell
  Features = {"bgpipes"}
SPECIFICATION Spec
INVARIANT DoneMeansDead
