\* The user may type nothing more; what was begun must come to its end.
CONSTANTS
  Job = {1, 2}
  Proc = {p1, p2}
  Offset = {}
  NoJob = NoJob
  NoProc = NoProc
  Shell = Shell
  Features = {"pipes", "badpath", "agent"}
SPECIFICATION FairSpec
PROPERTIES
  DeadJobsLeave
  FgSeesExit
  StopFreesLine
\* The session ends with the two jobs it may allocate.
CHECK_DEADLOCK FALSE
