\* Foreground pipelines, sequences, fg, bg, kill and one-command background
\* statements.
CONSTANTS
  Job = {1, 2, 3}
  Proc = {p1, p2}
  Offset = {1}
  NoJob = NoJob
  NoProc = NoProc
  Shell = Shell
  Features = {"pipes"}
SPECIFICATION Spec
SYMMETRY Symmetry
INVARIANTS
  EveryChildHasAWaiter
  OneWaiter
  LiveCounts
  BackgroundStaysBackground
  ListedIsLive
  TerminalFollowsForeground
  BackgroundOffTerminal
