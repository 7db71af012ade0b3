CONSTANTS
  Session = {"s1", "s2"}
  Command = {"a", "b"}
  LoadMax = 3
  MaxAppends = 2
  Shell = {s1, s2}
  Dir = {"out", "proj", "sub"}
  Hash = {"h1", "h2"}
  Var = {"v", "w"}
  Under <- MCUnder
  Touched <- MCTouched
  LastSet <- MCLastSet
  Earlier <- MCEarlier
  None = None
  Torn = Torn
  MaxOps = 3
SPECIFICATION MCSpec
SYMMETRY Sym
CHECK_DEADLOCK FALSE
INVARIANTS LearnedOnce LiveIsAllowedHere OwnValuesBack PendingWasAnnounced ListIsWhole
