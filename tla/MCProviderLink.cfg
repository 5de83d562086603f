CONSTANTS
  x1 = x1
  Externals = {x1}
  Kinds = {"slack", "discord"}
  Threshold = 3
  FaultPhases = {"load", "save_miss", "save_first", "save", "store"}
  MaxFaults = 2
  MaxCrashes = 2
  MaxChanges = 4
  SwapWhileUp = FALSE
SPECIFICATION FairSpec
INVARIANTS OneKind
PROPERTIES KindFixed StatusSettles
CHECK_DEADLOCK FALSE
