CONSTANTS
  r1 = r1
  r2 = r2
  r3 = r3
  Reqs = {r1, r2}
  Ops = {"update", "end"}
  Dates = {1}
  MayAdvance = TRUE
  OneAtATime = FALSE
  Faults = {}
  FaultyOps = {}
  MaxFaults = 0
  MaxCalls = 2
SPECIFICATION Spec
PROPERTY NeverReopened
SYMMETRY Symmetry
