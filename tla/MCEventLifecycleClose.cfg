CONSTANTS
  r1 = r1
  r2 = r2
  r3 = r3
  Reqs = {r1, r2}
  Ops = {"end", "cancel"}
  Dates = {0, 1}
  MayAdvance = TRUE
  OneAtATime = FALSE
  Faults = {"error", "crash"}
  FaultyOps = {"create", "archive_channel"}
  MaxFaults = 1
  MaxCalls = 2
SPECIFICATION FairSpec
PROPERTIES NeverReopened ClosedGetsArchived
