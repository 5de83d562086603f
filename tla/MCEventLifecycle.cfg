CONSTANTS
  r1 = r1
  r2 = r2
  r3 = r3
  Reqs = {r1, r2}
  Ops = {"update", "end", "cancel"}
  Dates = {0, 1, 2}
  MayAdvance = FALSE
  OneAtATime = TRUE
  Faults = {"error", "crash"}
  FaultyOps = {"update", "archive_channel"}
  MaxFaults = 2
  MaxCalls = 3
SPECIFICATION FairSpec
INVARIANTS ClosedIsQuiet OpenHasEnd
PROPERTIES EventJobsAsAgreed EventEnds
