CONSTANTS
  Names = {1, 2}
  Settings = {1}
  MaxId = 3
  MaxCount = 1
  Horizon = 2
  JobRetention = 1
  DefaultPageSize = 1
  MaxPageSize = 1
  r1 = r1
  r2 = r2
  Reqs = {r1, r2}
  TTL = 1
  MaxCalls = 5
  MaxFaults = 1
SPECIFICATION MCSpec
INVARIANTS KeysUnique TokenLinksOnce LinkedByOwner SpentTokenLinks
PROPERTY RemovedByOwner
SYMMETRY Symmetry
VIEW State
