CONSTANTS
  org = org
  ann = ann
  bob = bob
  r1 = r1
  r2 = r2
  Users = {org, ann, bob}
  Organizer = org
  Reqs = {r1, r2}
  Ops = {"join", "peek", "leave", "remove"}
  PeekDuration = 1
  OneAtATime = TRUE
  FaultyOps = {}
  MaxFaults = 0
  MaxRequests = 6
  MayClose = TRUE
  MayLose = FALSE
SPECIFICATION Spec
INVARIANTS CountMatches ActiveIsMember MemberIsActive
SYMMETRY Symmetry
