CONSTANTS
  org = org
  ann = ann
  bob = bob
  r1 = r1
  r2 = r2
  Users = {org, ann}
  Organizer = org
  Reqs = {r1, r2}
  Ops = {"join", "peek", "leave", "remove"}
  PeekDuration = 1
  OneAtATime = FALSE
  FaultyOps = {"join", "leave", "remove", "expire"}
  MaxFaults = 1
  MaxRequests = 3
  MayClose = TRUE
  MayLose = TRUE
SPECIFICATION FairSpec
INVARIANTS ExpiryFitsRole PeekHasJob
PROPERTIES NoDemotion PeekJobsAsAgreed PeekersExpire
