CONSTANTS
  r1 = r1
  r2 = r2
  Reqs = {r1}
  MaxReminders = 2
  MinInterval = 1
  Day = 3
  Policies <- FewPolicies
  Dates = {3, 4}
  Targets <- Channels
  OneAtATime = TRUE
  Prompt = TRUE
  MayClose = TRUE
  Faults = {"request", "post", "cut"}
  CutPhases = {"read", "end"}
  MaxFaults = 1
  MaxEdits = 1
  MaxSeq = 4
  Horizon = 4
SPECIFICATION FairSpec
INVARIANTS PlanInForce PostedOnce
PROPERTIES ReminderJobsAsAgreed DueIsSent
CHECK_DEADLOCK FALSE
