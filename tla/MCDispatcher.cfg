CONSTANTS
  Calendar <- TwoYears
  DayLen = 2
  Rooms <- TwoRooms
  Origins <- OneRoom
  Users = {"org"}
  Taken <- TwoTaken
  MayFail = {"create_channel", "post_recruit", "pin_summary", "archive", "notify"}
  r1 = r1
  r2 = r2
  Reqs = {r1, r2}
  Titles = {"trip", "hike"}
  NewArgs <- OneNew
  EditArgs <- TwoEdits
  Ends <- OneEnd
  DefaultStartTime = 1
  MaxReminders = 1
  MaxCalls = 4
  MaxFaults = 1
  Instants = {2, 7}
SPECIFICATION Spec
INVARIANTS MessagesAgree ParsedAsMeant
PROPERTIES GivesUpNames UnchangedFormKeeps AnswersTrue
SYMMETRY Symmetry
CHECK_DEADLOCK FALSE
