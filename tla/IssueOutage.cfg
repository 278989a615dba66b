SPECIFICATION Spec
CONSTANTS
  Never = Never
  Issues = {i1}
  Due <- NeverDue
  Notify = {"new", "status_change", "issue_updated"}
  GroupNotify = {}
  Others = {}
  HasGroupRoom = FALSE
  GroupRepeat = 2
  ReminderAfter = 1
  DayLength = 2
  Offset = 0
  UsedStatus = {"New", "Work"}
  NewEntry = {"comment"}
  EditsAnyTime = FALSE
  MaxNow = 2
  MaxEdits = 2
  MaxTroubles = 1
INVARIANTS NoUpdateIsSkipped
