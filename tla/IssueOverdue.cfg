SPECIFICATION Spec
CONSTANTS
  Never = Never
  Issues = {i1}
  Due <- DueYesterday
  Notify = {"overdue"}
  GroupNotify = {}
  Others = {}
  HasGroupRoom = FALSE
  GroupRepeat = 1
  ReminderAfter = 1
  DayLength = 2
  Offset = 1
  UsedStatus = {"Work"}
  NewEntry = {"comment"}
  EditsAnyTime = FALSE
  MaxNow = 3
  MaxEdits = 2
  MaxTroubles = 0
INVARIANT OverdueOncePerDay
