SPECIFICATION FairSpec
CONSTANTS
  Never = Never
  Issues = {i1}
  Due <- NeverDue
  Notify = {"new", "status_change", "issue_updated"}
  GroupNotify = {}
  Others = {}
  HasGroupRoom = FALSE
  GroupRepeat = 1
  ReminderAfter = 1
  DayLength = 1
  Offset = 0
  UsedStatus = {"New", "Work"}
  NewEntry = {"comment"}
  EditsAnyTime = TRUE
  MaxNow = 1
  MaxEdits = 2
  MaxTroubles = 2
INVARIANTS TypeOK NothingToldTwice TrackedCommentsCovered OnlySlippedAreSkipped
PROPERTIES EntriesToldOnce StatusMovesAnnounced EveryUpdateRecorded
