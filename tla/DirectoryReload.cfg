SPECIFICATION FairSpec
CONSTANTS
  None = None
  Gone = Gone
  Users = {"u1", "u2"}
  Groups = {"g"}
  Rooms = {"a", "b", "c"}
  Keys = {"k", "legacy"}
  Names = {"version"}
  Contains <- OneKeyContained
  Fallback = "legacy"
  Moments = {"day", "night"}
  WorkingTime = {"day"}
  UserForms <- SomeUserForms
  GroupForms <- SomeGroupForms
  FirstRows <- OneUser
  Requests = {r1, r2}
  MaxRequests = 2
  MaxStarts = 1
PROPERTIES PicksUpByItself
CHECK_DEADLOCK FALSE
