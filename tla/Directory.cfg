SPECIFICATION Spec
CONSTANTS
  None = None
  Gone = Gone
  Users = {"u1", "u2"}
  Groups = {"g"}
  Rooms = {"a", "b", "c"}
  Keys = {"k", "legacy"}
  Names = {"version"}
  Contains <- OneKeyContained
  Fallback = "legacy"
  Moments = {"day", "night"}
  WorkingTime = {"day"}
  UserForms <- SomeUserForms
  GroupForms <- SomeGroupForms
  FirstRows <- OneUser
  Requests = {r1, r2}
  MaxRequests = 3
  MaxStarts = 1
INVARIANTS TypeOK RoutesLeadHome AnnouncedAsPromised
CHECK_DEADLOCK FALSE
