SPECIFICATION Spec
CONSTANTS
  Keys = {"k1", "k2"}
  Kinds <- TwoCatalogs
  Users = {u1}
  Groups = {g1}
  Known = {"k1", "k2"}
  Requests = {r1, r2}
  NoRow = NoRow
  All = "all"
  MaxRequests = 3
  MaxEdits = 1
INVARIANTS TypeOK KeysComeFromCatalog SavedListsKept
PROPERTIES HiddenStaysHidden
CHECK_DEADLOCK FALSE
