SPECIFICATION Spec
CONSTANTS
  Persons = {"ivan", "petr", "robot", "devs"}
  Groups = {"devs"}
  NameOf <- Names
  Humans = {"ivan", "petr"}
  Accounts = {"i.ivanov", "ivanov.ivanova"}
  Profile <- Profiles
  Heard <- Sounds
  Read <- Latin
  None = None
  Listings <- Lists
  FirstListing <- Before
  FirstPages <- EarlierPage
  Limit = 1
  BatchSize = 2
  Stages = 2
  Requests = {r1, r2}
  NoRow = NoRow
  Placeholder = "placeholder"
  ByHand = "by hand"
  MaxScans = 1
  MaxImports = 2
  MaxEdits = 1
INVARIANTS TypeOK BestOfTheAnswers
PROPERTIES NobodyLostBetweenPages AnswerIsTrue
CHECK_DEADLOCK FALSE
