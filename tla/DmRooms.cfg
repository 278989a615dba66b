SPECIFICATION FairSpec
CONSTANTS
  Mxids = {m1, m2}
  Tasks = {report, t1}
  Reporter = report
  WarmUp = warmup
  Attempts = 2
  MaxRestarts = 1
  MaxTroubles = 2
INVARIANTS TypeOK RoomsAccountedFor
PROPERTIES EveryoneGetsARoom
