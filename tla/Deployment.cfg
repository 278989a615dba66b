SPECIFICATION FairSpec
CONSTANTS
  Secrets = {s1, s2}
  MaxRegens = 1
  MaxOutside = 3
  MaxSaves = 2
  MaxCommands = 2
  MaxFails = 1
INVARIANTS TypeOK RestartIsSafe SecretsStayReadable LastCommandHolds
PROPERTIES ConfiguredBotRuns
CHECK_DEADLOCK FALSE
