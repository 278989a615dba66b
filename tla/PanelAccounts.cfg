SPECIFICATION FairSpec
CONSTANTS
  Logins = {x, y}
  Passwords = {p, q}
  Requests = {r1, r2}
  Unknown = Unknown
  MaxSessions = 2
  MaxResets = 2
INVARIANTS TypeOK OneFirstAdmin
PROPERTIES OldPasswordsShutOut AdminNoticed
