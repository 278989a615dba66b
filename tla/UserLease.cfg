SPECIFICATION FairSpec
CONSTANTS
  a = a
  b = b
  Instances = {a, b}
  Users = {u1, u2}
  Nobody = Nobody
  Pinned <- OnlyA
  LeaseTTL = 2
  MaxConcurrent = 1
  Skew <- SlowA
  MaxCrashes = 1
INVARIANTS TypeOK LiveLeaseIsHeld
PROPERTIES ImplementsExclusiveChecks EveryUserKeepsBeingChecked
