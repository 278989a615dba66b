SPECIFICATION QueueFairSpec
CONSTANTS
  Instances = {a, b}
  Notices = {n1, n2}
  ByMxid = {n2}
  Requests = 2
  MaxRetries = 3
  Delay = 1
  MaxLosses = 1
  MaxOutage = 2
INVARIANTS QueueTypeOK QueuedIsKept DeliveredOnce
PROPERTIES EveryNoticeSettled
CHECK_DEADLOCK FALSE
