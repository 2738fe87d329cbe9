SPECIFICATION Spec
CONSTANTS
  Message = {1, 2}
  Poison = {2}
  BatchSize = 2
  MaxRetries = 2
  Breaker = 2
  MaxWindows = 2
  MaxCrashes = 1
CHECK_DEADLOCK FALSE
INVARIANT PendingOnce
