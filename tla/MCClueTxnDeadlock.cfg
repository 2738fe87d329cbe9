SPECIFICATION Spec
CONSTANTS
  Txn = {t1, t2, t3}
  Existing = {c1}
  Position = {1, 2}
  None = None
CHECK_DEADLOCK FALSE
INVARIANT NoDeadlock
