SPECIFICATION Spec
CONSTANTS
  Clients = {c1, c2}
  Initial = initial
  Mixed = mixed
INVARIANTS RetryableRestoreIsSafe
CHECK_DEADLOCK FALSE
