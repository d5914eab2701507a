SPECIFICATION Spec
CONSTANTS
  Clients = {c1, c2}
  Initial = initial
  Mixed = mixed
INVARIANTS UnknownSwitchIsNeverPlain
CHECK_DEADLOCK FALSE
