SPECIFICATION Spec
CONSTANTS
  Leader = leader
  Kids = {k1}
  Codes = {0, 4}
INVARIANT UnavailableMeansUntouched
CHECK_DEADLOCK FALSE
