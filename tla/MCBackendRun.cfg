SPECIFICATION Spec
CONSTANTS
  Leader = leader
  Kids = {k1, k2}
  Codes = {0, 4}
INVARIANTS TypeOK ReportedStatusIsTheLeaders NoSurvivorInGroup
PROPERTIES TimeoutBoundsRun StragglerCannotHang Implements
CHECK_DEADLOCK FALSE
