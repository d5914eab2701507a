SPECIFICATION Spec
CONSTANTS
  Clients = {c1, c2}
  Initial = initial
  Mixed = mixed
INVARIANTS TypeOK CommittedSurvivesRestart SuccessIsConfirmed HalfAppliedIsPartial RefusalChangedNothing
CHECK_DEADLOCK FALSE
