SPECIFICATION Spec
CONSTANTS
  Downloads = {d1, d2}
  Old = old
  NoFile = nofile
INVARIANTS TypeOK NeverPartial NothingUnverifiedPublished FailureLeavesPath AnchoredNeverLost
PROPERTIES Implements
CHECK_DEADLOCK FALSE
