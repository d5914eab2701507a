SPECIFICATION Spec
CONSTANTS
  Commands <- MCCommands
  Images <- MCImages
  ExitStatuses = {0, 5, 7, 8, 42}
INVARIANT IncompleteIsPartial
CHECK_DEADLOCK FALSE
