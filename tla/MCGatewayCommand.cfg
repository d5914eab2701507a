CONSTANTS
  Lines <- AllLines
  Builds <- AllBuilds
  StoredFields <- SeededFields
  MaxAttempts = 2
SPECIFICATION Spec
INVARIANTS
  TypeOK
  SuccessIsEarned
  RefusalChangedNothing
  DroppedFieldWasWarned
  
  RanksAndRolesExist
PROPERTIES
  StopsAtFirstFailure
  CommandEnds
