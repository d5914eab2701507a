CONSTANTS
  Lines <- AllLines
  Builds <- AllBuilds
  StoredFields <- SeededFields
  MaxAttempts = 2
SPECIFICATION Spec
INVARIANT RetryableChangedNothing
