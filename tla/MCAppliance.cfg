SPECIFICATION Spec
CONSTANTS
  Commands <- MCCommands
  Images <- MCImages
  ExitStatuses = {0, 5, 7, 8, 42}
INVARIANTS
  TypeOK PublicCommandsStayInAllowlist MutationWasAdvertised SuccessIsEarned
  PartialExactlyWhenUnknown DegradedReadKeepsVerdict RetryableIsSafe
CHECK_DEADLOCK FALSE
