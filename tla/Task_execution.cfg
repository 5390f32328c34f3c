SPECIFICATION FairSpec
CONSTANTS
  Steps <- MCSteps
  Plans <- MCPlans
  RetryLimit = 1
CHECK_DEADLOCK FALSE
INVARIANTS
  CallsDoNotOverlap
  RetriedOnlyAfterRejection
PROPERTIES
  ImplementsContract
  Terminates
