SPECIFICATION ViewSpec
CONSTANTS
  Nothing = Nothing
  MaxRevision = 3
  MaxRestarts = 1
  MaxRetries = 1
INVARIANT ProblemOfMountedRevision
CHECK_DEADLOCK FALSE
