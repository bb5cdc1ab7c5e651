SPECIFICATION Spec
CONSTANTS
  None = None
  MaxAttempts = 1
INVARIANT PriorServiceRuns
CHECK_DEADLOCK FALSE
