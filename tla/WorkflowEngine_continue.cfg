SPECIFICATION Spec
CONSTANTS
  MaxSteps = 3
  MaxRollback = 2
INVARIANT ContinueProceeds
CHECK_DEADLOCK FALSE
