SPECIFICATION FairSpec
CONSTANTS
  Nodes = {a, b, c}
  Resources = {r}
  MaxWorkers = 2
  MaxRuns = 1
INVARIANT ExecutorSafe
PROPERTIES ImplementsSchedule Terminates
