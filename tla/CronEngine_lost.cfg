SPECIFICATION Spec
CONSTANTS
  Jobs = {a, b}
  NoEngine = NoEngine
  Engines = {e1, e2}
  MaxAlive = 2
  MaxSaves = 1
SYMMETRY CronSymmetry
INVARIANT Durable
CHECK_DEADLOCK FALSE
