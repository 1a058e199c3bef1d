SPECIFICATION Spec
CONSTANTS
  Jobs = {a, b}
  NoEngine = NoEngine
  Engines = {e1, e2, e3}
  MaxAlive = 1
  MaxSaves = 1
SYMMETRY CronSymmetry
INVARIANTS FiresOnlyEnabled Durable
CHECK_DEADLOCK FALSE
