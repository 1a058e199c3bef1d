SPECIFICATION PollerRunSpec
CONSTANTS
  Jobs = {1, 2}
  Chats = {c1, c2}
  MaxPerChat = 1
  MaxGlobal = 1
  QueueOverflow = 1
  MaxCalls = 1
  MaxHistory = 2
  MaxCrashes = 1
  MaxSpawnFailures = 1
INVARIANT PollerSafe
PROPERTY AllHandled
CHECK_DEADLOCK FALSE
