SPECIFICATION FairSpec
CONSTANTS
  Jobs = {j1, j2, j3}
  Chats = {c1, c2}
  MaxPerChat = 2
  MaxGlobal = 2
  QueueOverflow = 2
  MaxCalls = 2
INVARIANT GateSafe
PROPERTIES ImplementsSlots Served
CHECK_DEADLOCK FALSE
