SPECIFICATION Spec
CONSTANTS
  EVENT_QUEUE_SIZE = 2
  Levels = {0}
  RemoteUnlock = FALSE
  Callbacks = {"motion", "unlock_deny", "other"}
  MaxEvent = 0
  MaxQ = 2
  MaxReset = 0
INVARIANT
  EventsAllKept
CHECK_DEADLOCK FALSE
