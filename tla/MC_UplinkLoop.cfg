SPECIFICATION FairSpec
CONSTANTS
  EVENT_QUEUE_SIZE = 2
  Levels = {0, 3}
  RemoteUnlock = TRUE
  Callbacks = {"motion"}
  MaxEvent = 2
  MaxQ = 3
  MaxReset = 1
INVARIANTS
  EventsKept
  DropsOldest
  DeliveredOnce
PROPERTY
  AlertsSent
CHECK_DEADLOCK FALSE
