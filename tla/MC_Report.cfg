SPECIFICATION ReportFairSpec
CONSTANTS
  BATCH = 2
  MaxBoot = 2
  MaxQ = 4
  EVENT_QUEUE_SIZE = 2
  MaxEvent = 3
  MaxOther = 1
  MaxFault = 2
INVARIANTS
  NeverReused
  NeverRepeatedInBoot
  InOrder
PROPERTIES
  Implements
  NothingSwallowed
  Arrives
CHECK_DEADLOCK FALSE
