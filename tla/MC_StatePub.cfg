SPECIFICATION FairStateSpec
CONSTANTS
  Requests = {"get"}
  OFFLINE = 1
  MaxTime = 3
  MaxUp = 1
  MaxNet = 1
  MaxLoss = 1
PROPERTIES
  ShownInTheEnd
  LaterIsNewer
CHECK_DEADLOCK FALSE
