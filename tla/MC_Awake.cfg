SPECIFICATION AwakeFairSpec
CONSTANTS
  AdvFails = TRUE
  MaxLink = 2
  MaxShake = 3
  MaxFlush = 2
INVARIANTS
  StillComing
  ActiveIsTrue
PROPERTIES
  StandsStillInTheEnd
  UnseenInTheEnd
CHECK_DEADLOCK FALSE
