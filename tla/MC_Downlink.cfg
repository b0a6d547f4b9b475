SPECIFICATION FairSpec
CONSTANTS
  MaxId = 1
  MaxChannel = 2
  SaveFails = TRUE
  MaxCrash = 2
INVARIANT
  NotForgotten
PROPERTIES
  Implements
  AckedInTheEnd
