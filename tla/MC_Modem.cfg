SPECIFICATION FairSpec
CONSTANTS
  Tries = 5
  Messages = 1
  MaxFault = 2
  MaxLate = 1
  MaxDown = 2
  TimelyOff = TRUE
INVARIANTS
  SessionVerified
  ConnectedIsTrue
  
  SentIsTaken
PROPERTIES
  CycleEnds
  Recovers
