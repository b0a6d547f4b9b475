SPECIFICATION FairSpec
CONSTANTS
  RX_RING_SIZE = 3
  LOW_VOLT <- Thresholds
  Volts = {0, 1}
  MaxSentence = 3
  MaxCycle = 2
INVARIANTS
  FixHonest
  NoneLeftBehind
  RailsOff
PROPERTY
  MeasureEnds
CHECK_DEADLOCK FALSE
