SPECIFICATION UnlockingFairSpec
CONSTANTS
  MaxConn = 2
  MaxNonce = 2
  MaxWrite = 4
  PULSE = 1
  MaxOther = 1
INVARIANTS
  SessionOfOneConnection
  DrivenByItsAnswer
  PositionReported
PROPERTIES
  NonceOnce
  OverrunOnlyBehindOthers
  ComesToRest
CHECK_DEADLOCK FALSE
