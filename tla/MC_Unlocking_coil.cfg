SPECIFICATION UnlockingSpec
CONSTANTS
  MaxConn = 2
  MaxNonce = 2
  MaxWrite = 4
  PULSE = 1
  MaxOther = 0
INVARIANT PulseBounded
CHECK_DEADLOCK FALSE
