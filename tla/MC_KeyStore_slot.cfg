SPECIFICATION Spec
CONSTANTS
  Uid = {alice, bob}
  NoUid = NoUid
  MAX_USERS = 2
  MaxKid = 2
  MaxCounter = 1
  Faults = {}
  MaxOps = 3
  MaxCrash = 0
PROPERTY
  NewUserCounterZero
SYMMETRY Symmetry
CHECK_DEADLOCK FALSE
