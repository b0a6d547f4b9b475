SPECIFICATION Spec
CONSTANTS
  Uid = {alice, bob}
  NoUid = NoUid
  MAX_USERS = 2
  MaxKid = 2
  MaxCounter = 1
  Faults = {"write", "load"}
  MaxOps = 3
  MaxCrash = 1
INVARIANTS
  KidHonest
  CounterDurable
  AckedKeySurvives
PROPERTIES
  GrantsHonourAcks
  GrantRises
SYMMETRY Symmetry
CHECK_DEADLOCK FALSE
