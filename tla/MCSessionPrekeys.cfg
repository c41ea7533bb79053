SPECIFICATION Spec
CONSTANTS
  Alice = Alice
  Bob = Bob
  Carol = Carol
  None = None
  User = {Alice, Bob, Carol}
  Initiations <- TwoToBob
  NumOpks = 2
  MAX_SKIP = 3
  MaxTexts = 1
  MaxKeys = 4
  MaxRegisters = 0
  MaxCrashes = 0
INVARIANT
  PrekeysServeOnce
CHECK_DEADLOCK FALSE
