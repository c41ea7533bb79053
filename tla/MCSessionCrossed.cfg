SPECIFICATION Spec
CONSTANTS
  Alice = Alice
  Bob = Bob
  Carol = Carol
  None = None
  User = {Alice, Bob}
  Initiations <- BothWays
  NumOpks = 1
  MAX_SKIP = 3
  MaxTexts = 2
  MaxKeys = 4
  MaxRegisters = 0
  MaxCrashes = 0
INVARIANT
  SessionsShareSecret
CHECK_DEADLOCK FALSE
