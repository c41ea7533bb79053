SPECIFICATION Spec
CONSTANTS
  Alice = Alice
  Bob = Bob
  Carol = Carol
  None = None
  User = {Alice, Bob}
  Initiations <- AliceToBob
  NumOpks = 1
  MAX_SKIP = 3
  MaxTexts = 2
  MaxKeys = 4
  MaxRegisters = 0
  MaxCrashes = 1
INVARIANT
  FirstPayloadCarriesHeader
CHECK_DEADLOCK FALSE
