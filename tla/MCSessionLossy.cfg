SPECIFICATION Spec
CONSTANTS
  Alice = Alice
  Bob = Bob
  Carol = Carol
  None = None
  User = {Alice, Bob}
  Initiations <- AliceToBob
  NumOpks = 1
  MAX_SKIP = 1
  MaxTexts = 4
  MaxKeys = 4
  MaxRegisters = 0
  MaxCrashes = 0
INVARIANTS
  TypeOK
  PayloadsStayReadable
  SessionsShareSecret
  FirstPayloadCarriesHeader
PROPERTIES
  ImplementsChannel
CHECK_DEADLOCK FALSE
