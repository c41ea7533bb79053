SPECIFICATION Spec
CONSTANTS
  Alice = Alice
  Bob = Bob
  Carol = Carol
  None = None
  User = {Alice, Bob}
  Initiations <- AliceToBob
  NumOpks = 3
  MAX_SKIP = 1
  MaxTexts = 3
  MaxKeys = 4
  MaxRegisters = 1
  MaxCrashes = 2
INVARIANTS
  NoKeyReuse
  ForwardSecrecy
  PayloadsStayReadable
  AcceptedHeaderOpens
PROPERTIES
  ImplementsChannel
CHECK_DEADLOCK FALSE
