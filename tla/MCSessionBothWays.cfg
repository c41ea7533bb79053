SPECIFICATION Spec
CONSTANTS
  Alice = Alice
  Bob = Bob
  Carol = Carol
  None = None
  User = {Alice, Bob}
  Initiations <- BothWays
  NumOpks = 3
  MAX_SKIP = 3
  MaxTexts = 3
  MaxKeys = 4
  MaxRegisters = 0
  MaxCrashes = 1
INVARIANTS
  NoKeyReuse
  ForwardSecrecy
  AcceptedHeaderOpens
  PayloadsStayReadable
PROPERTIES
  SessionsOnlyAdvance
  ImplementsChannel
CHECK_DEADLOCK FALSE
