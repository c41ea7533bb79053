SPECIFICATION Spec
CONSTANTS
  Alice = Alice
  Bob = Bob
  None = None
  a1 = a1
  b1 = b1
  b2 = b2
  User = {Alice, Bob}
  Conn = {a1, b1, b2}
  Owner <- Owners
  Scripts <- Commands
  NumOpks = 1
INVARIANTS
  TypeOK
  LostOnlyInFetch
  HandledOnceWhileOpen
  OneReplyPerRequest
  PrekeysServedOnce
PROPERTY
  OpenConnectionStays
CHECK_DEADLOCK FALSE
