SPECIFICATION ClientFairSpec
CONSTANTS
  Alice = Alice
  Bob = Bob
  Carol = Carol
  None = None
  a1 = a1
  b1 = b1
  b2 = b2
  User = {Alice, Bob, Carol}
  Conn = {a1, b1, b2}
  Owner <- Owners
  Scripts <- NoScripts
  NumOpks = 1
  Commands <- AliceToBob
  MaxFailures = 0
PROPERTY
  LiveWhileChatting
CHECK_DEADLOCK FALSE
