SPECIFICATION Spec
CONSTANTS
  User = {Alice}
  None = None
  Process = {chat, fetch}
  NumOpks = 2
  MaxSeals = 2
INVARIANT
  UsedForGood
CHECK_DEADLOCK FALSE
