SPECIFICATION FairSpec
CONSTANTS
  MaxLines = 3
  MaxDeliveries = 3
INVARIANTS
  TypeOK
  OneReceiver
  DeliveriesKept
  AcksInStep
PROPERTIES
  LinesSettle
  DeliveriesShown
CHECK_DEADLOCK FALSE
