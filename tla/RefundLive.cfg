SPECIFICATION FairSpec
CONSTANTS
  Total = 1
  CustomerTarget = 1
  MaxTries = 2
  MaxKeys = 2
  MerchantRefunds = 0
  DeadlineChanges = FALSE
  Workers = {w1}
  Handlers = {h1}
  None = None
PROPERTY RefundIsResolved
CHECK_DEADLOCK FALSE
