SPECIFICATION FairSpec
CONSTANTS
  Total = 2
  CustomerTarget = 1
  MaxTries = 1
  MaxKeys = 1
  MerchantRefunds = 1
  DeadlineChanges = FALSE
  Workers = {w1}
  Handlers = {h1}
  None = None
PROPERTY BalanceIsRequested
CHECK_DEADLOCK FALSE
