SPECIFICATION Spec
CONSTANTS
  Total = 2
  CustomerTarget = 1
  MaxTries = 2
  MaxKeys = 1
  MerchantRefunds = 1
  DeadlineChanges = FALSE
  Workers = {w1, w2}
  Handlers = {h1}
  None = None
SYMMETRY Symmetry
INVARIANT CompletedIsPaid
INVARIANT RequestedHasBalance
CHECK_DEADLOCK FALSE
