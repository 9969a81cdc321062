SPECIFICATION Spec
CONSTANTS
  Total = 2
  CustomerTarget = 1
  MaxTries = 2
  MaxKeys = 2
  MerchantRefunds = 0
  DeadlineChanges = TRUE
  Workers = {w1, w2}
  Handlers = {h1}
  None = None
SYMMETRY Symmetry
INVARIANT TypeOK
INVARIANT RefundsWithinTarget
INVARIANT OneRefundPerKey
INVARIANT RefundedIsBacked
PROPERTY FreshKeyOnlyAfterOutcome
CHECK_DEADLOCK FALSE
