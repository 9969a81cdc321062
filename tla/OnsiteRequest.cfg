SPECIFICATION Spec
CONSTANTS
  LastKey = 2
  Bodies = {b1, b2}
  Workers = {w1, w2, w3}
  NoBody = NoBody
  NoWorker = NoWorker
SYMMETRY Symmetry
INVARIANT TypeOK
INVARIANT ClosedKeyNeverBooks
INVARIANT LedgerMatchesBookings
INVARIANT OneBookingPerPurchase
PROPERTY ImplementsRegister
CHECK_DEADLOCK TRUE
