SPECIFICATION FairSpec
CONSTANTS
  MaxPayments = 2
  Readers = {r1}
  None = None
CHECK_DEADLOCK FALSE
INVARIANTS
  CheckoutTypes
  ExpiredWasUnpaid
  HandedOverIsPaid
  OriginalIsKept
  ClosedBookingsOwe
PROPERTIES
  NoSecondCharge
  ImplementsLedger
  ChargesAreSettled
