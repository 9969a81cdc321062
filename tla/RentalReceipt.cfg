SPECIFICATION Spec
CONSTANTS
  Vehicles = {v1, v2}
  Bookings = {b1, b2, b3}
  None = None
  LastDay = 3
  DayLength = 1
  Moves = FALSE
SYMMETRY Symmetry
INVARIANT ReceiptStaysPossible
CHECK_DEADLOCK FALSE
