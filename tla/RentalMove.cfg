SPECIFICATION Spec
CONSTANTS
  Vehicles = {v1, v2}
  Bookings = {b1, b2, b3}
  None = None
  LastDay = 2
  DayLength = 1
  Moves = TRUE
SYMMETRY Symmetry
INVARIANT RequestsKeepCapacity
CHECK_DEADLOCK FALSE
