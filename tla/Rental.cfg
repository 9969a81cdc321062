SPECIFICATION FairSpec
CONSTANTS
  Vehicles = {v1, v2}
  Bookings = {b1, b2}
  None = None
  LastDay = 2
  DayLength = 2
  Moves = TRUE
INVARIANT TypeOK
INVARIANT RecordsAgree
PROPERTY HoldOutlivesExpiry
PROPERTY ImplementsCustody
PROPERTY EveryDeadlineEnds
CHECK_DEADLOCK FALSE
