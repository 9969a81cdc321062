SPECIFICATION ServicesSpec
CONSTANTS
  Admins = {p, n1}
  Founder = p
  Shared = {n1}
  Spots = {1, 2}
  Below <- MCBelow
  Company = 1
  NoSpot = NoSpot
  MaxRequests = 2
  Trading = {2}
  MaxLogins = 2
  MaxTokens = 3
  MaxCalls = 2
  Bookings = {b1, b2}
  MaxRooms = 3
  Recipients = {d1, d2}
  Callers = {hook, cron}
  MaxAttempts = 2
CHECK_DEADLOCK FALSE
INVARIANTS
  ServicesTypes
  ChatIsBacked
  ScopesAreDisjoint
  GateHasRequest
  ClosedShopsAreIdle
  RefreshTokensWork
  WithdrawnStaysOut
  NoWritesAfterTheEnd
  NothingIsOrphaned
  PushesAreBounded
