SPECIFICATION MCSpec
CONSTANTS
  Orders = {o1, o2}
  Bookings = {b1}
  Guests = {g1, g2}
  Workers = {w1}
  Desk = {d1}
  Cash = {o2}
  MaxOpen = 1
  MaxPerDay = 1
  MaxRaced = 1
  Notices = {i1, i2}
  Senders = {c1, c2}
  None = none
  Doors = {"101", "102"}
  Vacant = {"102"}
  Codes = {"code"}
  Tries = 2
  RoomLimit = 2
  RoomWindow = 2
  LockoutBase = 2
  LockoutMax = 3
  HotelLimit = 2
  HotelWindow = 3
  LastHour = 6
  Zones <- Clocks
  Day = 6
  Spans = {2}
  MaxSpan = 2
  Opening = 10
  Closing = 17
INVARIANT Throttles
INVARIANT LedgerAgrees
PROPERTY SettleIsComplete
 
INVARIANT OnePending
PROPERTY NoticesStand
PROPERTY DepartureSilences
INVARIANT GuessesBounded
INVARIANT ReportsAddUp
SYMMETRY Symmetry
CHECK_DEADLOCK FALSE
