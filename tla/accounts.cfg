SPECIFICATION MCSpec
CONSTANTS
  Users = {u1, u2}
  Direct = {u2}
  Reqs = {p1, p2}
  Limit = 1
  Crowds = {1, 2}
  MaxPw = 2
  Anns = {"note"}
  Stays = {"s1", "s2"}
  Floors = {"f1", "f2"}
  Editors = {"editor"}
  Audiences <- OneFloorOneStay
  Ticker = "tick"
  Asked = {0, 2}
  Horizon = 2
  MaxWrites = 3
  Singles = {"dish", "event"}
  Closing = {"event"}
  Entries = {"e1", "e2", "e3"}
  Sections = {"about", "facilities"}
  Singletons = {"about"}
  MaxPhotos <- PhotoLimits
  Files = {"a", "b"}
  Admins = {"root", "aide"}
  Roles = {"super", "staff"}
  SuperAdmin = "super"
  Emails = {"e", "f"}
  Callers = {"me", "you"}
  None = "nobody"
  MaxFaults = 1
INVARIANT RowsConsistent
INVARIANT SeatLimit
PROPERTY AloneAccountsHold
PROPERTY AnnouncementsStand
INVARIANT PhotosStand
 
SYMMETRY Symmetry
CHECK_DEADLOCK FALSE
