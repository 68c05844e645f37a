SPECIFICATION MCSpec
CONSTANTS
  Tickets = {t1, t2}
  Items = {i1, i2}
  Custom = {i2}
  Guests = {g1, g2}
  Staff = {w1, w2}
  Editors = {e1, e2}
  None = none
  Slas = {2}
  MaxOpen = 1
  MaxPerDay = 1
  MaxRaced = 1
  Cards = {"request"}
  Rooms = {"room"}
  Users = {"me", "you"}
  Clients = {"me"}
  Writers = {1, 2}
  MaxNow = 3
  Accounts = {"owner", "clerk"}
  Roles = {"all", "front", "back"}
  Names = {"Front", "Back"}
  Owner = "all"
  Permissions = {"roles", "orders"}
  Manage = "roles"
  Calls = {"c1", "c2"}
  Ttl = 2
  MaxLoad = 1
  Horizon = 4
CHECK_DEADLOCK FALSE
INVARIANT RequestsThrottled
INVARIANT CurationSticks
 
PROPERTY TicketsMoveForward
INVARIANT OnlyTheGapIsMissed
PROPERTY AdmittedWasAllowed
INVARIANT RolesAreGranted
SYMMETRY Symmetry
