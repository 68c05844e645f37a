SPECIFICATION Spec
CONSTANTS
  Tickets = {t1}
  Rooms = {}
  Users = {u1}
  Clients = {u1}
  None = none
  Writers = {w1}
  MaxNow = 4
CHECK_DEADLOCK FALSE
INVARIANT DeltaMissesNothing
