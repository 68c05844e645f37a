SPECIFICATION Spec
CONSTANTS
  Staff = {a1, a2}
  Guests = {g1}
  Sched = sched
  Bookings = {b1, b2}
  Caps = {1, 2}
  Prices = {10}
  MaxParty = 1
  None = none
  MaxFaults = 0
INVARIANT NeverOverbooked
CHECK_DEADLOCK FALSE
