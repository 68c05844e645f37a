SPECIFICATION Spec
CONSTANTS
  Rooms = {r1}
  Stays = {s1}
  Codes = {c1, c2}
  Staff = {p1, p2}
  Sched = sched
  None = none
  Targets = {}
  MaxBusy = 3
  MaxDay = 0
  MaxFaults = 0
PROPERTY CheckedOutIsFinal
