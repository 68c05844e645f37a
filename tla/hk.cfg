SPECIFICATION MCFairSpec
CONSTANTS
  Rooms = {r1, r2}
  Stays = {s1}
  Reqs = {p1, p2}
  Attendants = {a1}
  None = none
  MaxBusy = 3
  MaxDay = 1
  MaxFaults = 1
INVARIANT TypeOK
INVARIANT RowsConsistent
PROPERTY AloneDndIsTheStays
PROPERTY AloneServiceDone
PROPERTY DailyServiceHappens
