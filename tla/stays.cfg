SPECIFICATION MCSpec
CONSTANTS
  Rooms = {r1, r2}
  Stays = {s1, s2}
  Codes = {c1, c2}
  Staff = {p1, p2}
  Sched = sched
  None = none
  Targets = {"active", "out_of_service", "inactive"}
  MaxBusy = 3
  MaxDay = 1
  MaxFaults = 0
INVARIANT TypeOK
INVARIANT ActiveStaysUnique
INVARIANT AloneRoomsFollowStays
PROPERTY AloneStaysEndRightly
 
SYMMETRY Symmetry
