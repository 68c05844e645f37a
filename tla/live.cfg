SPECIFICATION MCSpec
CONSTANTS
  Rooms = {r1, r2}
  Stays = {s1}
  Codes = {c1}
  Staff = {p1}
  Sched = sched
  None = none
  Targets = {"inactive"}
  MaxBusy = 2
  MaxDay = 1
  MaxFaults = 1
  Editor = "editor"
  Visitors = {"guest", "other"}
  Tickets = {"b1", "b2", "b3"}
  Caps = {1, 2}
  Prices = {10, 20}
  MaxParty = 2
  Mails = {1, 2}
  Occasions = {1}
  Queuers = {"call"}
  Poller = "poller"
  Kinds = {"trial_expired", "staff_invite", "stay_code"}
  MaxTries = 2
CHECK_DEADLOCK FALSE
INVARIANT NeverOverbooked
INVARIANT BookingsStand
PROPERTY NothingWaitsForever
PROPERTY OutcomesStand
