SPECIFICATION Spec
CONSTANTS
  MaxSubs = 3
  Rooms = {r1, r2}
  Plans = {1, 2}
  Trials = {2}
  Admins = {p1}
  Job = job
  None = none
  TrialDays = 1
  Crowds = {1}
  MaxDay = 2
  MaxFaults = 0
PROPERTY HistoryIsFinal
