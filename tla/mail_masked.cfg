SPECIFICATION Spec
CONSTANTS
  Mails = {m1}
  Events = {m1}
  Callers = {c1}
  Poller = poller
  None = none
  Kinds = {"staff_invite", "stay_code"}
  MaxTries = 2
  MaxFaults = 0
INVARIANT RealCopySent
CHECK_DEADLOCK FALSE
