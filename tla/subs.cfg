SPECIFICATION MCFairSpec
CONSTANTS
  MaxSubs = 3
  Rooms = {r1, r2}
  Plans = {1, 2}
  Trials = {2}
  Admins = {p1, p2}
  Job = job
  None = none
  TrialDays = 1
  Crowds = {1, 2}
  MaxDay = 3
  MaxFaults = 1
  Ids = {"basic", "large"}
  Names = {"one", "two"}
  Chain = {"hotel"}
  Vendors = {"vendor", "sales"}
  Cataloger = "vendor"
  Limits = {1, 2}
  Items = {"dish"}
  Sections = {"section"}
  Menus = {"menu"}
  Places = {"pool", "bar"}
  SectionOf <- DishSection
  MenuOf <- DishMenu
  PriceLists <- Prices
  Plain = "plain"
  Hours = {1, 2}
  Guests = {"diner"}
  Managers = {"chef", "host"}
  MaxCommits = 3
  Types = {"single", "suite"}
  TypeNames = {"one", "two"}
  Numbers = {"101", "102", "103"}
  Batches <- Pairs
  Callers = {"manager", "clerk"}
  Limit = 2
  MaxRooms = 3
INVARIANT PlansHold
PROPERTY RoomsStand
PROPERTY OverdueTrialEnds
PROPERTY OrderedAsShown
