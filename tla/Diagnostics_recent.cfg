SPECIFICATION Spec
CONSTANTS
  Call = {c1, c2}
  Ticker = ticker
  Group = {g1}
  MaxGroups = 1
  Capacity = 2
  Window = 1
  MaxTime = 2
  None = None
INVARIANTS RecentIsComplete
CHECK_DEADLOCK FALSE
