SPECIFICATION Spec
CONSTANTS
  Request = {q1, q2}
  a1 = a1
  a2 = a2
  s1 = s1
  s2 = s2
  c1 = c1
  None = None
  Account = {a1}
  Session = {s1}
  CacheKey = {}
  Traffic <- CountTraffic
  Placements <- AllCompatible
  MaxActive = 1
  Limits = {1, 2}
  CountLimit = 1
  MaxUrgency = 0
  Events = {"policy", "limit", "window", "enable", "delete"}
INVARIANTS SlotsMatchHolders
PROPERTIES ImplementsSlotPool
