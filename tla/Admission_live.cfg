SPECIFICATION LegacyFairSpec
CONSTANTS
  Request = {q1, q2}
  a1 = a1
  a2 = a2
  s1 = s1
  s2 = s2
  c1 = c1
  None = None
  Account = {a1, a2}
  Session = {s1}
  CacheKey = {}
  Traffic <- OneSession
  Placements <- AllCompatible
  MaxActive = 1
  Limits = {1}
  CountLimit = 1
  MaxUrgency <- NoReadings
  Events = {"restart"}
PROPERTIES CallsEnd
