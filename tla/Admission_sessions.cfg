SPECIFICATION LegacySpec
CONSTANTS
  Request = {q1, q2}
  a1 = a1
  a2 = a2
  s1 = s1
  s2 = s2
  c1 = c1
  None = None
  Account = {a1, a2}
  Session = {s1, s2}
  CacheKey = {}
  Traffic <- SessionTraffic
  Placements <- AllCompatible
  MaxActive = 1
  Limits = {2}
  CountLimit = 1
  MaxUrgency <- NoReadings
  Events = {"idle", "expire", "cooldown"}
SYMMETRY Interchangeable
INVARIANTS TypeOK SessionsMatchHolders NewSessionsWithinLimit
