SPECIFICATION PartsSpec
CONSTANTS
  None = None
  Response = {t1, t2}
  Model = {m1}
  All = All
  Second = 1
  Resets = {1, 2}
  Delays = {0, 2}
  MaxAge <- Ages
  Allowances <- NoneOneOrAll
  ShortDelay = 1
  AuthDelay = 1
  MaxTime = 1
  Handler = {t1, t2}
  Operation = {r1, r2}
  Subscription = {s1}
  Card = {k1, k2}
  Event = {r1, r2, e3}
  ResetTime = {1, 2, 3}
  Time = {1, 2}
  Percent = {1, 2}
  Page = {t1, t2}
  Reply = {a1}
  MaxClock = 2
  MaxSamplers = 2
  Outgoing = {t1, t2}
  Login = login
  RowId = {1}
  Alias = {l1, l2}
  Proxy = {x1, x2}
  MaxChanges = 2
  Attempt = {t1, t2, t3}
  Ticker = ticker
  TrafficGroup = {g1, g2}
  MaxGroups = 1
  Capacity = 2
  Recent = 1
  MaxNow = 2
  Custom = {1, 2}
  Fixed = {3}
  Aliases = {3, 4, 5}
  Attempts = 3
  MaxTools = 3
SYMMETRY Interchangeable
VIEW View
INVARIANTS PartsTypeOK RowIsLongestDecision Recoverable SpentOnce SettledIsTrue OneAtATime WindowsAreTheEvents SamplesAreCurrent LeavesThroughItsExit TrafficCounted AliasesHold
CHECK_DEADLOCK FALSE
