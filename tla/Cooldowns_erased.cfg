SPECIFICATION Spec
CONSTANTS
  Response = {c1, c2}
  Model = {m1}
  All = All
  Second = 2
  Resets = {0, 1, 2}
  Delays = {0, 2}
  MaxAge <- Ages
  Allowances <- NoneOneOrAll
  ShortDelay = 1
  AuthDelay = 1
  MaxTime = 3
SYMMETRY Interchangeable
INVARIANTS NewerDecisionSurvives
