SPECIFICATION PartsSpec
CONSTANTS
  None = None
  Call = {c1}
  RowId = {1, 2}
  Identity = {u1, u2}
  MaxFailures = 2
  Access = {a1}
  Client = {k1}
  MaxModel = 3
  Limit = 1
  MaxPages = 3
  MaxChanges = 2
INVARIANTS PartsTypeOK CountedOnce EventsKept TotalsAgree ClearedStaysAway CleanStopWritesAll AnswersAreWhole
PROPERTIES WrittenEventually ModelsServed
CHECK_DEADLOCK FALSE
