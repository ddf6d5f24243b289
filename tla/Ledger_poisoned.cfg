SPECIFICATION FairSpec
CONSTANTS
  Call = {c1, c2}
  RowId = {1, 2}
  Identity = {u1, u2}
  MaxFailures = 0
  None = None
PROPERTIES RetriesSucceed
