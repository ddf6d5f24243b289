SPECIFICATION FairSpec
CONSTANTS
  Caller = {c1, c2}
  RowId = {1}
  Identity = {u1, u2}
  Pair = {p1, p2, p3}
  None = None
INVARIANTS TypeOK NoTokenReplayed RowsHoldLivePairs
PROPERTIES LoginKeepsIdentity WaitersReturn
