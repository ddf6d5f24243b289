SPECIFICATION Spec
CONSTANTS
  Caller = {c1}
  RowId = {1}
  Identity = {u1, u2}
  Pair = {p1, p2, p3}
  None = None
SYMMETRY Interchangeable
INVARIANTS PairsStayWithIdentity
