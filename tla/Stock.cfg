CONSTANTS
  Product = {1, 2}
  Work = {w1, w2}
  Usage = {u1, u2}
  Key = {k1, k2}
  Request = {r1, r2}
  None = None
SPECIFICATION Spec
SYMMETRY Symmetry
INVARIANTS
  RecordedOnce
  StockAccounted
  NoLockCycle
