SPECIFICATION Spec
CONSTANTS
  Key = {k1, k2, k3}
  Call = {a1, a2}
  Coin = {c1, c2}
  Booking = {b1, b2}
  MaxFaults = 1
  None = None
SYMMETRY Symmetry
CONSTRAINT ThirdIfNoFault
CHECK_DEADLOCK FALSE
INVARIANTS
  AnswersAgree
  OwedIsFunded
PROPERTIES
  CreditBookKept
