CONSTANTS
  Null = Null
  Call = {a1, a2}
  InvoiceKey = {k1, k2, k3}
  Visit = {v1, v2}
  Invoice = {i1, i2}
  Total = 2
  MaxFaults = 1
  Customer = {v1, v2}
  Booking = {b1, b2, b3}
  Terms = {t1, t2}
  Price = {p1, p2}
  MaxRedemptions = 2
  PerCustomer = 1
  MaxVersion = 5
  Subscription = {v1, v2}
  Generation = {g1, g2, g3}
  Allocated = 2
SPECIFICATION LedgersSpec
SYMMETRY Symmetry
CHECK_DEADLOCK FALSE
INVARIANTS
  InvoicesKept
  NumbersConsecutive
  CreditsAccounted
PROPERTIES
  OfferKept
