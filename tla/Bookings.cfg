CONSTANTS
  Booking = {b1, b2}
  Request = {r1, r2}
  LastSlot = 2
  Capacity = 1
  CourtesyLimit = 1
SPECIFICATION Spec
SYMMETRY Symmetry
CONSTRAINT OneCharged
CHECK_DEADLOCK FALSE
INVARIANTS
  CreditsReturnedOnce
  ChargedOncePerReason
  OpenIsUnsettled
  VisitWasConfirmed
  SlotNotOversold
