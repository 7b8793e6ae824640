CONSTANTS
  n1 = n1
  Node = {n1}
  Kind = {"expire", "remind", "alert"}
  Deployment <- OneJob
  MaxDelay = 1
  Booking = {b1}
  LastSlot = 2
  Window = 1
  Lead = 1
  Hold = 1
  MaxFaults = 1
SPECIFICATION FairSpec
CHECK_DEADLOCK FALSE
INVARIANTS
  OneStepAtATime
  SignalIsHeeded
PROPERTIES
  ClaimsOpenBooking
  DueIsHandled
