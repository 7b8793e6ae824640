CONSTANTS
  None = None
  Salon = {salon}
  Customer = {c1}
  Booking = {b1}
  Person = {p1}
  Capacity = 1
  Call = {a1, a2}
  Entry = {e1, e2}
  Code = {i1, i2, i3}
  Phone = {f1, f2}
  Purpose = {link}
  Subject = {o1, o2}
  Ttl = 3
  Cooldown = 1
  Window = 1
  WindowMax = 1
  Day = 2
  DayMax = 2
  Budget = 2
  MaxTries = 1
  MaxNow = 3
  Login = {f1, f2}
  Token = {i1, i2, i3, i4}
  Audience = {"CUSTOMER", "STAFF", "ADMIN"}
SPECIFICATION DoorSpec
SYMMETRY Symmetry
CONSTRAINT OnePhoneOrPurpose
CHECK_DEADLOCK FALSE
INVARIANTS
  HeldOnce
  TokensConsecutive
  SendsLimited
  LoginIsOneSession
PROPERTIES
  WithinCapacity
  CodesKept
