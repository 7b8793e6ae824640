CONSTANTS
  Appointment = {b1, b2, b3}
  Staff = {s1, s2}
  None = None
  Chairs = 2
  Length = {1, 2}
  Close = 3
SPECIFICATION BoundedSpec
SYMMETRY Symmetry
CHECK_DEADLOCK FALSE
INVARIANTS
  DayKept
  WithinCapacity
  GridAgrees
