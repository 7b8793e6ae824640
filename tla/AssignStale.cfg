CONSTANTS
  Entry = {e1}
  Staff = {s1, s2}
  Chair = {c1, c2}
  Request = {r1, r2}
  None = None
SPECIFICATION SpecReleasesFinish
SYMMETRY Symmetry
INVARIANTS
  AssignedCanBeServed
