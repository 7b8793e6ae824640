CONSTANTS
  s1 = s1
  s2 = s2
  Entry = {1, 2}
  Staff = {s1, s2}
  Chair = {c1, c2}
  Request = {r1}
  Qualified <- MCQualified
  Suits <- MCSuits
  None = None
SPECIFICATION Spec
SYMMETRY Symmetry
CONSTRAINT OneDisturbance
INVARIANTS
  PassLeavesNobody
  NobodyOvertaken
PROPERTIES
  ImplementsFloor
