CONSTANTS
  Entry = {e1, e2}
  Staff = {s1, s2}
  Chair = {c1, c2}
  Request = {r1, r2}
  None = None
SPECIFICATION Spec
SYMMETRY Symmetry
CONSTRAINT TwoVisitsOrOneAway
INVARIANTS
  SessionMatchesEntry
  NothingShared
PROPERTIES
  ServiceRecordIsFinal
  FollowsLifecycle
  ImplementsFloor
