CONSTANTS
  s1 = s1
  s2 = s2
  Entry = {1}
  Staff = {s1, s2}
  Chair = {c1}
  Request = {r1, r2}
  Qualified <- MCQualified
  Suits <- MCSuits
  None = None
SPECIFICATION FairSpec
PROPERTIES
  FollowUpPass
