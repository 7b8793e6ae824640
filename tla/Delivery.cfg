CONSTANTS
  e1 = e1
  moved = moved
  Entry = {e1}
  Key <- Events
  Prompter = {p1}
  Reporter = {p1, c1, c2}
  Scene <- APromptOrAChange
  Sweeper = {s1, s2}
  MaxAttempts = 2
  MaxFaults = 1
  NoKey = NoKey
  NoEntry = NoEntry
SPECIFICATION FairSpec
CHECK_DEADLOCK FALSE
INVARIANTS
  PushedOnce
  PromptIsRecorded
PROPERTIES
  RecordedEnds
