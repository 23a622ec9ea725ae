CONSTANTS
  p1 = p1
  p2 = p2
  Processes = {p1, p2}
  Options <- MCOptions
  Rankings <- MCRankings
  MinScore = 3
  MaxRules = 2
  User = user
  Special = special
  None = none
  MaxLines = 3
  MaxEvents = 2
SPECIFICATION LiveSpec
INVARIANT OnlyConsented
INVARIANT PolicyWhole
PROPERTY UnforcedKeepsOthers
PROPERTY CancelEnds
CHECK_DEADLOCK FALSE
