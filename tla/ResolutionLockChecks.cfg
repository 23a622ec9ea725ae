CONSTANTS
  p1 = p1
  p2 = p2
  s1 = s1
  s2 = s2
  None = none
  Processes = {p1, p2}
  Assignments <- MCChecks
  Resolutions <- MCResolutions
  Empty <- MCEmpty
  MaxEdits = 1
  MaxHandEdits = 1
  MaxBuilds = 0
  MaxFaults = 1
SPECIFICATION Spec
INVARIANT AnswerTrue
PROPERTY OnlyRefreshWrites
CHECK_DEADLOCK FALSE
