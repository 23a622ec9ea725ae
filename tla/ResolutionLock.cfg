CONSTANTS
  p1 = p1
  p2 = p2
  s1 = s1
  s2 = s2
  None = none
  Processes = {p1, p2}
  Assignments <- MCRefreshers
  Resolutions <- MCResolutions
  Empty <- MCEmpty
  MaxEdits = 1
  MaxHandEdits = 1
  MaxBuilds = 1
  MaxFaults = 1
SPECIFICATION Spec
INVARIANT TypeOK
INVARIANT LockWhole
INVARIANT IdentityMatches
CHECK_DEADLOCK FALSE
