CONSTANTS
  p1 = p1
  p2 = p2
  p3 = p3
  b1 = b1
  b2 = b2
  Publishers = {p1, p2}
  Clean = {p1, p2}
  Bundles = {b1, b2}
  Want <- MCWant
  Payload = {hooks}
  Manifest = manifest
  Extra = extra
  User = user
  None = none
  Existing = existing
  Running = 2
  MaxEdits = 1
  MaxFaults = 2
SPECIFICATION Spec
CHECK_DEADLOCK FALSE
PROPERTY UserFilesNeverRemoved
