SPECIFICATION Spec
CONSTANTS
  MaxInt64 = 7
  Numerals <- MCNumerals
  SupportedVersion = "v1.1.0"
  MisspeltIDs = {9}
  DefaultWarning = 1
  DefaultStrong = 2
  DefaultMaximum = 2
  Families <- MCFamilies
INVARIANTS
  RecursiveExactly
  ResolvedAsDeclared
  LookupIsSelector
  AcceptedOnlySafe
CHECK_DEADLOCK FALSE
