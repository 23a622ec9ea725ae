CONSTANTS
  a1 = a1
  a2 = a2
  a3 = a3
  o1 = o1
  o2 = o2
  f1 = f1
  f2 = f2
  Analyzers = {a1, a3}
  ReadOnly = {}
  Options = {o1, o2}
  Opt <- MCOpt
  SourceFiles = {f1}
  Size <- MCSize
  Name <- MCName
  MaxEntryBytes = 2
  MaxEntries = 2
  MaxBytes = 3
  Reverts = TRUE
  MaxEdits = 2
  MaxTampering = 0
  MaxFaults = 1
SPECIFICATION Spec
INVARIANT BoundedAtRest
CHECK_DEADLOCK FALSE
