CONSTANTS
  a1 = a1
  a2 = a2
  a3 = a3
  o1 = o1
  o2 = o2
  f1 = f1
  f2 = f2
  Analyzers = {a1}
  ReadOnly = {}
  Options = {o1}
  Opt <- MCOpt
  SourceFiles = {f1}
  Size <- MCSize
  Name <- MCName
  MaxEntryBytes = 2
  MaxEntries = 1
  MaxBytes = 2
  Reverts = TRUE
  MaxEdits = 2
  MaxTampering = 0
  MaxFaults = 0
SPECIFICATION Spec
INVARIANT CacheCoherent
CHECK_DEADLOCK FALSE
