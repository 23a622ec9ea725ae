CONSTANTS
  a1 = a1
  a2 = a2
  a3 = a3
  o1 = o1
  o2 = o2
  f1 = f1
  f2 = f2
  Analyzers = {a1, a2}
  ReadOnly = {a2}
  Options = {o1}
  Opt <- MCOpt
  SourceFiles = {f1, f2}
  Size <- MCSize
  Name <- MCName
  MaxEntryBytes = 2
  MaxEntries = 1
  MaxBytes = 2
  Reverts = FALSE
  MaxEdits = 2
  MaxTampering = 1
  MaxFaults = 1
SPECIFICATION Spec
INVARIANT TypeOK
INVARIANT CacheCoherent
INVARIANT AnswerFresh
PROPERTY ReadOnlyNeverWrites
CHECK_DEADLOCK FALSE
