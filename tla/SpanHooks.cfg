SPECIFICATION FairSpec
CONSTANTS
  Goroutines = {g1, g2}
  Main = g1
  load = load
  save = save
  Functions = {load, save}
  Targets <- MCTargets
  Results <- MCResults
  Failures <- MCFailures
  MaxCalls = 2
INVARIANTS
  TypeOK
  OpenSpansAreLive
  ParentIsCaller
  ErrorsRecorded
PROPERTIES
  Transparent
  LeftSpansEnd
CHECK_DEADLOCK FALSE
