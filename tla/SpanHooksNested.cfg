SPECIFICATION Spec
CONSTANTS
  Goroutines = {g1}
  Main = g1
  load = load
  save = save
  Functions = {load, save}
  Targets <- MCTargets
  Results <- MCResults
  Failures <- MCFailures
  MaxCalls = 3
PROPERTIES
  Transparent
CHECK_DEADLOCK FALSE
