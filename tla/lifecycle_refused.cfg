SPECIFICATION Spec
CONSTANTS
  MaxOps = 2
  MaxStops = 1
  MaxCloses = 0
  MaxIdle = 2
  MaxPolls = 2
INVARIANTS
  RunHasWorker
CHECK_DEADLOCK FALSE
