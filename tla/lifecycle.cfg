SPECIFICATION Spec
CONSTANTS
  MaxOps = 2
  MaxStops = 2
  MaxCloses = 1
  MaxIdle = 1
  MaxPolls = 2
INVARIANTS
  NoOrphanWorker
  PauseIsLifted
  CleanupIsOfTheRun
PROPERTIES
  NoStartWhileClosing
  StopEnds
  CloseEnds
CHECK_DEADLOCK FALSE
