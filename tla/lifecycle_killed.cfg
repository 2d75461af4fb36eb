SPECIFICATION Spec
CONSTANTS
  MaxOps = 2
  MaxStops = 1
  MaxCloses = 0
  MaxIdle = 2
  MaxPolls = 2
PROPERTIES
  OnlyStoppedWorkersAreKilled
CHECK_DEADLOCK FALSE
