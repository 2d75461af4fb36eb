SPECIFICATION Spec
CONSTANTS
  NumFiles = 3
  Size <- ThreeSizes
  Mirrored <- Outer
  Announced <- Upper
  MaxAttempts = 3
  MaxCrashes = 2
INVARIANTS
  AnnouncedIsWhole
  CompleteMeansAll
  ProgressWithinOne
  StoppedLeavesNoFile
  
PROPERTIES
  FinishedFilesStay
CHECK_DEADLOCK FALSE
