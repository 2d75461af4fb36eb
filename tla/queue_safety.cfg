SPECIFICATION Spec
CONSTANTS
  ui = ui
  api = api
  t1 = t1
  t2 = t2
  vocals = vocals
  drums = drums
  Main = ui
  Clients <- TwoClients
  Workers <- TwoWorkers
  Models <- TwoModels
  MaxItems = 2
  MaxRetries = 1
  MaxUnbinds = 0
INVARIANTS
  OneTransfer
  NoStrandedItem
  NoLostRefresh
  PublishedIsShown
PROPERTIES
  
  EndedStaysEnded
  ImplementsPromise
SYMMETRY ThreadSymmetry
CHECK_DEADLOCK FALSE
