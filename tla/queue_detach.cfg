SPECIFICATION FairSpec
CONSTANTS
  ui = ui
  api = api
  t1 = t1
  t2 = t2
  vocals = vocals
  drums = drums
  Main = ui
  Clients <- OneClient
  Workers <- TwoWorkers
  Models <- OneModel
  MaxItems = 2
  MaxRetries = 0
  MaxUnbinds = 1
INVARIANTS
  DownloadingIsOwned
PROPERTIES
  QueuedIsServed
  CancelLands
CHECK_DEADLOCK FALSE
