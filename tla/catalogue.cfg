SPECIFICATION Spec
CONSTANTS
  upstream = upstream
  politrees = politrees
  c1 = c1
  c2 = c2
  Sources <- MCSources
  Callers <- MCCallers
  Versions = {1, 2}
  OnDisk = 1
  MaxCalls = 2
  MaxChanges = 2
  MaxFetches = 2
  MaxFaults = 1
SYMMETRY Symmetric
INVARIANTS  StaleHasReason
