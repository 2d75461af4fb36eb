SPECIFICATION Spec
CONSTANTS
  r1 = r1
  r2 = r2
  hash = hash
  names = names
  a = a
  b = b
  Archiver = archiver
  Refreshers <- MCRefreshers
  Sources <- MCSources
  Mappers <- MCMappers
  LockOrder <- MCLockOrder
  Keys <- MCKeys
  Upstream <- MCUpstream
  MaxRefreshes = 3
  MaxArchives = 2
  MaxFaults = 2
  MaxCrashes = 1
SYMMETRY Symmetric
INVARIANTS AllFilesOrNone NamesKept
