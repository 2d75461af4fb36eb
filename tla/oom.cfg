SPECIFICATION FairSpec
CONSTANTS
  big = big
  small = small
  Names <- TwoNames
  Config <- TwoConfig
  Order <- TwoOrder
  Secondary <- SmallToo
  Ensemble = TRUE
  Mixes <- ThreeMixes
  Missing <- OneMissing
  ChunkSamples = 4
  OverlapSamples = 1
  MaxRuns = 2
INVARIANTS
  WaiterHasAnswerer
  NoAskBehindDialog
  RetryShrinks
  SalvageIsWhole
PROPERTIES
  ReplyStands
  RunEnds
CHECK_DEADLOCK FALSE
