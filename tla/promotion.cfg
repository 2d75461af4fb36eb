SPECIFICATION Spec
CONSTANTS
  a = a
  b = b
  Promoters <- TwoPromoters
  NumFiles = 3
  Unit <- LastTwo
  Taken <- Taken3
  MaxSuffix = 5
  MaxForeign = 1
  MaxFaults = 1
SYMMETRY Processes
INVARIANTS
  AllOrNothing
  OneSuffix
  NothingLost
PROPERTIES
  ForeignStays
CHECK_DEADLOCK FALSE
