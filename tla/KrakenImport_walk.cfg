SPECIFICATION FairSpec
CONSTANTS
  MaxTime = 6
  PageSize = 2
  Overlap = 2
  Lag = 1
  MaxTrouble = 2
INVARIANTS
  NothingLost
PROPERTY EverythingArrives
