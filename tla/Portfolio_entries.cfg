SPECIFICATION PortfolioSpec
CONSTANTS
  Entry = {first, second}
  Token = {"token"}
  first = first
  second = second
  MaxHeld = 1
  MaxMoves = 1
  MaxEdits = 2
  MaxSyncs = 1
  MaxUnseen = 1
INVARIANT TrackedOnce
 
PROPERTY SnapshotTrue
SYMMETRY Symmetric
CHECK_DEADLOCK FALSE
