SPECIFICATION AccountSpec
CONSTANTS
  Item = {1, 2}
  Endpoint <- MCEndpoint
  HalfHour = 2
  Retention = 1
  Suffixed = {TRUE, FALSE}
  MaxInstant = 2
  MaxMoves = 2
  MaxFailures = 1
 
PROPERTY ListingKept
PROPERTY AllTold
CHECK_DEADLOCK FALSE
