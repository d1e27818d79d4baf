SPECIFICATION MarketSpec
CONSTANTS
  Providers = {"coingecko", "coinbase", "kraken"}
  Boundary = 1
  Window = 2
  Profile = 3
  Overlap = 1
  Forever = Forever
  Depths = {2, Forever}
  Retentions = {2, Forever}
  MaxTime = 3
  MaxChanges = 2
  MaxTrouble = 1
  Source = {"coingecko", "coinbase"}
  Quote = {"USD", "CAD"}
  Configured = "CAD"
  Course <- MCCourse
  Span = {1, 2}
  Coverage <- MCCoverage
  Near = 1
  Far = 2
  End = 2
  MaxWrites = 3
 
INVARIANT SeriesTrue
INVARIANT ValuesTrue
PROPERTY HistoryReaches
CHECK_DEADLOCK FALSE
