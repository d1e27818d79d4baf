SPECIFICATION Spec
CONSTANTS
  Asset = {"btc"}
  Currency = {"cad", "usd"}
  Default = "cad"
  Trade <- MCTrade
  Entry <- MCEntry
  Point <- MCPoint
  Ledger <- MCLedger
  Event <- MCEvent
  Window = 1
  Tolerance = 3
  Share = 2
  Week = 3
  MaxCalls = 2
  MaxMishaps = 1
INVARIANT Reconciled
INVARIANT Explained
PROPERTY CatchesUp
CHECK_DEADLOCK FALSE
