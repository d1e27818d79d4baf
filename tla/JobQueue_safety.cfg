SPECIFICATION Spec
CONSTANTS
  r1 = r1
  r2 = r2
  k1 = k1
  k2 = k2
  MaxJobs = 3
  Resource <- MCResource
  UserKey <- MCUserKey
  Priority <- MCPriority
  ContinuationPriority = 20
  Call <- MCCall
  Client = {c1}
  MaxAttempts = 2
  Concurrency = 2
  MaxEnds = 1
  Serialized = TRUE
  DbFaults = FALSE
  NoRequest = NoRequest
INVARIANTS
  HandlerExclusive
PROPERTIES
  TerminalIsFinal
  ImplementsLedger
