SPECIFICATION FairSpec
CONSTANTS
  RequestKey = {a, b, c}
  Concurrency = 1
  Burst = 1
  TokenTicks = 1
  Spacing = 1
  Backoff <- MCBackoff
  MaxRetries = 1
  CooldownThreshold = 2
  Cooldown = 1
INVARIANTS
  SlotsAccounted
  OvershootByOne
PROPERTY EveryCallReturns
