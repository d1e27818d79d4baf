SPECIFICATION FairSpec
CONSTANTS
  MaxTx = 4
  PageSize = 2
  Token = {x}
  MaxReplace = 2
  MaxTrouble = 2
  Busy = FALSE
INVARIANTS
  CompleteHistory
PROPERTIES
  FinalityKept
  AllArrives
