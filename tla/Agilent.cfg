SPECIFICATION FairSpec
CONSTANTS
  MaxCalls = 3
  Length = 2
  Limits = {0, 100, 3000}
INVARIANTS
  CleanExchange
PROPERTY CallEnds
CHECK_DEADLOCK FALSE
