SPECIFICATION FairSpec
CONSTANTS
  b1 = b1
  b2 = b2
  t1 = t1
  t2 = t2
  t3 = t3
  Nobody = Nobody
  Boards = {b1, b2}
  Threads = {t1, t2, t3}
  Uses <- MCUses
  Calls <- MCCalls
INVARIANTS
  OneAtATime
  OnlineHasInterface
  HotplugComesBack
  ClosedStaysOffline
PROPERTIES
  EveryCallReturns
