SPECIFICATION FairSpec
CONSTANTS
  t1 = t1
  t2 = t2
  Threads = {t1, t2}
  NoThread = NoThread
  Methods <- MCMethods
  Errnos = {22}
  Length = 1
INVARIANTS
  OwnNumbers
  NoSilentFailure
PROPERTIES
  EveryCallReturns
  PythonGoesOn
