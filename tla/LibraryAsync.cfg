SPECIFICATION FairSpec
CONSTANTS
  Pads <- MCPads
  Sads <- MCSads
  DescriptorLimit = 4
  MaxOpen = 3
  MaxStatusBytes = 1
  GPIB_MAX_NUM_BOARDS = 1
  MaxUd = 1
  t1 = t1
  t2 = t2
  Threads = {t1, t2}
  Boot = t1
  NoThread = NoThread
  Openers = {t1}
  Uses <- Device1
  Calls = {"ibrda", "ibwrta", "ibstop", "ibwait", "ibtmo"}
  DevicePads = {4}
  SadArgs = {97}
  Timeouts = {10}
PROPERTY EveryCallReturns
