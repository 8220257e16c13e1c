SPECIFICATION Spec
CONSTANTS
  Pads <- MCPads
  Sads <- MCSads
  DescriptorLimit = 4
  MaxOpen = 3
  MaxStatusBytes = 1
  GPIB_MAX_NUM_BOARDS = 1
  MaxUd = 1
  t1 = t1
  t2 = t2
  Threads = {t1}
  Boot = t1
  NoThread = NoThread
  Openers = {t1}
  Uses <- Together
  Calls = {"ibrd", "ibwrt", "ibpad", "ibclr", "ibtrg", "ibrsp", "ibloc", "ibtmo", "ibrda", "ibwrta", "ibwait", "ibstop", "ibonl"}
  DevicePads = {4, 5}
  SadArgs = {97}
  Timeouts = {10}
INVARIANTS
  LocksComeBack
  OwnBus
CHECK_DEADLOCK FALSE
VIEW OnTheBus
