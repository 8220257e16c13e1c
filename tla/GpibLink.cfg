SPECIFICATION Spec
CONSTANTS
  Pads <- MCPads
  Sads <- MCSads
  DescriptorLimit = 2
  MaxOpen = 3
  MaxStatusBytes = 2
INVARIANTS
  TypeOK
  RefCountsMatch
  NoOrphanBytes
PROPERTY SharedQueueSurvives
CHECK_DEADLOCK FALSE
