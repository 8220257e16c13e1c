SPECIFICATION FairSpec
CONSTANTS
  BufferLength = 2
  RemainModulus = 8
  Counts = {0, 1, 4, 5}
INVARIANTS
  TypeOK
  DataInStandby
  ReadCountReal
  CommandCountReal
  WriteCountOver
  PollLeavesNoTrace
 
