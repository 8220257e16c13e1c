SPECIFICATION QueueSpec
CONSTANTS
  MaxStatusBytes = 3
  MaxPolls = 7
INVARIANTS
  EachByteOnce
PROPERTIES
  IsStore
CHECK_DEADLOCK FALSE
