SPECIFICATION Spec
CONSTANTS
  SignedBool = TRUE
  Values <- MCValues
  MaxCalls = 3
INVARIANTS
  TypeOK
  AcceptedIsAnswered
  AddressAgrees
PROPERTIES
  RefusedChangesNothing
CHECK_DEADLOCK FALSE
