SPECIFICATION Spec
CONSTANTS
  Board <- MCBoard
  Instruments <- MCInstruments
  Misnamed <- MCMisnamed
  Messages <- MCMessages
  Flags <- MCFlags
  Limited <- MCLimited
  SignedBool = TRUE
  IndexSize = 2
  MaxMiscounts = 0
INVARIANTS
  EoiWithEos
