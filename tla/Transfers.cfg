SPECIFICATION FairSpec
CONSTANTS
  Board <- MCBoard
  Instruments <- MCInstruments
  Misnamed <- MCMisnamed
  Messages <- MCMessages
  Flags <- MCFlags
  Limited <- MCLimited
  SignedBool = FALSE
  IndexSize = 2
  MaxMiscounts = 1
INVARIANTS
  AddressedRight
  CommandReachesThose
  InOrder
  EoiAtEnd
  NoForeignEos
PROPERTIES
  TransferEnds
