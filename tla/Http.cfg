SPECIFICATION FairSpec
CONSTANTS
  MaxRequests = 2
  FileSize = 2
  Requests <- MCRequests
INVARIANTS
  TypeOK
  InStep
  UploadIsWhole
PROPERTIES
  ExchangeSpec
  NobodyWaits
CHECK_DEADLOCK FALSE
