SPECIFICATION Spec
CONSTANTS
  MaxRequests = 2
  FileSize = 2
  Requests <- MCRequests
INVARIANTS
  StatusMeansWhole
CHECK_DEADLOCK FALSE
