SPECIFICATION FairSpec
CONSTANTS
  c1 = c1
  c2 = c2
  c3 = c3
  None = None
  Clients = {c1, c2, c3}
  MaxRequests = 1
  Requests <- MCRequests
  FdSetSize = 5
  Rlimit = 6
  Nfiles = {0, 3}
  Root = "root"
  Children <- MCChildren
INVARIANTS
  Accounted
  ListenerSurvives
  LookupFinds
PROPERTIES
  PendingServed
CHECK_DEADLOCK FALSE
