SPECIFICATION ClientSpec
CONSTANTS
  Tasks = {t1, t2, t3}
  Slots = {t1, t2, t3}
  Events = {udp}
  Fds = {sock}
  Udp = udp
  Sock = sock
  MaxTimeout = 2
  ReuseFds = FALSE
  None = None
  MaxLookups = 2
  IdMod = 6
  QueryTimeout = 2
  MaxRetry = 1
  MaxDeliveries = 2
  ShortPackets = FALSE
  BadChecksums = FALSE
  SocketErrors = FALSE
  LateTicks = FALSE
SYMMETRY Symmetry
INVARIANTS
  ResolverTypeOK
  ListMatchesLookups
  DeadlineOrder
  HeadStays
  NoOrphans
  DeadlineWatched
  NoForgottenAnswer
  OwnAnswer
PROPERTIES
  RetryWhenExpired
