SPECIFICATION ClientSpec
CONSTANTS
  Tasks = {t1, t2}
  Slots = {t1, t2}
  Events = {udp}
  Fds = {sock}
  Udp = udp
  Sock = sock
  MaxTimeout = 1
  ReuseFds = FALSE
  None = None
  MaxLookups = 1
  IdMod = 2
  QueryTimeout = 1
  MaxRetry = 1
  MaxDeliveries = 1
  ShortPackets = FALSE
  BadChecksums = FALSE
  SocketErrors = TRUE
  LateTicks = FALSE
INVARIANT NoOrphans
