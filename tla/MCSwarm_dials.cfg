SPECIFICATION FairSpec
CONSTANTS
  p1 = p1
  p2 = p2
  m1 = m1
  m2 = m2
  Peer = {p1, p2}
  Self = self
  Dominated = {}
  Topic = {t1}
  MaxPeers = 2
  MaxParallel = 1
  ConnCap = 1
  MaxJoins = 1
  MaxEvents = 1
  MaxFlush = 1
  Noise = {m1}
  Owner <- OwnerOnly
  RelayThrough = TRUE
  CacheCap = 1
  MaxSessions = 1
INVARIANT DialsAreExact
 
 
PROPERTY FlushIsAnswered
CHECK_DEADLOCK FALSE
