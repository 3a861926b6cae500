SPECIFICATION Spec
CONSTANTS
  p1 = p1
  p2 = p2
  m1 = m1
  m2 = m2
  Peer = {p1, p2}
  Self = self
  Dominated = {}
  Topic = {t1}
  MaxPeers = 1
  MaxParallel = 1
  ConnCap = 1
  MaxJoins = 1
  MaxEvents = 0
  MaxFlush = 0
  Noise = {m1, m2}
  Owner <- OwnerTwo
  RelayThrough = FALSE
  CacheCap = 1
  MaxSessions = 3
INVARIANT InFlightIsTracked
INVARIANT SlotsAreReserved
 
PROPERTY IncomingKeepsLimit
CHECK_DEADLOCK FALSE
