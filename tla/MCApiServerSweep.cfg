SPECIFICATION ApiSpec
CONSTANTS
  MaxTime = 4
  Second = 2
  Clients = {k1}
  Window = 2
  MaxRequests = 1
  PruneAbove = 0
  Callers = {h1, h2}
  Ttl = 2
  MaxDepth = 1
  Depths <- DepthsOf
  Numbers = {n1, n2}
  NoNumber = NoNumber
  MaxArrivals = 3
PROPERTY DeferredUntilCapacity
CHECK_DEADLOCK FALSE
