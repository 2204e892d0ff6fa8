CONSTANTS
  w1 = w1
  w2 = w2
  j1 = j1
  j2 = j2
  c1 = c1
  c2 = c2
  a1 = a1
  a2 = a2
  NoJob = NoJob
  Workers = {w1, w2}
  JobIds = {j1}
  Clients = {c1}
  Addrs = {a1}
  Owner <- SoloOwner
  Rcpts <- SoloRcpts
  Listable = {}
  MaxRetries = 2
  SdkAttempts = 2
  MaxStops = 1
  MaxResends = 1
SPECIFICATION FairSpec
INVARIANTS
  SendsBounded
  StatsHonest
PROPERTIES
  ImplementsContract
  EveryJobEnds
  ShutdownEnds
\* A pool whose job is settled, or that is down for good, has nothing left to do.
CHECK_DEADLOCK FALSE
