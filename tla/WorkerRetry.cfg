CONSTANTS
  w1 = w1
  w2 = w2
  j1 = j1
  j2 = j2
  c1 = c1
  c2 = c2
  a1 = a1
  a2 = a2
  NoJob = NoJob
  Workers = {w1, w2}
  JobIds = {j1, j2}
  Clients = {c1, c2}
  Addrs = {a1, a2}
  Owner <- PairOwner
  Rcpts <- PairRcpts
  Listable <- PairListable
  MaxRetries = 2
  SdkAttempts = 1
  MaxStops = 0
  MaxResends = 0
SPECIFICATION Spec
SYMMETRY Symmetry
INVARIANT RetriesAfterNewer
\* The jobs are finitely many: when all are settled nothing is left to do.
CHECK_DEADLOCK FALSE
