CONSTANTS
  c1 = c1
  c2 = c2
  c3 = c3
  q1 = q1
  k1 = k1
  a = a
  b = b
  None = None
  Conns = {c1, c2}
  Reqs = {q1}
  Clients = {k1}
  Addrs = {a, b}
  Listed <- MCListed
  MaxConns = 1
  MaxRecipients = 2
  Limit = 2
  MaxPushes = 2
  MaxRcpts = 2
SPECIFICATION Spec
SYMMETRY Symmetry
INVARIANTS
  TypeOK
  SessionsBounded
  CountExact
  AckedIsQueued
  JobHasRow
  OrphansExcused
  EnvelopeKept
  ListedStopped
