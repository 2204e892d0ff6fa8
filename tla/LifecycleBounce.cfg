CONSTANTS
  l1 = l1
  l2 = l2
  c1 = c1
  c2 = c2
  a1 = a1
  a2 = a2
  h1 = h1
  h2 = h2
  Logs = {l1, l2}
  Client <- MCClient
  To <- MCTo
  Kinds = {"HardBounce", "Delivery"}
  Visits <- MCVisits
  Handlers = {h1, h2}
  MaxSends = 1
  MaxEvents = 2
  MaxFaults = 0
  MaxTime = 1
SPECIFICATION Spec
INVARIANTS
  BouncesListed
\* Everything is settled once all bounds are used up.
CHECK_DEADLOCK FALSE
