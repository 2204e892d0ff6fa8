CONSTANTS
  l1 = l1
  l2 = l2
  c1 = c1
  c2 = c2
  a1 = a1
  a2 = a2
  h1 = h1
  h2 = h2
  Logs = {l1}
  Client <- MCClient
  To <- MCTo
  Kinds <- MCKinds
  Visits <- MCVisits
  Handlers = {h1, h2}
  MaxSends = 1
  MaxEvents = 2
  MaxFaults = 1
  MaxTime = 2
SPECIFICATION FairSpec
INVARIANTS
  TypeOK
  AnsweredIsApplied
  StatsAccounted
PROPERTIES
  FirstEngagementKept
  EventsSettle
\* Everything is settled once all bounds are used up.
CHECK_DEADLOCK FALSE
