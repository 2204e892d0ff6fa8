CONSTANTS
  r1 = r1
  r2 = r2
  r3 = r3
  Reqs = {r1, r2, r3}
  Window = 4
  MonthLen = 5
  Buffer = 2
  HourLimit = 2
  MonthLimit = 2
  MaxDelay = 1
  Ahead = 1
  MaxTime = 7
SPECIFICATION Spec
SYMMETRY Symmetry
INVARIANTS
  TypeOK
  HourlyLimitKept
  MonthlyLimitKept
  NothingDangles
  UsageTruthful
\* Time ends at MaxTime, and every request with it.
CHECK_DEADLOCK FALSE
