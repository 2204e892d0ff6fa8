CONSTANTS
  r1 = r1
  r2 = r2
  p1 = p1
  p2 = p2
  Reqs = {r1, r2}
  Admins = {p1}
  TTL = 2
  MaxLag = 1
  MayFail = TRUE
  MaxTime = 5
SPECIFICATION Spec
SYMMETRY Symmetry
INVARIANTS
  TypeOK
  StalenessBounded
  RejectedForCause
  CleanOffHolds
CHECK_DEADLOCK FALSE
