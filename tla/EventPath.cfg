CONSTANTS
  w1 = w1
  w2 = w2
  e1 = e1
  k1 = k1
  Workers = {w1, w2}
  Events = {e1}
  Confirmations = {k1}
  SdkAttempts = 1
  MaxTries = 2
SPECIFICATION FairSpec
INVARIANTS
  OneSendsWorth
  EnsureMeansReady
  LostForCause
PROPERTY
  SetCompleted
