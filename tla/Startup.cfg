CONSTANTS
  api = api
  smtp = smtp
  worker = worker
  None = None
  Programs = {api, smtp, worker}
  RedisPingers = {api}
  Oldest = 1
  Newest = 2
  MaxAttempts = 2
  MaxFaults = 2
SPECIFICATION FairSpec
INVARIANTS
  SchemaTruthful
  ServingMeansMigrated
PROPERTY
  EveryoneServes
CHECK_DEADLOCK FALSE
