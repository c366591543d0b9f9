SPECIFICATION FairPoolSpec
CONSTANTS
  Entries = {1}
  Versions = {v1}
  Workers = {w1, w2}
  Nobody = Nobody
  MaxJobs = 2
  MaxAttempts = 2
  MaxClaims = 0
  MaxCrashes = 2
  LeaseRespected = TRUE
  RepliesArrive = TRUE
INVARIANTS
  PoolTypeOK
  MutualExclusion
  LeaseHeld
  RetryBudget
  FailedExhausted
PROPERTIES
  KeepsPromise
  JobsSettle
CHECK_DEADLOCK FALSE
