SPECIFICATION PipelineSpec
CONSTANTS
  Entries = {1}
  Versions = {v1}
  Workers = {w1}
  Nobody = Nobody
  Cores = {c1, c2}
  None = None
  Requests = {r1}
  ServerVersion = v1
  WorkerVersion = v1
  MaxJobs = 3
  MaxAttempts = 2
  MaxClaims = 0
  MaxCrashes = 0
  LeaseRespected = TRUE
  RepliesArrive = TRUE
  SweepBatch = 1
  MaxEdits = 2
  MaxFailures = 0
  MaxAborts = 0
  PatientEdits = FALSE
INVARIANT StaleHasWork
CHECK_DEADLOCK FALSE
