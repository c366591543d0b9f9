SPECIFICATION FairPipelineSpec
CONSTANTS
  Entries = {1}
  Versions = {v1}
  Workers = {w1}
  Nobody = Nobody
  Cores = {c1, c2}
  None = None
  Requests = {r1, r2}
  ServerVersion = v1
  WorkerVersion = v1
  MaxJobs = 6
  MaxAttempts = 3
  MaxClaims = 0
  MaxCrashes = 1
  LeaseRespected = TRUE
  RepliesArrive = TRUE
  SweepBatch = 1
  MaxEdits = 2
  MaxFailures = 1
  MaxAborts = 0
  PatientEdits = TRUE
INVARIANTS
  PipelineTypeOK
  StaleHasWork
  CompletedIsCurrent
PROPERTY EventuallyCurrent
CHECK_DEADLOCK FALSE
