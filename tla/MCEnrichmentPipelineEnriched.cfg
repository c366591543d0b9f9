SPECIFICATION FairPipelineSpec
CONSTANTS
  Entries = {1}
  Versions = {v1}
  Workers = {w1}
  Nobody = Nobody
  Cores = {c1}
  None = None
  Requests = {r1}
  ServerVersion = v1
  WorkerVersion = v1
  MaxJobs = 6
  MaxAttempts = 2
  MaxClaims = 0
  MaxCrashes = 1
  LeaseRespected = FALSE
  RepliesArrive = FALSE
  SweepBatch = 1
  MaxEdits = 0
  MaxFailures = 1
  MaxAborts = 1
  PatientEdits = FALSE
INVARIANTS
  UniqueActiveKey
  LockedIffProcessing
PROPERTIES
  EventuallyEnriched
  JobsSettle
CHECK_DEADLOCK FALSE
