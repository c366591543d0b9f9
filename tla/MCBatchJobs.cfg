SPECIFICATION FairBatchSpec
CONSTANTS
  Entries = {1}
  Versions = {v1, v2}
  Workers = {w1}
  Nobody = Nobody
  Cores = {c1}
  None = None
  Requests = {}
  ServerVersion = v2
  WorkerVersion = v2
  MaxJobs = 4
  MaxAttempts = 3
  MaxClaims = 0
  MaxCrashes = 0
  LeaseRespected = TRUE
  RepliesArrive = TRUE
  SweepBatch = 1
  MaxEdits = 0
  MaxFailures = 0
  MaxAborts = 1
  PatientEdits = FALSE
  Migrations = {m1, m2}
  Reevaluations = {c}
  Overlapping = TRUE
  Target = v2
  BatchSize = 2
INVARIANTS
  BatchTypeOK
  MigrationReachesTarget
  MigratedIsSettled
PROPERTY MigrationSettles
CHECK_DEADLOCK FALSE
