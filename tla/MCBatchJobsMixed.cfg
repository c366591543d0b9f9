SPECIFICATION BatchSpec
CONSTANTS
  Entries = {1}
  Versions = {v1, v2}
  Workers = {w1}
  Nobody = Nobody
  Cores = {c1, c2}
  None = None
  Requests = {r1}
  ServerVersion = v2
  WorkerVersion = v2
  MaxJobs = 3
  MaxAttempts = 2
  MaxClaims = 0
  MaxCrashes = 0
  LeaseRespected = TRUE
  RepliesArrive = TRUE
  SweepBatch = 1
  MaxEdits = 1
  MaxFailures = 0
  MaxAborts = 0
  PatientEdits = FALSE
  Migrations = {}
  Reevaluations = {c}
  Overlapping = FALSE
  Target = v2
  BatchSize = 2
INVARIANT EmbeddingsStayValid
CHECK_DEADLOCK FALSE
