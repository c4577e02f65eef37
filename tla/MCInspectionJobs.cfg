CONSTANTS
  v1 = v1
  v2 = v2
  file = file
  w1 = w1
  w2 = w2
  s1 = s1
  s2 = s2
  s3 = s3
  None = None
  Versions = {v1, v2}
  Artifacts = {file}
  ArtifactOf <- SharedFile
  Workers = {w1, w2}
  Slots = {s1, s2, s3}
  WorkerOf <- TwoAndOne
  MaxAttempts = 2
  Results <- CleanOrNot
SPECIFICATION Spec
SYMMETRY Interchangeable
INVARIANTS
  OutcomeReported
  SnapshotIntact
  ScanFollows
PROPERTIES
  LeaseRespected
  NothingRewritten
  KeepsLifecycle
\* Every job ends: the system stops when all of them have.
CHECK_DEADLOCK FALSE
