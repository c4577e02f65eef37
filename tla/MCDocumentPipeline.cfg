CONSTANTS
  v1 = v1
  file = file
  w1 = w1
  w2 = w2
  s1 = s1
  s2 = s2
  None = None
  Versions = {v1}
  Artifacts = {file}
  ArtifactOf <- OneFile
  Workers = {w1, w2}
  Slots = {s1, s2}
  WorkerOf <- OneEach
  MaxAttempts = 2
  MaxFaults = 2
  Results <- Clean
SPECIFICATION PipelineSpec
INVARIANTS
  CalmDeliveries
PROPERTIES
  EveryJobEnds
  RequestsPublished
CHECK_DEADLOCK FALSE
