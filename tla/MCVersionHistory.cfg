CONSTANTS
  u1 = u1
  u2 = u2
  k1 = k1
  k2 = k2
  None = None
  Uploads = {u1, u2}
  Keys = {k1, k2}
  MaxVersions = 4
SPECIFICATION Spec
SYMMETRY Interchangeable
INVARIANTS
  Linear
  OncePerRequest
  MergesAreSound
PROPERTIES
  HistoryKept
  KeepsLine
\* Every upload and version comes to rest.
CHECK_DEADLOCK FALSE
