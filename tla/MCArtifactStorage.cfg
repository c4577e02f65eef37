CONSTANTS
  r1 = r1
  r2 = r2
  m1 = m1
  file = file
  w1 = w1
  s1 = s1
  x = x
  u1 = u1
  u2 = u2
  f1 = f1
  f2 = f2
  None = None
  Comparisons = {}
  Renditions = {r1, r2}
  Merges = {m1}
  SourceOf <- OneSource
  Contents = {x}
  Workers = {w1}
  Slots = {s1}
  WorkerOf <- OneSlot
  MaxAttempts = 2
  Quota = 1
  MaxRequests = 1
  Uploads = {u1, u2}
  Sent <- GoodAndBad
  Attempts = {f1, f2}
  Outages = FALSE
SPECIFICATION Spec
CONSTRAINT Bounded
SYMMETRY Interchangeable
INVARIANTS
  ReferencesHold
  OneFilePerUpload
  QuotaKept
\* Every job and upload ends: the system stops when all of them have.
CHECK_DEADLOCK FALSE
