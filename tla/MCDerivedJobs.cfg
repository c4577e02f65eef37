CONSTANTS
  c1 = c1
  r1 = r1
  r2 = r2
  m1 = m1
  file = file
  w1 = w1
  w2 = w2
  s1 = s1
  s2 = s2
  x = x
  y = y
  None = None
  Comparisons = {c1}
  Renditions = {r1, r2}
  Merges = {m1}
  SourceOf <- OneSource
  Contents = {x, y}
  Workers = {w1, w2}
  Slots = {s1, s2}
  WorkerOf <- OneEach
  MaxAttempts = 2
  Quota = 1
  MaxRequests = 2
SPECIFICATION DerivedSpec
SYMMETRY Interchangeable
INVARIANTS
  RowsAgree
  ResultsIntact
PROPERTIES
  KeepsLifecycle
\* Every job ends: the system stops when all of them have.
CHECK_DEADLOCK FALSE
