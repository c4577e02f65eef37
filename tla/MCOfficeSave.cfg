CONSTANTS
  f1 = f1
  f2 = f2
  r1 = r1
  r2 = r2
  e1 = e1
  e2 = e2
  None = None
  Files = {f1, f2}
  Edits = {e1, e2}
  Runs = {r1, r2}
  MaxVersions = 3
SPECIFICATION Spec
SYMMETRY Interchangeable
INVARIANTS
  NothingOverwritten
  NoDuplicateOnLine
\* Every version may be stored and every pane closed.
CHECK_DEADLOCK FALSE
