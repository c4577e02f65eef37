CONSTANTS
  f1 = f1
  f2 = f2
  d1 = d1
  t1 = t1
  t2 = t2
  Project = Project
  Root = Root
  Folders = {f1, f2}
  Documents = {d1}
  Transactions = {t1, t2}
  MaxStamp = 1
SPECIFICATION Spec
SYMMETRY Interchangeable
INVARIANTS
  CalmTree
PROPERTIES
  NoLostUpdate
\* Once the project is deleted nothing can be done in it.
CHECK_DEADLOCK FALSE
