CONSTANTS
  c1 = c1
  c2 = c2
  Calls = {c1, c2}
  Users <- People
  MaxChanges = 2
  MaxFailures = 1
SPECIFICATION WebSpec
INVARIANTS
  OwnChangesShown
PROPERTIES
  EndsShown
\* A page that polls nothing comes to rest.
CHECK_DEADLOCK FALSE
