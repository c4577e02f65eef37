CONSTANTS
  u1 = u1
  u2 = u2
  u3 = u3
  s1 = s1
  s2 = s2
  i1 = i1
  r1 = r1
  r2 = r2
  None = None
  Users = {u1, u2, u3}
  Founder = u1
  Policy <- Admission
  Lower = {"contributor"}
  Sessions = {s1, s2}
  Invites = {i1}
  Requests = {r1, r2}
  MaxBegun = 5
SPECIFICATION Spec
SYMMETRY Interchangeable
INVARIANTS
  OwnerRemains
  InvitationsEndOnce
PROPERTIES
  AdminsKeepBelow
\* Every session may end and every request be used up.
CHECK_DEADLOCK FALSE
