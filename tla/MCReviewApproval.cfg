CONSTANTS
  ann = ann
  lee = lee
  roy = roy
  k1 = k1
  k2 = k2
  t1 = t1
  t2 = t2
  None = None
  Users = {ann, lee, roy}
  Top = 2
  Author <- ByAnn
  Roles = {"project_lead", "contributor", "reviewer"}
  Offered <- Duties
  Panels <- LeeOrBoth
  Keys = {k1, k2}
  Transactions = {t1, t2}
  MaxReviews = 2
SPECIFICATION Spec
SYMMETRY Interchangeable
INVARIANTS
  VotesDecide
  OncePerKey
PROPERTIES
  EvidenceKept
  PointerFollowsVotes
