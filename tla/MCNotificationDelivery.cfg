CONSTANTS
  e1 = e1
  ann = ann
  w1 = w1
  w2 = w2
  s1 = s1
  s2 = s2
  s3 = s3
  None = None
  Events = {e1}
  Users = {ann}
  Recipients <- ForEveryone
  Workers = {w1, w2}
  Slots = {s1, s2, s3}
  WorkerOf <- TwoAndOne
  MaxAttempts = 2
SPECIFICATION FairSpec
INVARIANTS
  FanOutAtomic
  MailAccounted
PROPERTIES
  KeepsLifecycle
  EveryEventEnds
