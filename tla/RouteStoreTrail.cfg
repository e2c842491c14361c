CONSTANTS
  h1 = h1
  b1 = b1
  b2 = b2
  Hosts = {h1}
  BlankHost = BlankHost
  GoodBodies = {b1}
  OddBodies = {b2}
  NoUpstream = NoUpstream
  OldGhosts = FALSE
  MetaKept = FALSE
  MaxLate = 1
  MaxDelayed = 2
SPECIFICATION FairSpec
INVARIANT AuditTellsTruth
PROPERTY LockReleased
