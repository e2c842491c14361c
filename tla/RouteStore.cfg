CONSTANTS
  h1 = h1
  b1 = b1
  b2 = b2
  Hosts = {h1}
  BlankHost = BlankHost
  GoodBodies = {b1}
  OddBodies = {}
  NoUpstream = NoUpstream
  OldGhosts = TRUE
  MetaKept = FALSE
  MaxLate = 1
  MaxDelayed = 0
SPECIFICATION Spec
INVARIANTS TypeOK Agreement UniqueHosts
PROPERTIES PurgeSparesLiveRoutes ImplementsTable
