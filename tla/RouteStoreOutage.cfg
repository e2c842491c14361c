CONSTANTS
  h1 = h1
  b1 = b1
  b2 = b2
  Hosts = {h1}
  BlankHost = BlankHost
  GoodBodies = {b1}
  OddBodies = {}
  NoUpstream = NoUpstream
  OldGhosts = FALSE
  MetaKept = FALSE
  MaxLate = 0
  MaxDelayed = 0
SPECIFICATION FairSpec
PROPERTY OutageServesMirror
