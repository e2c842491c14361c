CONSTANTS
  Hosts = {h1}
  NumPorts = 1
  Pages <- MCPages
  Policies = {"none"}
  Clients = {c1}
  Scanners = {s1, s2}
  MaxOwed = 1
  MaxPanics = 1
SPECIFICATION FairSpec
INVARIANTS TypeOK AutoOpensOnlyIfShown
PROPERTIES SuggestionsFollowRoutes
