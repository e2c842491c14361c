CONSTANTS
  Hosts = {h1}
  Upstreams = {u1, u2}
  MaxBackups = 1
  LogCap = 2
  LogCut = 1
  MaxLate = 1
  MaxSeconds = 1
  MaxRequests = 4
SPECIFICATION Spec
INVARIANTS TypeOK MemoryFollowsMemogo BackupsAreNewest LogIsNewest
