CONSTANTS
  Base = "base"
  Node = Node
  Localhost = Localhost
  Loopback <- MCLoopback
  Names <- MCNames
  Paths <- MCMovesPaths
  Segments = {"health", "tools", "api", "routes", "challenge"}
  Reserved <- MCReserved
  Dashboard <- MCDashboard
  Upstreams = {"u1", "u2"}
  Configs <- MCMoves
  Requests = {q1}
  Probers = {w1, w2}
SPECIFICATION FairSpec
INVARIANT TypeOK
PROPERTY HealthSettles
