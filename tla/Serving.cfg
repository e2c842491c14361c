CONSTANTS
  Base = "base"
  Node = Node
  Localhost = Localhost
  Loopback <- MCLoopback
  Names <- MCForeignNames
  Paths <- MCPaths
  Segments = {"health", "tools", "api", "routes", "challenge"}
  Reserved <- MCReserved
  Dashboard <- MCDashboard
  Upstreams = {"u1"}
  Configs <- MCConfigs
  Requests = {q1, q2}
  Probers = {w1}
SPECIFICATION Spec
SYMMETRY Symmetry
INVARIANTS ConnectionsAddUp ForwardsOnlyAllowed
