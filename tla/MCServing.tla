------------------------------- MODULE MCServing -------------------------------
(* Small instances of Serving: one service that is probed, and routes found by *)
(* path, the longer prefix under the stricter policy.                          *)
EXTENDS Serving, TLC

Name(l, d) == [label |-> l, domain |-> d]
MCLoopback == Name("127", "0.0.1")
MCNames == {Name("app", "base"), MCLoopback, Name("127", "base")}
MCForeignNames == MCNames \cup {Name("app", "other")}

Health == <<"health">>
Api == <<"tools", "api">>
Challenge == <<"challenge">>
Routes == <<"routes">>
MCReserved == {Challenge}
MCDashboard == {Routes}
MCPaths == {Health, Api, Routes, Challenge}

App(upstream, auth) ==
  [host |-> Name("app", "base"), upstream |-> upstream, auth |-> auth,
   prefix |-> <<>>, health |-> Health, enabled |-> TRUE]
Unprobed(r) == [r EXCEPT !.health = <<>>]
Tool(host, prefix, auth) ==
  [host |-> host, upstream |-> "u1", auth |-> auth,
   prefix |-> prefix, health |-> <<>>, enabled |-> TRUE]
Off(r) == [r EXCEPT !.enabled = FALSE]

Tools == Tool(Name("127", "base"), <<"tools">>, "funnel")
ToolsApi == Tool(Node, Api, "tailscale")

\* A route whose host is not under the base domain.
Foreign == Tool(Name("app", "other"), <<>>, "none")

MCConfigs == { {Unprobed(App("u1", "tailscale")), Tools, Off(ToolsApi)},
               {Unprobed(App("u1", "none")), Tools, ToolsApi},
               {Unprobed(App("u1", "none")), Foreign} }

\* The same service, moved to another upstream.
MCMoves == { {App("u1", "tailscale")}, {App("u2", "none")} }
MCMovesPaths == {Health, Api}

Symmetry == Permutations(Requests)

MCForeignConfigs == { {Foreign}, {Foreign, App("u1", "tailscale")} }
=============================================================================
