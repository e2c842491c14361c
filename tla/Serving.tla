-------------------------------- MODULE Serving --------------------------------
(***************************************************************************)
(* What happens to a request (combinedHandler in cmd/aigoproxy/main.go and *)
(* Proxy.ServeHTTP in internal/proxy/proxy.go) beside the health probes.   *)
(* Requests and probes run on goroutines of their own.  A request works    *)
(* with the route it looked up, whatever becomes of the table since; a     *)
(* probe with the route it was started for.  Both write healthStatus, the  *)
(* map from host to flag: a probe through a *atomic.Bool, errorHandler by  *)
(* storing a bare atomic.Bool, which no reader of the map can read.        *)
(*                                                                         *)
(* The store and Reload are those of module ProxyReload: here the store    *)
(* may change, and a table of any configuration may be installed, at any   *)
(* time.  Statistics other than the open connections decide nothing.       *)
(***************************************************************************)
EXTENDS Naturals, Sequences, FiniteSets

CONSTANTS
  Names,       \* host names with a dot: [label, domain]
  Base,        \* the configured base domain, as a domain ...
  Node,        \* ... and as a host
  Localhost,   \* a local host name without a dot
  Loopback,    \* "127.0.0.1", whose first label is "127"
  Segments,
  Paths,       \* request paths, as sequences of segments
  Reserved,    \* those under /.well-known/acme-challenge/ or /screenshots/
  Dashboard,   \* those of the dashboard and of its API
  Upstreams,
  Configs,     \* the configurations the store may hold, as sets of routes
  Requests,    \* the requests that can be open at a time
  Probers      \* the probes that can be on their way at a time

Hosts == Names \cup {Node, Localhost}
Auths == {"none", "tailscale", "funnel", "odd"}

Route == [host : Hosts, upstream : Upstreams, auth : Auths,
          prefix : Seq(Segments), health : Seq(Segments), enabled : BOOLEAN]

\* rewriteHostAlias: the host's first label, under the configured base domain.
RewriteHostAlias(h) == IF h \in Names THEN [h EXCEPT !.domain = Base] ELSE h

ASSUME HostsAssumption == /\ Node \notin Names /\ Localhost \notin Names
                          /\ Loopback \in Names
                          /\ \A h \in Names : RewriteHostAlias(h) \in Names
ASSUME RequestsAssumption == IsFiniteSet(Requests)
ASSUME PathsAssumption == Paths \subseteq Seq(Segments)
ASSUME ConfigsAssumption ==
  \A c \in Configs : /\ c \subseteq Route
                     /\ \A r, s \in c : r.host = s.host => r = s

VARIABLES
  running,
  config,   \* the routes in the store
  table,    \* Proxy.routes
  request,  \* the open requests that have found a route
  active,   \* activeConns of each host
  health,   \* healthStatus
  probe,    \* the probes on their way
  answers   \* whether each upstream answers a probe within five seconds

vars == <<running, config, table, request, active, health, probe, answers>>

None == [at |-> "none"]
Closed == [q \in Requests |-> None]
NotProbed == [h \in Hosts |-> "none"]
Quiet == [w \in Probers |-> None]

\* A flag that was set through its pointer, and what else a host can have.
Flag(up) == IF up THEN "up" ELSE "down"
Flags == {"up", "down"}
Bare == "bare"

-----------------------------------------------------------------------------
(* Which route serves a request. *)

\* The routes Reload builds an entry for.
Entries(routes) == {r \in routes : r.enabled}

\* strings.HasPrefix.
HasPrefix(path, prefix) ==
  Len(prefix) <= Len(path) /\ SubSeq(path, 1, Len(prefix)) = prefix

\* combinedHandler leaves the request to the reverse proxy.
Proxied(h, path) ==
  /\ path \notin Reserved
  /\ RewriteHostAlias(h) \in {Node, Localhost, Loopback} => path \notin Dashboard

\* Proxy.lookup.  Of entries with the same prefix, any: Go's map order.
Candidates(h, path) ==
  LET exact == {e \in table : e.host = h}
      prefixed == {e \in table : e.prefix # <<>> /\ HasPrefix(path, e.prefix)}
  IN  IF exact # {}
        THEN exact
        ELSE {e \in prefixed : \A f \in prefixed : Len(f.prefix) <= Len(e.prefix)}

CheckAuth(e, tailnet) ==
  e.auth \in {"none", "funnel"} \/ (e.auth = "tailscale" /\ tailnet)

AsksHealth(r) == r.entry.health # <<>> /\ r.path = r.entry.health

-----------------------------------------------------------------------------
(* The process, the store and the upstreams. *)

Init ==
  /\ running = FALSE
  /\ config \in Configs
  /\ table = {}
  /\ request = Closed
  /\ active = [h \in Hosts |-> 0]
  /\ health = NotProbed
  /\ probe = Quiet
  /\ answers \in [Upstreams -> BOOLEAN]

Start ==
  /\ ~running
  /\ running' = TRUE
  /\ table' = Entries(config)
  /\ UNCHANGED <<config, request, active, health, probe, answers>>

Halt ==
  /\ running' = FALSE
  /\ table' = {}
  /\ request' = Closed
  /\ active' = [h \in Hosts |-> 0]
  /\ health' = NotProbed
  /\ probe' = Quiet
  /\ UNCHANGED <<config, answers>>

Terminate == running /\ Halt

Change(c) ==
  /\ running
  /\ config' = c
  /\ UNCHANGED <<running, table, request, active, health, probe, answers>>

\* Proxy.Reload, from a copy of the store that may be an old one.
Reload(c) ==
  /\ running
  /\ table' = Entries(c)
  /\ UNCHANGED <<running, config, request, active, health, probe, answers>>

UpstreamTurns(u) ==
  /\ answers' = [answers EXCEPT ![u] = ~@]
  /\ UNCHANGED <<running, config, table, request, active, health, probe>>

-----------------------------------------------------------------------------
(* Requests. *)

\* A request that finds no route is answered with the list of routes, and the
\* other handlers' requests by those: neither leaves anything behind here.
Accept(q, h, path, tailnet) ==
  /\ running
  /\ request[q] = None
  /\ Proxied(h, path)
  /\ \E e \in Candidates(RewriteHostAlias(h), path) :
       /\ request' = [request EXCEPT ![q] = [at |-> "check", host |-> RewriteHostAlias(h),
                        path |-> path, tailnet |-> tailnet, entry |-> e]]
       /\ active' = [active EXCEPT ![e.host] = @ + 1]
  /\ UNCHANGED <<running, config, table, health, probe, answers>>

\* The request is over, and the deferred activeConns.Add(-1) runs.
Leave(q) ==
  /\ request' = [request EXCEPT ![q] = None]
  /\ active' = [active EXCEPT ![request[q].entry.host] = @ - 1]
  /\ UNCHANGED <<running, config, table, probe, answers>>

\* Faulty: the early return skips the decrement.
FaultyDenyKeepsCount(q) ==
  /\ request[q].at = "check"
  /\ ~CheckAuth(request[q].entry, request[q].tailnet)
  /\ request' = [request EXCEPT ![q] = None]
  /\ UNCHANGED <<running, config, table, active, health, probe, answers>>

Deny(q) ==
  /\ request[q].at = "check"
  /\ ~CheckAuth(request[q].entry, request[q].tailnet)
  /\ Leave(q)
  /\ UNCHANGED health

\* The answer is isHealthy(host); where that panics, net/http recovers and
\* drops the connection.
AnswerHealth(q) ==
  /\ request[q].at = "check"
  /\ CheckAuth(request[q].entry, request[q].tailnet)
  /\ AsksHealth(request[q])
  /\ Leave(q)
  /\ UNCHANGED health

\* Faulty: the route is looked up again after the check.
FaultyForwardLooksAgain(q) ==
  /\ request[q].at = "check"
  /\ CheckAuth(request[q].entry, request[q].tailnet)
  /\ ~AsksHealth(request[q])
  /\ \E e \in table : /\ e.host = request[q].entry.host
                      /\ request' = [request EXCEPT ![q].at = "upstream", ![q].entry = e]
  /\ UNCHANGED <<running, config, table, active, health, probe, answers>>

Forward(q) ==
  /\ request[q].at = "check"
  /\ CheckAuth(request[q].entry, request[q].tailnet)
  /\ ~AsksHealth(request[q])
  /\ request' = [request EXCEPT ![q].at = "upstream"]
  /\ UNCHANGED <<running, config, table, active, health, probe, answers>>

\* The upstream's response has been copied, or cut short.
Respond(q) ==
  /\ request[q].at = "upstream"
  /\ Leave(q)
  /\ UNCHANGED health

\* errorHandler: the upstream could not be reached, or the client went away.
Fail(q) ==
  /\ request[q].at = "upstream"
  /\ Leave(q)
  /\ health' = [health EXCEPT ![request[q].entry.host] = Bare]

-----------------------------------------------------------------------------
(* Probes. *)

\* The routes probeAll starts a goroutine for.
Probed(routes) == {r \in routes : r.enabled /\ r.health # <<>>}

ProbeAll ==
  /\ running
  /\ Probed(config) # {}
  /\ \E f \in [Probed(config) -> {w \in Probers : probe[w] = None}] :
       /\ \A r, s \in Probed(config) : f[r] = f[s] => r = s
       /\ probe' = [w \in Probers |->
                      IF \E r \in Probed(config) : f[r] = w
                        THEN [at |-> "ask", route |-> CHOOSE r \in Probed(config) : f[r] = w]
                        ELSE probe[w]]
  /\ UNCHANGED <<running, config, table, request, active, health, answers>>

Ask(w) ==
  /\ probe[w].at = "ask"
  /\ probe' = [probe EXCEPT ![w] =
                 [at |-> "load", route |-> @.route, up |-> answers[@.route.upstream]]]
  /\ UNCHANGED <<running, config, table, request, active, health, answers>>

\* Faulty: a missing flag is not put in the map.
FaultyLoadOnly(w) ==
  /\ probe[w].at = "load"
  /\ health[probe[w].route.host] # Bare
  /\ probe' = [probe EXCEPT ![w].at = "set"]
  /\ UNCHANGED <<running, config, table, request, active, health, answers>>

\* Faulty: a new flag is put in the map and an old one is left as it was.
FaultyLoadOrStoreOnce(w) ==
  LET h == probe[w].route.host
  IN  /\ probe[w].at = "load"
      /\ health[h] # Bare
      /\ health' = [health EXCEPT ![h] = IF @ = "none" THEN Flag(probe[w].up) ELSE @]
      /\ probe' = [probe EXCEPT ![w] = None]
      /\ UNCHANGED <<running, config, table, request, active, answers>>

\* LoadOrStore: a new flag says "down" until it is set.
LoadOrStore(w) ==
  LET h == probe[w].route.host
  IN  /\ probe[w].at = "load"
      /\ health[h] # Bare
      /\ health' = [health EXCEPT ![h] = IF @ = "none" THEN "down" ELSE @]
      /\ probe' = [probe EXCEPT ![w].at = "set"]
      /\ UNCHANGED <<running, config, table, request, active, answers>>

\* v.(*atomic.Bool) panics in a goroutine nobody recovers: the daemon dies.
Panic(w) ==
  /\ probe[w].at = "load"
  /\ health[probe[w].route.host] = Bare
  /\ Halt

\* The flag is set, unless errorHandler has replaced it in the map.
SetFlag(w) ==
  LET h == probe[w].route.host
  IN  /\ probe[w].at = "set"
      /\ health' = [health EXCEPT ![h] = IF @ = Bare THEN Bare ELSE Flag(probe[w].up)]
      /\ probe' = [probe EXCEPT ![w] = None]
      /\ UNCHANGED <<running, config, table, request, active, answers>>

-----------------------------------------------------------------------------

Next ==
  \/ Start
  \/ Terminate
  \/ \E c \in Configs : Change(c) \/ Reload(c)
  \/ \E u \in Upstreams : UpstreamTurns(u)
  \/ \E q \in Requests :
       \/ \E h \in Hosts, path \in Paths, tailnet \in BOOLEAN : Accept(q, h, path, tailnet)
       \/ Deny(q) \/ AnswerHealth(q) \/ Forward(q) \/ Respond(q) \/ Fail(q)
  \/ ProbeAll
  \/ \E w \in Probers : Ask(w) \/ LoadOrStore(w) \/ Panic(w) \/ SetFlag(w)

Spec == Init /\ [][Next]_vars

\* The ticker keeps ticking, and a probe waits five seconds at most.
FairSpec ==
  /\ Spec
  /\ WF_vars(ProbeAll)
  /\ \A w \in Probers : WF_vars(Ask(w) \/ LoadOrStore(w) \/ Panic(w) \/ SetFlag(w))

-----------------------------------------------------------------------------
(* Properties. *)

Request == {None} \cup
  [at : {"check", "upstream"}, host : Hosts, path : Paths, tailnet : BOOLEAN, entry : Route]

Probe == {None} \cup [at : {"ask"}, route : Route]
                \cup [at : {"load", "set"}, route : Route, up : BOOLEAN]

\* Every variable has its type; nothing is left of a daemon that has stopped;
\* a probe that has found a flag still finds one, pointer or not.
TypeOK ==
  /\ running \in BOOLEAN
  /\ config \in Configs
  /\ table \subseteq Route
  /\ request \in [Requests -> Request]
  /\ active \in [Hosts -> Nat]
  /\ health \in [Hosts -> Flags \cup {"none", Bare}]
  /\ probe \in [Probers -> Probe]
  /\ answers \in [Upstreams -> BOOLEAN]
  /\ ~running => /\ table = {} /\ request = Closed
                 /\ active = [h \in Hosts |-> 0]
                 /\ health = NotProbed /\ probe = Quiet
  /\ \A w \in Probers : probe[w].at = "set" => health[probe[w].route.host] # "none"

\* The dashboard's open connections: whatever way a request ends, and whatever
\* becomes of its route meanwhile, each host's count is that of its requests.
ConnectionsAddUp ==
  \A h \in Hosts :
    active[h] = Cardinality({q \in Requests : request[q] # None /\ request[q].entry.host = h})

\* A request reaches an upstream only past the check of the very route it is
\* forwarded by, also when routes are replaced while it waits; challenges and
\* screenshots never do, and the dashboard's paths only on a virtual host.
ForwardsOnlyAllowed ==
  \A q \in Requests : request[q].at = "upstream" =>
    /\ CheckAuth(request[q].entry, request[q].tailnet)
    /\ request[q].path \notin Reserved
    /\ request[q].host \in {Node, Localhost} => request[q].path \notin Dashboard

\* While the daemon lives on, the store rests and a route's upstream keeps
\* answering, or keeps not answering, probes end up saying so, in whatever
\* order earlier probes of this or another upstream return.
HealthSettles ==
  \A c \in Configs, up \in BOOLEAN : \A r \in Probed(c) :
    <>[](running /\ config = c /\ answers[r.upstream] = up)
      => <>[](health[r.host] = Flag(up))

\* internal/proxy/proxy.go:38: "healthStatus is a per-route atomic health flag
\* (0 = down, 1 = up)."
HealthIsAFlag == \A h \in Hosts : health[h] \in Flags \cup {"none"}

\* cmd/aigoproxy/main.go:344: the Host header is rewritten "so the lookup
\* matches": a request for the host of an installed route finds that route.
OwnHostFindsRoute ==
  \A e \in table, path \in Paths :
    Proxied(e.host, path) => Candidates(RewriteHostAlias(e.host), path) = {e}

\* internal/proxy/proxy.go:274: lookup "tries the longest matching path first.
\* Falls back to exact host match."
LongestPathFirst ==
  [][\A q \in Requests : request[q] = None /\ request'[q] # None =>
       LET r == request'[q]
           prefixed == {e \in table : e.prefix # <<>> /\ HasPrefix(r.path, e.prefix)}
       IN  prefixed # {} => \A e \in prefixed :
             HasPrefix(r.path, r.entry.prefix) /\ Len(e.prefix) <= Len(r.entry.prefix)]_vars
=============================================================================
