------------------------------- MODULE Onboarding -------------------------------
(***************************************************************************)
(* How services come to be registered: the port scan that suggests them    *)
(* (rescanPorts in internal/webui/server.go), and the two ways to register *)
(* one, POST /api/routes and the MCP tool aigoproxy_register, which asks   *)
(* the detector and picks an auth policy.  Scans and registrations run on  *)
(* goroutines of their own and take seconds, while routes come and go and  *)
(* upstreams change.  A scan reads the routes when it starts and writes    *)
(* lastRescan when it ends; the scan that ends last wins.                  *)
(*                                                                         *)
(* AddRoute and RemoveRoute are those of module RouteStore, here in one    *)
(* step; the proxy's reload and the screenshots an addition also causes    *)
(* are no part of this module.                                             *)
(***************************************************************************)
EXTENDS Naturals, FiniteSets, Detector

CONSTANTS
  Hosts,
  NumPorts,    \* how many local ports a scan visits, in their order
  Pages,       \* what the service on a port may be like
  Policies,    \* the auth policies callers name
  Clients,     \* the registrations that can be under way at a time
  Scanners,    \* the scans that can be under way at a time
  MaxOwed,     \* how many additions may have their scan still to come
  MaxPanics    \* how many scans may end in a panic

Ports == 1 .. NumPorts
Auths == {"none", "tailscale", "funnel"}

ASSUME CountsAssumption == NumPorts \in Nat /\ MaxOwed \in Nat /\ MaxPanics \in Nat
ASSUME PagesAssumption == Pages \subseteq Page
ASSUME PoliciesAssumption == Policies \subseteq Auths

VARIABLES
  page,        \* what is on each port
  routes,      \* the store's routes, by host
  register,    \* the registrations under way
  owed,        \* how many afterRouteAdded have not come to their scan
  scan,        \* the scans under way
  lastRescan,  \* the suggestions
  shown,       \* history: the ports where a login has been seen
  panics       \* history: how many scans have ended in a panic

history == <<shown, panics>>
vars == <<page, routes, register, owed, scan, lastRescan, history>>

\* by is where the policy comes from: a caller named it, AddRoute filled it in,
\* or aigoproxy_register chose it.
Route == [port : Ports, prefixed : BOOLEAN, auth : Auths,
          by : {"caller", "default", "register"}]
NoRoute == [port |-> 0]

\* What a caller of aigoproxy_register may name as auth: "" is like "auto".
Wishes == Policies \cup {"auto"}

None == [at |-> "none"]
Registration ==
  {None} \cup [at : {"inspect"}, host : Hosts, port : Ports, prefixed : BOOLEAN, wish : Wishes]
         \cup [at : {"add"}, host : Hosts, port : Ports, prefixed : BOOLEAN,
               wish : Wishes, login : BOOLEAN]

Suggestion == [port : Ports, auth : {"none", "tailscale"}]
Scan == {None} \cup [at : {"dial", "look"}, port : 1 .. NumPorts + 1,
                     used : SUBSET Ports, found : SUBSET Suggestion]

Registered(h) == routes[h] # NoRoute

\* Faulty: only the routes found by their host count.
FaultyUsedPortsOfHosts ==
  {routes[h].port : h \in {h \in Hosts : Registered(h) /\ ~routes[h].prefixed}}

\* The ports of the routes, enabled or not.
UsedPorts == {routes[h].port : h \in {h \in Hosts : Registered(h)}}

LoginPorts(pages) == {p \in Ports : HasAuth(pages[p])}

Init ==
  /\ page \in [Ports -> Pages \cup {Closed}]
  /\ routes = [h \in Hosts |-> NoRoute]
  /\ register = [c \in Clients |-> None]
  /\ owed = 0
  /\ scan = [s \in Scanners |-> None]
  /\ lastRescan = {}
  /\ shown = LoginPorts(page)
  /\ panics = 0

UpstreamChanges(p, pg) ==
  /\ page' = [page EXCEPT ![p] = pg]
  /\ shown' = shown \cup LoginPorts(page')
  /\ UNCHANGED <<routes, register, owed, scan, lastRescan, panics>>

-----------------------------------------------------------------------------
(* Registering. *)

\* AddRoute refuses a host that is taken; it also fails when Memogo does.
AddRoute(h, r) ==
  \/ ~Registered(h) /\ routes' = [routes EXCEPT ![h] = r]
  \/ UNCHANGED routes

\* POST /api/routes, and aigoproxy_add and the like: the caller's policy is
\* taken as it is, and a missing one is "none".  Only the web UI scans again,
\* once it has a screenshot.
AddAsked(h, p, prefixed, auth, web) ==
  /\ AddRoute(h, [port |-> p, prefixed |-> prefixed,
                  auth |-> IF auth = "missing" THEN "none" ELSE auth,
                  by |-> IF auth = "missing" THEN "default" ELSE "caller"])
  /\ IF web /\ routes' # routes
     THEN owed < MaxOwed /\ owed' = owed + 1
     ELSE UNCHANGED owed
  /\ UNCHANGED <<page, register, scan, lastRescan, history>>

RemoveRoute(h) ==
  /\ Registered(h)
  /\ routes' = [routes EXCEPT ![h] = NoRoute]
  /\ UNCHANGED <<page, register, owed, scan, lastRescan, history>>

Register(c, h, p, prefixed, wish) ==
  /\ register[c] = None
  /\ register' = [register EXCEPT ![c] =
       [at |-> "inspect", host |-> h, port |-> p, prefixed |-> prefixed, wish |-> wish]]
  /\ UNCHANGED <<page, routes, owed, scan, lastRescan, history>>

\* The result of Inspect matters by whether there is one that HasAuth.
RegisterInspects(c) ==
  LET r == register[c]
  IN  /\ r.at = "inspect"
      /\ register' = [register EXCEPT ![c] =
           [at |-> "add", host |-> r.host, port |-> r.port, prefixed |-> r.prefixed,
            wish |-> r.wish, login |-> HasAuth(page[r.port])]]
      /\ UNCHANGED <<page, routes, owed, scan, lastRescan, history>>

\* Faulty: what cannot be inspected is left to look after itself.
FaultyAppliedAuth(r) ==
  CASE r.wish # "auto"                  -> r.wish
    [] r.wish = "auto" /\ r.prefixed    -> "funnel"
    [] r.wish = "auto" /\ ~r.prefixed   ->
         IF r.login \/ page[r.port] = Closed THEN "none" ELSE "tailscale"

\* A path prefix means that the route is public, a login of its own that it
\* needs no other; anything else must come from the tailnet.
AppliedAuth(r) ==
  CASE r.wish # "auto"                             -> r.wish
    [] r.wish = "auto" /\ r.prefixed               -> "funnel"
    [] r.wish = "auto" /\ ~r.prefixed /\ r.login   -> "none"
    [] r.wish = "auto" /\ ~r.prefixed /\ ~r.login  -> "tailscale"

\* onChange then reloads the proxy and takes screenshots, and does not scan.
RegisterAdds(c) ==
  LET r == register[c]
  IN  /\ r.at = "add"
      /\ AddRoute(r.host, [port |-> r.port, prefixed |-> r.prefixed,
                           auth |-> AppliedAuth(r),
                           by |-> IF r.wish = "auto" THEN "register" ELSE "caller"])
      /\ register' = [register EXCEPT ![c] = None]
      /\ UNCHANGED <<page, owed, scan, lastRescan, history>>

-----------------------------------------------------------------------------
(* Scanning. *)

BeginScan(s) ==
  /\ scan[s] = None
  /\ scan' = [scan EXCEPT ![s] =
       [at |-> "dial", port |-> 1, used |-> UsedPorts, found |-> {}]]

\* POST /api/rescan.
AskScan(s) ==
  /\ BeginScan(s)
  /\ UNCHANGED <<page, routes, register, owed, lastRescan, history>>

\* Faulty: scans that nothing has asked for.
FaultyOwedScanUnasked(s) ==
  /\ BeginScan(s)
  /\ owed' = owed - 1
  /\ UNCHANGED <<page, routes, register, lastRescan, history>>

\* afterRouteAdded, done with its screenshot.
OwedScan(s) ==
  /\ owed > 0
  /\ BeginScan(s)
  /\ owed' = owed - 1
  /\ UNCHANGED <<page, routes, register, lastRescan, history>>

Scanning(s, at) == scan[s].at = at /\ scan[s].port \in Ports

\* A port that is used or closed is passed over ...
Dial(s) ==
  /\ Scanning(s, "dial")
  /\ scan' = IF scan[s].port \in scan[s].used \/ page[scan[s].port] = Closed
             THEN [scan EXCEPT ![s].port = @ + 1]
             ELSE [scan EXCEPT ![s].at = "look"]
  /\ UNCHANGED <<page, routes, register, owed, lastRescan, history>>

\* ... another is suggested, also when it cannot be inspected any more.
Look(s) ==
  /\ Scanning(s, "look")
  /\ LET p == scan[s].port
     IN  scan' = [scan EXCEPT ![s].at = "dial", ![s].port = p + 1,
                    ![s].found = @ \cup {[port |-> p, auth |-> RecommendedAuth(page[p])]}]
  /\ UNCHANGED <<page, routes, register, owed, lastRescan, history>>

EndScan(s) ==
  /\ scan[s] # None /\ scan[s].port = NumPorts + 1
  /\ lastRescan' = scan[s].found
  /\ scan' = [scan EXCEPT ![s] = None]
  /\ UNCHANGED <<page, routes, register, owed, history>>

\* A panic, at any point, ends the scan alone and leaves lastRescan as it was.
ScanPanics(s) ==
  /\ scan[s] # None
  /\ panics < MaxPanics
  /\ panics' = panics + 1
  /\ scan' = [scan EXCEPT ![s] = None]
  /\ UNCHANGED <<page, routes, register, owed, lastRescan, shown>>

-----------------------------------------------------------------------------

\* The process ends and starts again: the routes are Memogo's.
Restart ==
  /\ register' = [c \in Clients |-> None]
  /\ owed' = 0
  /\ scan' = [s \in Scanners |-> None]
  /\ lastRescan' = {}
  /\ UNCHANGED <<page, routes, history>>

ScanStep(s) == OwedScan(s) \/ Dial(s) \/ Look(s) \/ EndScan(s)

Registering(c) ==
  \/ \E h \in Hosts, p \in Ports, prefixed \in BOOLEAN, wish \in Wishes :
       Register(c, h, p, prefixed, wish)
  \/ RegisterInspects(c)
  \/ RegisterAdds(c)

Next ==
  \/ \E p \in Ports, pg \in Pages \cup {Closed} : UpstreamChanges(p, pg)
  \/ \E h \in Hosts, p \in Ports, prefixed, web \in BOOLEAN, auth \in Policies \cup {"missing"} :
       AddAsked(h, p, prefixed, auth, web)
  \/ \E h \in Hosts : RemoveRoute(h)
  \/ \E c \in Clients : Registering(c)
  \/ \E s \in Scanners : AskScan(s) \/ ScanStep(s) \/ ScanPanics(s)
  \/ Restart

Spec == Init /\ [][Next]_vars

\* Every dial, request and screenshot has a time limit.
FairSpec == Spec /\ \A s \in Scanners : WF_vars(ScanStep(s))

-----------------------------------------------------------------------------
(* Properties. *)

\* Every variable has its type.
TypeOK ==
  /\ page \in [Ports -> Page \cup {Closed}]
  /\ routes \in [Hosts -> Route \cup {NoRoute}]
  /\ register \in [Clients -> Registration]
  /\ owed \in 0 .. MaxOwed
  /\ scan \in [Scanners -> Scan]
  /\ lastRescan \subseteq Suggestion
  /\ shown \subseteq Ports /\ panics \in 0 .. MaxPanics

\* The policies that let everybody through (proxy.go:357-366).
Open == {"none", "funnel"}

\* What aigoproxy_register chooses by itself opens a route to everybody only
\* when the route has a path prefix or the upstream has shown a login of its
\* own, and no suggestion recommends otherwise, although upstreams change
\* between the inspection and the registration, and fail.  Nothing of the kind
\* holds for AddRoute, which opens a route whose caller left the policy out.
AutoOpensOnlyIfShown ==
  /\ \A h \in Hosts : Registered(h) /\ routes[h].by = "register" /\ routes[h].auth \in Open
                        => routes[h].prefixed \/ routes[h].port \in shown
  /\ \A sg \in lastRescan : sg.auth = "none" => sg.port \in shown

\* The scan that follows an addition in the web UI (server.go:418-430) is not
\* lost among others: it comes to its end, unless some scan panics or the
\* process ends, and takes the service off the list.  Not for good: a scan that
\* began before the addition and ends still later puts it back.
SuggestionsFollowRoutes ==
  \A p \in Ports, n \in 0 .. MaxPanics :
    LET taken == \E h \in Hosts : Registered(h) /\ routes[h].port = p
    IN  (taken /\ owed > 0 /\ panics = n)
          ~> (~taken \/ panics # n \/ \A sg \in lastRescan : sg.port # p)
=============================================================================
