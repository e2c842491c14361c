------------------------------ MODULE ProxyReload ------------------------------
(***************************************************************************)
(* The reverse proxy's route table (Proxy.routes, internal/proxy/proxy.go) *)
(* beside the store it is built from, seen as RouteTable.  Proxy.Reload    *)
(* copies Store.Config() and installs what it has built from the copy; the *)
(* two steps lock different mutexes, and nothing orders one Reload after   *)
(* another.  Who calls it depends on the surface a change came through:    *)
(*                                                                         *)
(*   web UI POST, MCP register   a goroutine of its own for each change    *)
(*   MCP add, ACP add, TUI add   nobody                                    *)
(*   every remove, every prune   nobody                                    *)
(*   SIGHUP                      one goroutine, after a LoadConfig         *)
(***************************************************************************)
EXTENDS FiniteSets

CONSTANTS
  Keys,        \* the hosts of routes
  Bodies,      \* routes without their host
  NoUpstream,  \* the body of a ghost route
  Unparsable,  \* the bodies whose upstream url.Parse rejects
  Workers,     \* the goroutines that reload after a change: at most these at once
  Hup          \* the goroutine that handles SIGHUP

ASSUME HupAssumption == Hup \notin Workers

VARIABLES
  durable, known, running, doubt,  \* the store
  table,     \* Proxy.routes
  pc,        \* where each goroutine is in Reload
  snapshot   \* the copy of the store's configuration it works from

Goroutines == Workers \cup {Hup}

IsGhost(r) == r.body = NoUpstream

Store == INSTANCE RouteTable

store == <<durable, known, running, doubt>>
vars == <<store, table, pc, snapshot>>

\* The routes Reload builds an entry for.
Entries(routes) == {r \in routes : r.body \notin Unparsable}

\* main loads the table before it opens any surface.
Init ==
  /\ Store!Init
  /\ table = {}
  /\ pc = [g \in Goroutines |-> "idle"]
  /\ snapshot = [g \in Goroutines |-> {}]

Start ==
  /\ ~running
  /\ Store!Load
  /\ table' = Entries(known')
  /\ UNCHANGED <<pc, snapshot>>

-----------------------------------------------------------------------------
(* Changes, by what the surface they come through does about the proxy. *)

\* handleAPIRoutes POST and aigoproxy_register answer, and leave the reload to
\* a new goroutine.
AddAndReload(r, g) ==
  /\ g \in Workers
  /\ pc[g] = "idle"
  /\ Store!Register(r)
  /\ pc' = [pc EXCEPT ![g] = "read"]
  /\ UNCHANGED <<table, snapshot>>

AddOnly(r) == Store!Register(r) /\ UNCHANGED <<table, pc, snapshot>>

Remove(k) == Store!Unregister(k) /\ UNCHANGED <<table, pc, snapshot>>

Prune == Store!ForgetGhosts /\ UNCHANGED <<table, pc, snapshot>>

\* Writes nobody answered, and what they do to the durable table.
Trouble(k) ==
  /\ Store!Timeout(k) \/ Store!Stray(k) \/ Store!DropGhost(k)
  /\ UNCHANGED <<table, pc, snapshot>>

\* SIGHUP: LoadConfig, then Reload in the same goroutine.
Sighup ==
  /\ running
  /\ pc[Hup] = "idle"
  /\ Store!Load
  /\ pc' = [pc EXCEPT ![Hup] = "read"]
  /\ UNCHANGED <<table, snapshot>>

-----------------------------------------------------------------------------
(* Reload. *)

\* Faulty: the table is emptied first and filled later.
FaultyReadClearsTable(g) ==
  /\ pc[g] = "read"
  /\ snapshot' = [snapshot EXCEPT ![g] = known]
  /\ pc' = [pc EXCEPT ![g] = "install"]
  /\ table' = {}
  /\ UNCHANGED store

\* store.Config(), under the store's lock only.
Read(g) ==
  /\ pc[g] = "read"
  /\ snapshot' = [snapshot EXCEPT ![g] = known]
  /\ pc' = [pc EXCEPT ![g] = "install"]
  /\ UNCHANGED <<store, table>>

\* Faulty: entries are added to the live table and none is taken out.
FaultyInstallMerges(g) ==
  /\ pc[g] = "install"
  /\ table' = table \cup Entries(snapshot[g])
  /\ pc' = [pc EXCEPT ![g] = "idle"]
  /\ snapshot' = [snapshot EXCEPT ![g] = {}]
  /\ UNCHANGED store

\* Faulty: the goroutine ends and its copy stays around.
FaultyInstallKeepsCopy(g) ==
  /\ pc[g] = "install"
  /\ table' = Entries(snapshot[g])
  /\ pc' = [pc EXCEPT ![g] = "idle"]
  /\ UNCHANGED <<store, snapshot>>

\* p.routes = entries, under the proxy's lock only.
Install(g) ==
  /\ pc[g] = "install"
  /\ table' = Entries(snapshot[g])
  /\ pc' = [pc EXCEPT ![g] = "idle"]
  /\ snapshot' = [snapshot EXCEPT ![g] = {}]
  /\ UNCHANGED store

Crash ==
  /\ Store!Stop
  /\ table' = {}
  /\ pc' = [g \in Goroutines |-> "idle"]
  /\ snapshot' = [g \in Goroutines |-> {}]

-----------------------------------------------------------------------------

Next ==
  \/ Start
  \/ \E r \in Store!Route : AddOnly(r) \/ \E g \in Workers : AddAndReload(r, g)
  \/ \E k \in Keys : Remove(k) \/ Trouble(k)
  \/ Prune
  \/ Sighup
  \/ \E g \in Goroutines : Read(g) \/ Install(g)
  \/ Crash

Spec == Init /\ [][Next]_vars

\* A goroutine in Reload waits for two mutexes, each held for a bounded time.
FairSpec == Spec /\ \A g \in Goroutines : WF_vars(Read(g) \/ Install(g))

-----------------------------------------------------------------------------
(* Properties. *)

\* Every variable has its type; a snapshot exists only between the two steps.
TypeOK ==
  /\ durable \subseteq Store!Route /\ known \subseteq Store!Route
  /\ running \in BOOLEAN /\ doubt \subseteq Keys
  /\ table \subseteq Entries(Store!Route)
  /\ pc \in [Goroutines -> {"idle", "read", "install"}]
  /\ snapshot \in [Goroutines -> SUBSET Store!Route]
  /\ \A g \in Goroutines : pc[g] # "install" => snapshot[g] = {}

\* The proxy, and every reload about to install its copy, say the same of
\* route r as the store does.
Settled(r) ==
  /\ r \in table <=> r \in known
  /\ \A g \in Goroutines : pc[g] = "install" => (r \in snapshot[g] <=> r \in known)

\* A route can only be lost or come back through an older copy: once settled,
\* it stays as it is, whatever reloads overlap, until the store itself changes
\* what it says of that route.
SettledRoutesStay ==
  [][\A r \in Entries(Store!Route) :
       Settled(r) /\ (r \in known <=> r \in known') => Settled(r)']_vars

\* An operator who, after the last change, keeps sending SIGHUP ends with a
\* proxy that serves exactly what the store holds, whichever surface the
\* changes came through and in whichever order older reloads finish.
SighupHeals ==
  <>[][FALSE]_known /\ []<><<Install(Hup)>>_vars => <>[](table = Entries(known))

\* README.md:69: "Hot reload -- add/remove routes via API without restart."
\* When no reload is on its way, the proxy serves what the store holds.
HotReload ==
  (\A g \in Goroutines : pc[g] = "idle") => table = Entries(known)
=============================================================================
