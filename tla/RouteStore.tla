------------------------------ MODULE RouteStore ------------------------------
(***************************************************************************)
(* The route store of aigoproxy (internal/store/store.go) as the daemon    *)
(* uses it.  A route lives in three places: as a row of Memogo, the remote *)
(* key-value service that is authoritative; in Store.cfg, the table the    *)
(* proxy is built from; and in config.yaml, a local mirror that also holds *)
(* the operator's other settings.                                          *)
(*                                                                         *)
(* Every operation holds Store.mu from its first line to its return, so at *)
(* most one is in flight and no reader sees the middle of one.  It is not  *)
(* atomic, though: it makes one HTTP call after the other, any of which    *)
(* can fail or time out (and a write that timed out may have been applied, *)
(* or be applied later), and the process can die between two of them.      *)
(* `op' is what the lock holder still has to do.                           *)
(***************************************************************************)
EXTENDS Naturals, FiniteSets, Sequences

CONSTANTS
  Hosts,       \* the host names routes are registered under
  BlankHost,   \* the empty host of a ghost route, whose key is "route:"
  GoodBodies,  \* a route without its host: one that Validate accepts
  OddBodies,   \* one AddRoute accepts and Validate refuses (unknown auth)
  NoUpstream,  \* one with a blank upstream: a ghost route
  OldGhosts,   \* whether Memogo holds ghosts of an earlier release
  MetaKept,    \* whether Memogo returns the custom meta keys it is given
  MaxLate,     \* how many timed-out writes of routes may be outstanding
  MaxDelayed   \* how many timed-out audit rows about each host may be

Keys == Hosts \cup {BlankHost}
Bodies == GoodBodies \cup OddBodies \cup {NoUpstream}

ASSUME HostsAssumption == BlankHost \notin Hosts
ASSUME BodiesAssumption == /\ GoodBodies \cap OddBodies = {}
                           /\ NoUpstream \notin GoodBodies \cup OddBodies
ASSUME FlagsAssumption == /\ OldGhosts \in BOOLEAN
                          /\ MetaKept \in BOOLEAN
                          /\ MaxLate \in Nat /\ MaxDelayed \in Nat

VARIABLES
  memogo,    \* Memogo's row for each key "route:<host>"
  trail,     \* the action of the newest audit row about each host
  late,      \* timed-out writes of route rows that Memogo may still apply
  delayed,   \* the actions of timed-out audit rows about each host, oldest
             \* first, that Memogo may still take and that none has overtaken
  up,        \* the process runs and has loaded its configuration
  served,    \* Store.cfg.Routes
  settings,  \* the rest of Store.cfg
  yaml,      \* config.yaml
  op,        \* what the holder of Store.mu still has to do
  synced,    \* history: the last LoadConfig could list Memogo
  unsure,    \* history: keys with a write whose fate the daemon cannot know
  missed     \* history: keys with a write or an audit row that was not
             \* answered, and no audit row stored for certain since

memory == <<up, served, settings>>
audits == <<trail, delayed, missed>>
vars == <<memogo, late, up, served, settings, yaml, op, synced, unsure, audits>>

-----------------------------------------------------------------------------
(* Rows, routes and operations. *)

Route == [host : Keys, body : Bodies]

Absent == [kind |-> "absent"]
Live(b) == [kind |-> "live", body |-> b]
\* A tombstone; `known' tells whether it still says who removed the route.
Tombstone == [kind |-> "tombstone", known |-> TRUE]
Purged(known) == [kind |-> "purged", known |-> known]

Row == {Absent} \cup [kind : {"live"}, body : Bodies]
         \cup [kind : {"tombstone", "purged"}, known : BOOLEAN]

IsLive(row) == row.kind = "live"
IsTombstoned(row) == row.kind \in {"tombstone", "purged"}

Write == [key : Keys, row : Row]

IsGhost(r) == r.host = BlankHost \/ r.body = NoUpstream

\* The routes LoadConfig extracts from a listing of Memogo.
LiveRoutes(rows) ==
  {[host |-> k, body |-> rows[k].body] : k \in {k \in Keys : IsLive(rows[k])}}

HasHost(routes, h) == \E r \in routes : r.host = h

\* Config.Validate: what makes config.Load reject a file.
Valid(routes) ==
  /\ \A r \in routes : r.host # BlankHost /\ r.body \in GoodBodies
  /\ \A r, s \in routes : r.host = s.host => r = s

\* config.Load, whose error LoadConfig drops: a file that does not validate
\* yields a blank configuration.
SettingsOf(file) == IF Valid(file.routes) THEN file.settings ELSE "blank"

\* What os.WriteFile leaves when it is cut short: it truncates first.
Torn == [routes |-> {}, settings |-> "blank"]

Kinds == {"add", "remove", "prune", "purge"}

Idle == [kind |-> "idle", todo |-> {}, unmirrored |-> FALSE, unaudited |-> {}]

\* Faulty: the last step forgets to unlock.
FaultyRestNeverUnlocks(o) == o

\* The lock is released when nothing is left to do.
Rest(o) == IF o.todo = {} /\ ~o.unmirrored /\ o.unaudited = {} THEN Idle ELSE o

CanBegin == up /\ op = Idle

\* An operation that starts with its writes to Memogo.
Begun(kind, writes) ==
  [kind |-> kind, todo |-> writes, unmirrored |-> FALSE, unaudited |-> {}]

-----------------------------------------------------------------------------
(* Loading: New and LoadConfig at startup, LoadConfig again on SIGHUP. *)

Init ==
  /\ memogo \in [Keys -> {Absent} \cup {Live(b) : b \in Bodies \ OddBodies}]
  /\ \A k \in Keys : IsLive(memogo[k]) /\ IsGhost([host |-> k, body |-> memogo[k].body])
                       => OldGhosts
  /\ trail = [k \in Keys |-> "none"]
  /\ late = {}
  /\ delayed = [k \in Keys |-> <<>>]
  /\ up = FALSE
  /\ served = {}
  /\ settings = "blank"
  /\ yaml = [routes |-> {}, settings |-> "operator"]
  /\ op = Idle
  /\ synced = FALSE
  /\ unsure = {}
  /\ missed = {}

LoadListed ==
  /\ op = Idle
  /\ up' = TRUE
  /\ served' = LiveRoutes(memogo)
  /\ settings' = SettingsOf(yaml)
  /\ synced' = TRUE
  /\ unsure' = {w.key : w \in late}
  /\ UNCHANGED <<memogo, audits, late, yaml, op>>

\* V2List failed: the loop over the entries sees none, so the table is empty.
LoadUnlisted ==
  /\ op = Idle
  /\ up' = TRUE
  /\ served' = {}
  /\ settings' = SettingsOf(yaml)
  /\ synced' = FALSE
  /\ UNCHANGED <<memogo, audits, late, yaml, op, unsure>>

-----------------------------------------------------------------------------
(* The operations, up to their first call to Memogo or to the disk. *)

\* Faulty: the table is not searched for the host.
FaultyAddRouteNoScan(h, b) ==
  /\ CanBegin
  /\ b # NoUpstream
  /\ op' = Begun("add", {[key |-> h, row |-> Live(b)]})
  /\ UNCHANGED <<memogo, audits, late, memory, yaml, synced, unsure>>

\* Faulty: the route is served before Memogo has taken it, with no rollback.
FaultyAddRouteEager(h, b) ==
  /\ CanBegin
  /\ b # NoUpstream
  /\ ~HasHost(served, h)
  /\ served' = served \cup {[host |-> h, body |-> b]}
  /\ op' = Begun("add", {[key |-> h, row |-> Live(b)]})
  /\ UNCHANGED <<memogo, audits, late, up, settings, yaml, synced, unsure>>

AddRoute(h, b) ==
  /\ CanBegin
  /\ b # NoUpstream
  /\ ~HasHost(served, h)
  /\ op' = Begun("add", {[key |-> h, row |-> Live(b)]})
  /\ UNCHANGED <<memogo, audits, late, memory, yaml, synced, unsure>>

\* Faulty: the removal is audited before it is stored.
FaultyRemoveRouteAuditFirst(h) ==
  /\ CanBegin
  /\ HasHost(served, h)
  /\ op' = [Begun("remove", {[key |-> h, row |-> Tombstone]})
              EXCEPT !.unaudited = {h}]
  /\ UNCHANGED <<memogo, audits, late, memory, yaml, synced, unsure>>

RemoveRoute(h) ==
  /\ CanBegin
  /\ HasHost(served, h)
  /\ op' = Begun("remove", {[key |-> h, row |-> Tombstone]})
  /\ UNCHANGED <<memogo, audits, late, memory, yaml, synced, unsure>>

\* The table shrinks before anything is written; the mirror comes next, then
\* one tombstone and one audit row per ghost.
PruneInvalidRoutes ==
  LET ghosts == {r \in served : IsGhost(r)}
  IN  /\ CanBegin
      /\ ghosts # {}
      /\ served' = served \ ghosts
      /\ op' = [Begun("prune", {[key |-> r.host, row |-> Tombstone] : r \in ghosts})
                EXCEPT !.unmirrored = TRUE]
      /\ UNCHANGED <<memogo, audits, late, up, settings, yaml, synced, unsure>>

\* Faulty: the marker is written without the field.
FaultyPurgeMarkerBare(row) == [kind |-> "purged"]

\* The marker's removed_by is read from the listed meta only, and the meta it
\* is written with has no removed_by.
PurgeMarker(row) == Purged(MetaKept /\ row.kind = "tombstone" /\ row.known)

\* Faulty: the listing is not filtered.
FaultyPurgeEverything ==
  /\ CanBegin
  /\ op' = Begun("purge", {[key |-> k, row |-> Purged(FALSE)] :
                               k \in {k \in Keys : memogo[k] # Absent}})
  /\ UNCHANGED <<memogo, audits, late, memory, yaml, synced, unsure>>

PurgeTombstones ==
  LET tombs == {k \in Keys : IsTombstoned(memogo[k])}
  IN  /\ CanBegin
      /\ tombs # {}
      /\ op' = Begun("purge", {[key |-> k, row |-> PurgeMarker(memogo[k])] : k \in tombs})
      /\ UNCHANGED <<memogo, audits, late, memory, yaml, synced, unsure>>

-----------------------------------------------------------------------------
(* The steps of the operation in flight: V2Store, writeYAMLLocked and      *)
(* auditLocked.                                                            *)

Storing(w) == w \in op.todo /\ ~op.unmirrored /\ op.unaudited = {}

\* Faulty: a removed route stays in the table until the next LoadConfig.
FaultyServedAfterKeepsRemoved(w) ==
  IF op.kind = "add" THEN served \cup {[host |-> w.key, body |-> w.row.body]} ELSE served

\* The table after a write that Memogo has confirmed.
ServedAfter(w) ==
  CASE op.kind = "add"    -> served \cup {[host |-> w.key, body |-> w.row.body]}
    [] op.kind = "remove" -> {r \in served : r.host # w.key}
    [] OTHER              -> served

StoreConfirmed(w) ==
  /\ Storing(w)
  /\ memogo' = [memogo EXCEPT ![w.key] = w.row]
  /\ served' = ServedAfter(w)
  /\ op' = [op EXCEPT !.todo = @ \ {w}, !.unaudited = {w.key},
                      !.unmirrored = op.kind \in {"add", "remove"}]
  /\ unsure' = IF op.kind = "purge" \/ \E l \in late : l.key = w.key
               THEN unsure ELSE unsure \ {w.key}
  /\ UNCHANGED <<audits, late, up, settings, yaml, synced>>

\* Add, remove and purge return on an error; prune ignores it and goes on.
AfterError(w) ==
  IF op.kind = "prune"
  THEN [op EXCEPT !.todo = @ \ {w}, !.unaudited = {w.key}]
  ELSE Idle

\* Memogo refused the write, or was not reached at all.
StoreRefused(w) ==
  /\ Storing(w)
  /\ op' = AfterError(w)
  /\ unsure' = IF op.kind = "prune" THEN unsure \cup {w.key} ELSE unsure
  /\ missed' = missed \cup unsure'
  /\ UNCHANGED <<memogo, trail, delayed, late, memory, yaml, synced>>

\* What becomes of a write whose answer the daemon never gets.
Unanswered(w) ==
  \/ UNCHANGED <<memogo, late>>
  \/ memogo' = [memogo EXCEPT ![w.key] = w.row] /\ UNCHANGED late
  \/ Cardinality(late) < MaxLate /\ late' = late \cup {w} /\ UNCHANGED memogo

StoreTimedOut(w) ==
  /\ Storing(w)
  /\ Unanswered(w)
  /\ op' = AfterError(w)
  /\ unsure' = unsure \cup {w.key}
  /\ missed' = missed \cup {w.key}
  /\ UNCHANGED <<trail, delayed, memory, yaml, synced>>

\* writeYAMLLocked: its error is ignored, and a failed one may truncate the file.
WriteYAML ==
  /\ op.unmirrored
  /\ yaml' \in {[routes |-> served, settings |-> settings], yaml, Torn}
  /\ op' = Rest([op EXCEPT !.unmirrored = FALSE])
  /\ UNCHANGED <<memogo, audits, late, memory, synced, unsure>>

\* What becomes of the audit row about k: it is stored, lost, or still on its
\* way when the daemon gives up.  It carries the time of its change and its key
\* is made from it, so it never hides a newer one.
AuditRow(k) ==
  \/ /\ trail' = [trail EXCEPT ![k] = op.kind]
     /\ delayed' = [delayed EXCEPT ![k] = <<>>]
     /\ missed' = IF k \in unsure THEN missed ELSE missed \ {k}
  \/ missed' = missed \cup {k} /\ UNCHANGED <<trail, delayed>>
  \/ /\ Len(delayed[k]) < MaxDelayed
     /\ delayed' = [delayed EXCEPT ![k] = Append(@, op.kind)]
     /\ missed' = missed \cup {k}
     /\ UNCHANGED trail

\* auditLocked, whose error is ignored.
Audit(k) ==
  /\ k \in op.unaudited
  /\ ~op.unmirrored
  /\ AuditRow(k)
  /\ op' = Rest([op EXCEPT !.unaudited = {}])
  /\ UNCHANGED <<memogo, late, memory, yaml, synced, unsure>>

-----------------------------------------------------------------------------
(* The environment. *)

\* The process dies.  The call it was waiting for may or may not take effect,
\* and an audit row it had still to write never is.
Crash ==
  /\ up
  /\ \/ /\ missed' = missed \cup op.unaudited
        /\ UNCHANGED <<memogo, late, unsure, trail, delayed>>
     \/ \E w \in op.todo : /\ Storing(w)
                          /\ Unanswered(w)
                          /\ unsure' = unsure \cup {w.key}
                          /\ missed' = missed \cup {w.key}
                          /\ UNCHANGED <<trail, delayed>>
     \/ /\ ~op.unmirrored
        /\ \E k \in op.unaudited : AuditRow(k)
        /\ UNCHANGED <<memogo, late, unsure>>
  /\ \/ yaml' = yaml
     \/ op.unmirrored /\ yaml' \in {[routes |-> served, settings |-> settings], Torn}
  /\ up' = FALSE
  /\ served' = {}
  /\ settings' = "blank"
  /\ op' = Idle
  /\ synced' = FALSE

LateWriteLands(w) ==
  /\ w \in late
  /\ memogo' = [memogo EXCEPT ![w.key] = w.row]
  /\ late' = late \ {w}
  /\ UNCHANGED <<audits, memory, yaml, op, synced, unsure>>

LateWriteLost(w) ==
  /\ w \in late
  /\ late' = late \ {w}
  /\ UNCHANGED <<memogo, audits, memory, yaml, op, synced, unsure>>

\* A late audit row becomes the newest; the older ones no longer matter.
LateAuditLands(k, i) ==
  /\ trail' = [trail EXCEPT ![k] = delayed[k][i]]
  /\ delayed' = [delayed EXCEPT ![k] = SubSeq(@, i + 1, Len(@))]
  /\ UNCHANGED <<memogo, late, memory, yaml, op, synced, unsure, missed>>

-----------------------------------------------------------------------------

Begin ==
  \/ LoadListed
  \/ LoadUnlisted
  \/ \E h \in Hosts, b \in Bodies : AddRoute(h, b)
  \/ \E h \in Keys : RemoveRoute(h)
  \/ PruneInvalidRoutes
  \/ PurgeTombstones

Continue ==
  \/ \E w \in op.todo : StoreConfirmed(w) \/ StoreRefused(w) \/ StoreTimedOut(w)
  \/ WriteYAML
  \/ \E k \in op.unaudited : Audit(k)

Environment ==
  \/ Crash
  \/ \E w \in late : LateWriteLands(w) \/ LateWriteLost(w)
  \/ \E k \in Keys : \E i \in DOMAIN delayed[k] : LateAuditLands(k, i)

Next == Begin \/ Continue \/ Environment

Spec == Init /\ [][Next]_vars

\* Each call of the lock holder carries a five-second context, so it returns.
FairSpec == Spec /\ WF_vars(Continue)
-----------------------------------------------------------------------------
(* Properties. *)

\* Every variable has its type, and a process that is down holds nothing.
TypeOK ==
  /\ memogo \in [Keys -> Row]
  /\ trail \in [Keys -> Kinds \cup {"none"}]
  /\ late \subseteq Write
  /\ delayed \in [Keys -> Seq(Kinds)]
  /\ up \in BOOLEAN
  /\ served \subseteq Route
  /\ settings \in {"operator", "blank"}
  /\ yaml \in [routes : SUBSET Route, settings : {"operator", "blank"}]
  /\ op \in [kind : Kinds \cup {"idle"}, todo : SUBSET Write,
             unmirrored : BOOLEAN, unaudited : SUBSET Keys]
  /\ synced \in BOOLEAN
  /\ unsure \subseteq Keys
  /\ missed \subseteq Keys
  /\ ~up => served = {} /\ op = Idle /\ ~synced

\* The routes a ghost prune has dropped from memory but not yet from Memogo.
BeingPruned == IF op.kind = "prune" THEN {w.key : w \in op.todo} ELSE {}

\* The table the proxy is built from agrees with Memogo's rows, in both
\* directions, on every key whose writes have all been answered, at every
\* moment since a LoadConfig that could list Memogo.
Agreement ==
  synced => \A k \in Keys \ (unsure \cup BeingPruned) :
              {r \in served : r.host = k} = {r \in LiveRoutes(memogo) : r.host = k}

\* No two served routes share a host, whatever fails: AddRoute's scan of the
\* table, LoadConfig's reading of it and late writes never produce a pair.
UniqueHosts == \A r, s \in served : r.host = s.host => r = s

\* The audit trail tells the truth: the newest row about a host says "add" when
\* the host is registered and something else when it is not, whatever fails,
\* except while the row is about to be written, and from a write or an audit
\* row that was not answered until the next audit row that certainly is stored.
\* An older row that lands late never makes it lie about any other host.
AuditTellsTruth ==
  \A k \in Keys \ (missed \cup op.unaudited) :
    trail[k] # "none" => (trail[k] = "add" <=> IsLive(memogo[k]))

\* Purging rewrites tombstones only: it never erases the row of a live route,
\* although it works from a listing that ages while it runs.
PurgeSparesLiveRoutes ==
  [][\A k \in Keys \ unsure :
       IsLive(memogo[k]) /\ ~IsLive(memogo'[k]) => op.kind \in {"remove", "prune"}]_vars

\* Every operation gives Store.mu back: until it does, no request can be
\* routed anew and no page shown.
LockReleased == (op # Idle) ~> (op = Idle)

\* The store implements RouteTable.
Table == INSTANCE RouteTable WITH
           durable <- LiveRoutes(memogo), known <- served,
           running <- up, doubt <- unsure
ImplementsTable == Table!Spec

\* What the comment on LoadConfig says (store.go:317): "If Memogo is
\* unreachable, falls back to dataDir/config.yaml."
OutageServesMirror == [][LoadUnlisted => served' = yaml.routes]_vars

\* What the comment in LoadConfig says (store.go:323): "Read other config fields
\* from YAML."  It fails once the mirror holds a route that Validate refuses.
SettingsSurviveLoad ==
  [][LoadListed \/ LoadUnlisted => settings' = yaml.settings]_vars
=============================================================================
