--------------------------- MODULE RouteStore_proofs ---------------------------
(***************************************************************************)
(* Theorems about RouteStore, for every set of hosts and of bodies and any *)
(* number of outstanding writes.                                           *)
(*                                                                         *)
(* None of the properties is inductive by itself.  What carries them is    *)
(* what is known of the operation in flight (InFlightOK): an add still     *)
(* finds its host unserved when Memogo answers, because Store.mu is held;  *)
(* a prune's hosts are out of the table; a purge's keys are not live,      *)
(* unless an outstanding write has put them in doubt.  Two parts build on  *)
(* that: the audit trail, and the refinement of RouteTable.                *)
(***************************************************************************)
EXTENDS RouteStore, SequenceTheorems, TLAPS

USE HostsAssumption, BodiesAssumption, FlagsAssumption

OpType == [kind : Kinds \cup {"idle"}, todo : SUBSET Write,
           unmirrored : BOOLEAN, unaudited : SUBSET Keys]

\* What a write still to be sent says, by the operation it belongs to.
WriteOK(w) ==
  /\ op.kind = "add" =>
       /\ IsLive(w.row) /\ w.row.body # NoUpstream /\ w.key # BlankHost
       /\ ~HasHost(served, w.key)
  /\ op.kind = "remove" => w.row = Tombstone
  /\ op.kind = "prune" => w.row = Tombstone /\ ~HasHost(served, w.key)
  /\ op.kind = "purge" =>
       /\ ~IsLive(w.row)
       /\ w.key \in unsure \/ ~IsLive(memogo[w.key])

InFlightOK ==
  /\ op.kind = "idle" => op = Idle
  /\ op.kind \in {"add", "remove"} => \A v, w \in op.todo : v = w
  /\ \A w \in op.todo : WriteOK(w)

LateInDoubt == \A w \in late : w.key \in unsure

\* Agreement, route by route.
Agrees(k) ==
  \A b \in Bodies : [host |-> k, body |-> b] \in served
                      <=> IsLive(memogo[k]) /\ memogo[k].body = b

AgreementByRoute == synced => \A k \in Keys \ (unsure \cup BeingPruned) : Agrees(k)

IInv == TypeOK /\ UniqueHosts /\ InFlightOK /\ LateInDoubt /\ AgreementByRoute

-----------------------------------------------------------------------------
(* Facts about the helpers. *)

\* The rows the operations write are rows, and only an add writes a live one.
LEMMA RowsAreRows ==
  /\ Absent \in Row /\ Tombstone \in Row
  /\ \A b \in Bodies : Live(b) \in Row /\ IsLive(Live(b)) /\ Live(b).body = b
  /\ \A row \in Row : PurgeMarker(row) \in Row
  /\ ~IsLive(Tombstone) /\ ~IsLive(Absent)
  /\ \A row \in Row : ~IsLive(PurgeMarker(row))
  /\ \A row \in Row : IsLive(row) => row.body \in Bodies
  /\ \A row \in Row : IsTombstoned(row) => ~IsLive(row)
<1>1. Absent \in Row /\ ~IsLive(Absent)
  BY DEF Row, Absent, IsLive
<1>2. Tombstone \in Row /\ ~IsLive(Tombstone)
  BY DEF Row, Tombstone, IsLive
<1>3. \A b \in Bodies : Live(b) \in Row /\ IsLive(Live(b)) /\ Live(b).body = b
  BY DEF Row, Live, IsLive
<1>4. ASSUME NEW row \in Row PROVE PurgeMarker(row) \in Row /\ ~IsLive(PurgeMarker(row))
  <2>1. (MetaKept /\ row.kind = "tombstone" /\ row.known) \in BOOLEAN
    OBVIOUS
  <2> QED BY <2>1 DEF PurgeMarker, Purged, Row, IsLive
<1>5. \A row \in Row : IsLive(row) => row.body \in Bodies
  BY DEF Row, Absent, IsLive
<1>6. \A row \in Row : IsTombstoned(row) => ~IsLive(row)
  BY DEF IsTombstoned, IsLive
<1> QED BY <1>1, <1>2, <1>3, <1>4, <1>5, <1>6

\* A listing yields exactly one route for each live row.
LEMMA LiveRoutesAreRoutes ==
  ASSUME NEW rows \in [Keys -> Row]
  PROVE  /\ LiveRoutes(rows) \subseteq Route
         /\ \A r \in LiveRoutes(rows) : IsLive(rows[r.host]) /\ rows[r.host].body = r.body
         /\ \A k \in Keys, b \in Bodies :
              [host |-> k, body |-> b] \in LiveRoutes(rows)
                <=> IsLive(rows[k]) /\ rows[k].body = b
<1>1. \A k \in Keys : IsLive(rows[k]) => rows[k].body \in Bodies
  BY RowsAreRows
<1>2. LiveRoutes(rows) \subseteq Route
  BY <1>1 DEF LiveRoutes, Route
<1>3. \A r \in LiveRoutes(rows) : IsLive(rows[r.host]) /\ rows[r.host].body = r.body
  BY DEF LiveRoutes
<1>4. ASSUME NEW k \in Keys, NEW b \in Bodies
      PROVE  [host |-> k, body |-> b] \in LiveRoutes(rows)
                <=> IsLive(rows[k]) /\ rows[k].body = b
  <2>1. [host |-> k, body |-> b].host = k /\ [host |-> k, body |-> b].body = b
    OBVIOUS
  <2> QED BY <1>3, <2>1 DEF LiveRoutes
<1> QED BY <1>2, <1>3, <1>4

\* Releasing the lock keeps the operation an operation.
LEMMA RestIsOp ==
  /\ Idle \in OpType /\ Idle.todo = {} /\ Idle.kind = "idle"
  /\ \A o \in OpType : Rest(o) \in OpType
  /\ \A o \in OpType : Rest(o) = o \/ (Rest(o) = Idle /\ o.todo = {})
BY DEF OpType, Rest, Idle, Kinds

\* Beginning an operation.
LEMMA BegunIsOp ==
  ASSUME NEW kind \in Kinds, NEW writes \in SUBSET Write
  PROVE  /\ Begun(kind, writes) \in OpType
         /\ Begun(kind, writes).kind = kind
         /\ Begun(kind, writes).todo = writes
BY DEF Begun, OpType, Kinds

\* What is in flight belongs to a running process.
LEMMA InFlightIsUp ==
  ASSUME TypeOK, NEW w \in op.todo
  PROVE  w \in Write /\ w.key \in Keys /\ w.row \in Row /\ up /\ op.kind \in Kinds \cup {"idle"}
BY DEF TypeOK, Write, Idle

-----------------------------------------------------------------------------
(* Initial states. *)

\* Initially the rows are rows and nothing is in flight.
LEMMA InitIInv == Init => IInv
<1> SUFFICES ASSUME Init PROVE IInv OBVIOUS
<1>1. memogo \in [Keys -> Row]
  <2>1. {Absent} \cup {Live(b) : b \in Bodies \ OddBodies} \subseteq Row
    BY RowsAreRows
  <2> QED BY <2>1 DEF Init
<1>2. op \in OpType /\ op.todo = {}
  BY RestIsOp DEF Init
<1>3. TypeOK
  <2>1. delayed \in [Keys -> Seq(Kinds)]
    BY EmptySeq DEF Init
  <2> QED BY <1>1, <1>2, <2>1 DEF Init, TypeOK, OpType, Kinds
<1> QED BY <1>2, <1>3 DEF Init, IInv, UniqueHosts, InFlightOK, LateInDoubt, AgreementByRoute

-----------------------------------------------------------------------------
(* One lemma per kind of step. *)

\* Loading the configuration, from a listing or without one.
LEMMA LoadStep == IInv /\ (LoadListed \/ LoadUnlisted) => IInv'
<1> SUFFICES ASSUME IInv, LoadListed \/ LoadUnlisted PROVE IInv' OBVIOUS
<1>1. op = Idle /\ op' = op /\ op'.todo = {} /\ op \in OpType
  BY RestIsOp DEF LoadListed, LoadUnlisted
<1>2. CASE LoadListed
  <2>1. served' \subseteq Route
    BY <1>2, LiveRoutesAreRoutes DEF LoadListed, IInv, TypeOK
  <2>2. unsure' \subseteq Keys
    BY <1>2 DEF LoadListed, IInv, TypeOK, Write
  <2>3. TypeOK'
    BY <1>1, <1>2, <2>1, <2>2 DEF LoadListed, audits, IInv, TypeOK, SettingsOf
  <2>4. UniqueHosts'
    <3>1. memogo \in [Keys -> Row] /\ served' = LiveRoutes(memogo)
      BY <1>2 DEF LoadListed, IInv, TypeOK
    <3>2. \A r \in served' : r.body = memogo[r.host].body /\ r \in Route
      BY <2>1, <3>1, LiveRoutesAreRoutes
    <3> QED BY <3>2 DEF UniqueHosts, Route
  <2>5. AgreementByRoute'
    <3> SUFFICES ASSUME NEW k \in Keys, NEW b \in Bodies
                 PROVE  [host |-> k, body |-> b] \in served'
                          <=> IsLive(memogo'[k]) /\ memogo'[k].body = b
      BY DEF AgreementByRoute, Agrees
    <3>1. memogo \in [Keys -> Row] /\ memogo' = memogo /\ served' = LiveRoutes(memogo)
      BY <1>2 DEF LoadListed, IInv, TypeOK
    <3> QED BY <3>1, LiveRoutesAreRoutes
  <2>6. LateInDoubt'
    BY <1>2 DEF LoadListed, LateInDoubt
  <2> QED BY <1>1, <2>3, <2>4, <2>5, <2>6 DEF IInv, InFlightOK
<1>3. CASE LoadUnlisted
  <2>1. TypeOK'
    BY <1>1, <1>3 DEF LoadUnlisted, audits, IInv, TypeOK, SettingsOf
  <2> QED BY <1>1, <1>3, <2>1
          DEF LoadUnlisted, IInv, UniqueHosts, AgreementByRoute, LateInDoubt, InFlightOK
<1> QED BY <1>2, <1>3

\* An operation that begins with its writes: memory and Memogo are untouched.
LEMMA BeginStep ==
  ASSUME IInv, CanBegin, NEW kind \in Kinds \ {"prune"}, NEW writes \in SUBSET Write,
         op' = Begun(kind, writes),
         kind \in {"add", "remove"} => \A v, w \in writes : v = w,
         \A w \in writes : WriteOK(w)',
         UNCHANGED <<memogo, audits, late, memory, yaml, synced, unsure>>
  PROVE  IInv'
<1>1. op' \in OpType /\ op'.kind = kind /\ op'.todo = writes
  BY BegunIsOp
<1>2. TypeOK'
  BY <1>1 DEF IInv, TypeOK, OpType, memory, audits, CanBegin
<1>3. BeingPruned = {} /\ BeingPruned' = {}
  BY <1>1, RestIsOp DEF BeingPruned, CanBegin
<1>4. AgreementByRoute'
  BY <1>3 DEF IInv, AgreementByRoute, Agrees, memory
<1>5. InFlightOK'
  BY <1>1 DEF InFlightOK, Kinds
<1> QED BY <1>2, <1>4, <1>5 DEF IInv, UniqueHosts, LateInDoubt, memory

\* An add begins: its host is served by no route.
LEMMA AddRouteStep ==
  ASSUME IInv, NEW h \in Hosts, NEW b \in Bodies, AddRoute(h, b) PROVE IInv'
<1> DEFINE w == [key |-> h, row |-> Live(b)]
<1>1. w \in Write /\ w.key = h /\ w.row = Live(b)
  BY RowsAreRows DEF Write, Keys
<1>2. op' = Begun("add", {w}) /\ op'.kind = "add" /\ h # BlankHost
  BY BegunIsOp, <1>1 DEF AddRoute, Kinds
<1>3. WriteOK(w)'
  BY <1>1, <1>2, RowsAreRows DEF WriteOK, AddRoute, HasHost, memory
<1> QED BY <1>1, <1>2, <1>3, BeginStep DEF AddRoute, Kinds

\* A removal begins.
LEMMA RemoveRouteStep ==
  ASSUME IInv, NEW h \in Keys, RemoveRoute(h) PROVE IInv'
<1> DEFINE w == [key |-> h, row |-> Tombstone]
<1>1. w \in Write /\ w.key = h /\ w.row = Tombstone
  BY RowsAreRows DEF Write
<1>2. op' = Begun("remove", {w}) /\ op'.kind = "remove"
  BY BegunIsOp, <1>1 DEF RemoveRoute, Kinds
<1>3. WriteOK(w)'
  BY <1>1, <1>2 DEF WriteOK
<1> QED BY <1>1, <1>2, <1>3, BeginStep DEF RemoveRoute, Kinds

\* A purge begins: no key it lists is live.
LEMMA PurgeStep == IInv /\ PurgeTombstones => IInv'
<1> SUFFICES ASSUME IInv, PurgeTombstones PROVE IInv' OBVIOUS
<1> DEFINE tombs == {k \in Keys : IsTombstoned(memogo[k])}
           writes == {[key |-> k, row |-> PurgeMarker(memogo[k])] : k \in tombs}
<1>1. memogo \in [Keys -> Row]
  BY DEF IInv, TypeOK
<1>2. \A w \in writes : /\ w \in Write /\ ~IsLive(w.row)
                        /\ w.key \in Keys /\ ~IsLive(memogo[w.key])
  BY <1>1, RowsAreRows DEF Write
<1>3. op' = Begun("purge", writes) /\ op'.kind = "purge"
  BY BegunIsOp, <1>2 DEF PurgeTombstones, Kinds
<1>4. \A w \in writes : WriteOK(w)'
  BY <1>2, <1>3 DEF WriteOK, PurgeTombstones
<1>5. writes \in SUBSET Write
  BY <1>2
<1> HIDE DEF writes
<1> QED BY <1>3, <1>4, <1>5, BeginStep DEF PurgeTombstones, Kinds

\* Prune takes the ghosts out of the table, and their hosts are being pruned
\* from then on.
LEMMA PruneStep == IInv /\ PruneInvalidRoutes => IInv'
<1> SUFFICES ASSUME IInv, PruneInvalidRoutes PROVE IInv' OBVIOUS
<1> DEFINE ghosts == {r \in served : IsGhost(r)}
           writes == {[key |-> r.host, row |-> Tombstone] : r \in ghosts}
<1>1. served \subseteq Route /\ served' = served \ ghosts /\ UniqueHosts
  BY DEF IInv, TypeOK, PruneInvalidRoutes
<1>2. writes \in SUBSET Write
  BY <1>1, RowsAreRows DEF Write, Route
<1>3. /\ op' = [Begun("prune", writes) EXCEPT !.unmirrored = TRUE]
      /\ op' \in OpType /\ op'.kind = "prune" /\ op'.todo = writes
  BY <1>2 DEF PruneInvalidRoutes, Begun, OpType, Kinds
<1>4. TypeOK'
  BY <1>1, <1>3 DEF PruneInvalidRoutes, audits, IInv, TypeOK, OpType, CanBegin
<1>5. \A w \in writes : w.row = Tombstone /\ ~HasHost(served', w.key)
  BY <1>1 DEF HasHost, UniqueHosts
<1>6. InFlightOK'
  BY <1>3, <1>5 DEF InFlightOK, WriteOK, HasHost
<1>7. AgreementByRoute'
  <2>1. BeingPruned = {} /\ BeingPruned' = {w.key : w \in writes}
    BY <1>3, RestIsOp DEF BeingPruned, PruneInvalidRoutes, CanBegin
  <2>2. SUFFICES ASSUME synced, NEW k \in Keys \ (unsure \cup BeingPruned'), NEW b \in Bodies
                 PROVE  [host |-> k, body |-> b] \in served' <=> [host |-> k, body |-> b] \in served
    BY <2>1 DEF IInv, AgreementByRoute, Agrees, PruneInvalidRoutes
  <2>3. ASSUME NEW r \in ghosts, r.host = k PROVE FALSE
    <3>1. [key |-> k, row |-> Tombstone] \in writes
      BY <2>3
    <3>2. [key |-> k, row |-> Tombstone].key = k
      OBVIOUS
    <3> HIDE DEF writes
    <3> QED BY <2>1, <3>1, <3>2
  <2> QED BY <1>1, <2>3
<1> QED BY <1>1, <1>4, <1>6, <1>7 DEF IInv, UniqueHosts, LateInDoubt, PruneInvalidRoutes

\* Memogo has confirmed write w: the table and the row of w.key change
\* together, and nothing else does.
LEMMA StoreConfirmedStep ==
  ASSUME IInv, NEW w \in op.todo, StoreConfirmed(w) PROVE IInv'
<1>1. /\ w \in Write /\ w.key \in Keys /\ w.row \in Row /\ up
      /\ op \in OpType /\ op.kind \in Kinds /\ WriteOK(w)
      /\ memogo \in [Keys -> Row] /\ served \subseteq Route
  <2>1. w \in Write /\ w.key \in Keys /\ w.row \in Row /\ up
    BY InFlightIsUp DEF IInv
  <2>2. op \in OpType /\ memogo \in [Keys -> Row] /\ served \subseteq Route
    BY DEF IInv, TypeOK, OpType
  <2>3. op # Idle
    BY RestIsOp
  <2>4. op.kind \in Kinds
    <3>1. op.kind \in Kinds \cup {"idle"} /\ (op.kind = "idle" => op = Idle)
      BY InFlightIsUp DEF IInv, InFlightOK
    <3> QED BY <2>3, <3>1
  <2>5. WriteOK(w)
    BY DEF IInv, InFlightOK
  <2> QED BY <2>1, <2>2, <2>4, <2>5
<1>2. /\ op' \in OpType /\ op'.kind = op.kind /\ op'.todo = op.todo \ {w}
  <2> DEFINE mirrored == op.kind \in {"add", "remove"}
  <2>1. mirrored \in BOOLEAN
    OBVIOUS
  <2>2. op' = [op EXCEPT !.todo = op.todo \ {w}, !.unaudited = {w.key}, !.unmirrored = mirrored]
    BY DEF StoreConfirmed
  <2> HIDE DEF mirrored
  <2> QED BY <1>1, <2>1, <2>2 DEF OpType
<1>3. memogo' \in [Keys -> Row] /\ memogo'[w.key] = w.row
      /\ \A k \in Keys : k # w.key => memogo'[k] = memogo[k]
  BY <1>1 DEF StoreConfirmed
<1>4. /\ op.kind = "add" => served' = served \cup {[host |-> w.key, body |-> w.row.body]}
                            /\ w.row.body \in Bodies
      /\ op.kind = "remove" => served' = {r \in served : r.host # w.key}
      /\ op.kind \in {"prune", "purge"} => served' = served
  BY <1>1, RowsAreRows DEF StoreConfirmed, ServedAfter, WriteOK
<1>5. served' \subseteq Route
  BY <1>1, <1>4 DEF Route, Kinds
<1>6. TypeOK'
  BY <1>1, <1>2, <1>3, <1>5 DEF StoreConfirmed, audits, IInv, TypeOK, OpType
<1>7. UniqueHosts'
  BY <1>1, <1>4 DEF IInv, UniqueHosts, Kinds, WriteOK, HasHost
<1>8. /\ unsure' \in SUBSET unsure /\ (\A k \in unsure : k # w.key => k \in unsure')
      /\ op.kind = "purge" => unsure' = unsure
      /\ LateInDoubt'
  BY DEF StoreConfirmed, IInv, LateInDoubt
<1>9. InFlightOK'
  <2>1. ASSUME NEW v \in op.todo, v # w PROVE WriteOK(v)'
    <3>1. WriteOK(v) /\ v.key \in Keys /\ op.kind \notin {"add", "remove"}
      BY <2>1, InFlightIsUp DEF IInv, InFlightOK
    <3>2. CASE op.kind = "prune"
      BY <3>1, <3>2, <1>2, <1>4 DEF WriteOK, HasHost
    <3>3. CASE op.kind = "purge"
      BY <3>1, <3>3, <1>1, <1>2, <1>3, <1>8 DEF WriteOK
    <3> QED BY <3>1, <3>2, <3>3, <1>1 DEF Kinds
  <2> QED BY <2>1, <1>1, <1>2 DEF IInv, InFlightOK, Kinds
<1>10. AgreementByRoute'
  <2> SUFFICES ASSUME synced, NEW k \in Keys \ (unsure' \cup BeingPruned'), NEW b \in Bodies
               PROVE  [host |-> k, body |-> b] \in served'
                        <=> IsLive(memogo'[k]) /\ memogo'[k].body = b
    BY DEF AgreementByRoute, Agrees, StoreConfirmed
  <2> DEFINE r == [host |-> k, body |-> b]
  <2>1. CASE k # w.key
    <3>1. k \notin unsure \cup BeingPruned
      BY <2>1, <1>2, <1>8 DEF BeingPruned
    <3>2. r \in served <=> IsLive(memogo[k]) /\ memogo[k].body = b
      BY <3>1 DEF IInv, AgreementByRoute, Agrees
    <3>3. r.host = k
      OBVIOUS
    <3>4. r \in served' <=> r \in served
      BY <1>1, <1>4, <2>1, <3>3 DEF Kinds
    <3> QED BY <3>2, <3>4, <1>3, <2>1
  <2>2. CASE k = w.key
    <3>1. r.host = k /\ r.body = b
      OBVIOUS
    <3>2. CASE op.kind = "add"
      <4>1. r \notin served
        BY <1>1, <2>2, <3>1, <3>2 DEF WriteOK, HasHost
      <4>2. r \in served' <=> b = w.row.body
        BY <1>4, <2>2, <3>1, <3>2, <4>1
      <4> QED BY <4>2, <1>1, <1>3, <2>2, <3>2 DEF WriteOK
    <3>3. CASE op.kind = "remove"
      <4>1. r \notin served'
        BY <1>4, <2>2, <3>1, <3>3
      <4> QED BY <4>1, <1>1, <1>3, <2>2, <3>3, RowsAreRows DEF WriteOK
    <3>4. CASE op.kind = "prune"
      <4>1. r \notin served'
        BY <1>1, <1>4, <2>2, <3>1, <3>4 DEF WriteOK, HasHost
      <4> QED BY <4>1, <1>1, <1>3, <2>2, <3>4, RowsAreRows DEF WriteOK
    <3>5. CASE op.kind = "purge"
      <4>1. k \notin unsure /\ BeingPruned = {} /\ served' = served
        BY <1>4, <1>8, <3>5 DEF BeingPruned
      <4>2. r \in served <=> IsLive(memogo[k]) /\ memogo[k].body = b
        BY <4>1 DEF IInv, AgreementByRoute, Agrees
      <4> QED BY <4>1, <4>2, <1>1, <1>3, <2>2, <3>5 DEF WriteOK
    <3> QED BY <3>2, <3>3, <3>4, <3>5, <1>1 DEF Kinds
  <2> QED BY <2>1, <2>2
<1> QED BY <1>6, <1>7, <1>8, <1>9, <1>10 DEF IInv

\* An operation that is cut short returns; a prune goes on with the next ghost.
LEMMA AfterErrorIsOp ==
  ASSUME IInv, NEW w \in op.todo
  PROVE  /\ AfterError(w) \in OpType
         /\ op.kind = "prune" => AfterError(w).kind = "prune" /\ AfterError(w).todo = op.todo \ {w}
         /\ op.kind # "prune" => AfterError(w) = Idle
<1>1. op \in OpType /\ w.key \in Keys
  BY InFlightIsUp DEF IInv, TypeOK, OpType
<1>2. CASE op.kind = "prune"
  BY <1>1, <1>2 DEF AfterError, OpType
<1>3. CASE op.kind # "prune"
  BY <1>3, RestIsOp DEF AfterError
<1> QED BY <1>2, <1>3

\* Write w has failed, in a way that leaves w.key in doubt if it matters.
LEMMA StoreFailedStep ==
  ASSUME IInv, NEW w \in op.todo,
         StoreRefused(w) \/ StoreTimedOut(w)
  PROVE  IInv'
<1>1. /\ w \in Write /\ w.key \in Keys /\ w.row \in Row /\ up
      /\ op \in OpType /\ memogo \in [Keys -> Row] /\ served \subseteq Route
  BY InFlightIsUp DEF IInv, TypeOK, OpType
<1>2. /\ op' = AfterError(w) /\ op' \in OpType
      /\ served' = served /\ up' = up /\ settings' = settings
      /\ trail' = trail /\ delayed' = delayed /\ yaml' = yaml /\ synced' = synced
  BY AfterErrorIsOp DEF StoreRefused, StoreTimedOut, memory
<1>3. /\ unsure' = unsure \/ unsure' = unsure \cup {w.key}
      /\ op.kind = "prune" => unsure' = unsure \cup {w.key}
  BY DEF StoreRefused, StoreTimedOut
<1>4. /\ memogo' \in [Keys -> Row]
      /\ \A k \in Keys : k \notin unsure' => memogo'[k] = memogo[k]
  BY <1>1 DEF StoreRefused, StoreTimedOut, Unanswered
<1>5. late' \subseteq Write /\ LateInDoubt' /\ missed' \subseteq Keys
  BY <1>1 DEF StoreRefused, StoreTimedOut, Unanswered, IInv, TypeOK, LateInDoubt
<1>6. TypeOK'
  BY <1>1, <1>2, <1>3, <1>4, <1>5 DEF IInv, TypeOK, OpType
<1>7. InFlightOK'
  <2>1. CASE op.kind = "prune"
    <3>1. op'.kind = "prune" /\ op'.todo = op.todo \ {w}
      BY <1>2, <2>1, AfterErrorIsOp
    <3>2. \A v \in op'.todo : WriteOK(v)'
      BY <1>2, <2>1, <3>1 DEF IInv, InFlightOK, WriteOK, HasHost
    <3> QED BY <3>1, <3>2 DEF InFlightOK
  <2>2. CASE op.kind # "prune"
    BY <1>2, <2>2, AfterErrorIsOp, RestIsOp DEF InFlightOK
  <2> QED BY <2>1, <2>2
<1>8. AgreementByRoute'
  <2> SUFFICES ASSUME synced, NEW k \in Keys \ (unsure' \cup BeingPruned'), NEW b \in Bodies
               PROVE  [host |-> k, body |-> b] \in served
                        <=> IsLive(memogo'[k]) /\ memogo'[k].body = b
    BY <1>2 DEF AgreementByRoute, Agrees
  <2>1. k \notin unsure \cup BeingPruned
    BY <1>2, <1>3, AfterErrorIsOp DEF BeingPruned
  <2> QED BY <2>1, <1>4 DEF IInv, AgreementByRoute, Agrees
<1> QED BY <1>2, <1>5, <1>6, <1>7, <1>8 DEF IInv, UniqueHosts

AuditTypes ==
  /\ trail \in [Keys -> Kinds \cup {"none"}]
  /\ delayed \in [Keys -> Seq(Kinds)]
  /\ missed \subseteq Keys

\* An audit row, whatever becomes of it, is the action of the operation.
LEMMA AuditRowTypes ==
  ASSUME IInv, NEW k \in op.unaudited, AuditRow(k) PROVE AuditTypes'
<1>1. op.kind \in Kinds /\ k \in Keys
  BY DEF IInv, TypeOK, InFlightOK, Idle
<1>2. AuditTypes
  BY DEF IInv, TypeOK, AuditTypes
<1>3. CASE delayed' = delayed
  BY <1>1, <1>2, <1>3 DEF AuditRow, AuditTypes
<1>4. CASE delayed' = [delayed EXCEPT ![k] = <<>>] /\ trail' = [trail EXCEPT ![k] = op.kind]
  BY <1>1, <1>2, <1>4 DEF AuditRow, AuditTypes
<1>5. CASE delayed' = [delayed EXCEPT ![k] = Append(@, op.kind)] /\ UNCHANGED trail
  <2>1. Append(delayed[k], op.kind) \in Seq(Kinds)
    BY <1>1, <1>2 DEF AuditTypes
  <2> QED BY <1>1, <1>2, <1>5, <2>1 DEF AuditRow, AuditTypes
<1> QED BY <1>3, <1>4, <1>5 DEF AuditRow

\* The steps after a write: the mirror and the audit row.
LEMMA MirrorAndAuditStep ==
  ASSUME IInv, WriteYAML \/ \E k \in op.unaudited : Audit(k) PROVE IInv'
<1>1. op \in OpType /\ op # Idle /\ up /\ op.kind \in Kinds /\ served \subseteq Route
  BY DEF IInv, TypeOK, OpType, InFlightOK, WriteYAML, Audit, Idle
<1>2. /\ op' \in OpType
      /\ op' = Idle \/ (op'.kind = op.kind /\ op'.todo = op.todo)
      /\ op' = Idle => op.todo = {}
  <2>1. CASE WriteYAML
    <3> DEFINE o == [op EXCEPT !.unmirrored = FALSE]
    <3>1. o \in OpType /\ o.kind = op.kind /\ o.todo = op.todo /\ op' = Rest(o)
      BY <1>1, <2>1 DEF OpType, WriteYAML
    <3>2. o # Idle
      BY <1>1, <3>1, RestIsOp DEF Kinds
    <3> QED BY <3>1, <3>2, RestIsOp
  <2>2. CASE \E k \in op.unaudited : Audit(k)
    <3> DEFINE o == [op EXCEPT !.unaudited = {}]
    <3>1. o \in OpType /\ o.kind = op.kind /\ o.todo = op.todo /\ op' = Rest(o)
      BY <1>1, <2>2 DEF OpType, Audit
    <3>2. o # Idle
      BY <1>1, <3>1, RestIsOp DEF Kinds
    <3> QED BY <3>1, <3>2, RestIsOp
  <2> QED BY <2>1, <2>2
<1>3. UNCHANGED <<memogo, late, up, served, settings, synced, unsure>>
  BY DEF WriteYAML, Audit, memory
<1>4. AuditTypes'
  BY AuditRowTypes DEF WriteYAML, Audit, audits, IInv, TypeOK, AuditTypes
<1>5. yaml' \in [routes : SUBSET Route, settings : {"operator", "blank"}]
  BY <1>1 DEF WriteYAML, Audit, IInv, TypeOK, Torn
<1>6. TypeOK'
  BY <1>1, <1>2, <1>3, <1>4, <1>5 DEF IInv, TypeOK, OpType, AuditTypes
<1>7. InFlightOK'
  BY <1>1, <1>2, <1>3, RestIsOp DEF IInv, InFlightOK, WriteOK, HasHost
<1>8. AgreementByRoute'
  <2>1. BeingPruned' = BeingPruned
    BY <1>2, RestIsOp DEF BeingPruned
  <2> QED BY <2>1, <1>3 DEF IInv, AgreementByRoute, Agrees
<1> QED BY <1>3, <1>6, <1>7, <1>8 DEF IInv, UniqueHosts, LateInDoubt

\* The process ends: memory is gone, and the call in progress is in doubt.
LEMMA CrashStep == IInv /\ Crash => IInv'
<1> SUFFICES ASSUME IInv, Crash PROVE IInv' OBVIOUS
<1>1. op' = Idle /\ op' \in OpType /\ op'.todo = {} /\ served' = {} /\ synced' = FALSE
  BY RestIsOp DEF Crash
<1>2. memogo' \in [Keys -> Row] /\ late' \subseteq Write /\ unsure' \subseteq Keys /\ LateInDoubt'
  BY InFlightIsUp DEF Crash, Storing, Unanswered, IInv, TypeOK, LateInDoubt
<1>3. yaml' \in [routes : SUBSET Route, settings : {"operator", "blank"}]
  BY DEF Crash, IInv, TypeOK, Torn
<1>4. AuditTypes'
  <2>1. AuditTypes /\ op.unaudited \subseteq Keys
    BY DEF IInv, TypeOK, AuditTypes
  <2>2. CASE UNCHANGED <<trail, delayed>> /\ missed' = missed \cup op.unaudited
    BY <2>1, <2>2 DEF AuditTypes
  <2>3. ASSUME NEW w \in op.todo, UNCHANGED <<trail, delayed>>, missed' = missed \cup {w.key}
        PROVE  AuditTypes'
    BY <2>1, <2>3, InFlightIsUp DEF AuditTypes, IInv
  <2> QED BY <2>2, <2>3, AuditRowTypes DEF Crash
<1>5. TypeOK'
  BY <1>1, <1>2, <1>3, <1>4 DEF Crash, IInv, TypeOK, OpType, AuditTypes
<1> QED BY <1>1, <1>2, <1>5 DEF IInv, UniqueHosts, InFlightOK, AgreementByRoute

\* An outstanding write lands, or is lost: its key is in doubt already.
LEMMA LateStep ==
  ASSUME IInv, NEW w \in late, LateWriteLands(w) \/ LateWriteLost(w) PROVE IInv'
<1>1. w \in Write /\ w.key \in Keys /\ w.row \in Row /\ w.key \in unsure
  BY DEF IInv, TypeOK, Write, LateInDoubt
<1>2. UNCHANGED <<trail, delayed, missed, up, served, settings, yaml, op, synced, unsure>>
  BY DEF LateWriteLands, LateWriteLost, memory, audits
<1>3. /\ memogo' \in [Keys -> Row] /\ late' \subseteq late
      /\ \A k \in Keys \ unsure : memogo'[k] = memogo[k]
  BY <1>1 DEF LateWriteLands, LateWriteLost, IInv, TypeOK
<1>4. TypeOK'
  BY <1>2, <1>3 DEF IInv, TypeOK
<1>5. InFlightOK'
  <2>1. \A v \in op.todo : v.key \in Keys
    BY InFlightIsUp DEF IInv
  <2> QED BY <1>2, <1>3, <2>1 DEF IInv, InFlightOK, WriteOK, HasHost
<1>6. AgreementByRoute'
  BY <1>2, <1>3 DEF IInv, AgreementByRoute, Agrees, BeingPruned
<1> QED BY <1>2, <1>3, <1>4, <1>5, <1>6 DEF IInv, UniqueHosts, LateInDoubt

\* An audit row that lands late touches the trail only.
LEMMA LateAuditStep ==
  ASSUME IInv, NEW k \in Keys, NEW i \in DOMAIN delayed[k], LateAuditLands(k, i) PROVE IInv'
<1>1. delayed[k] \in Seq(Kinds) /\ delayed[k][i] \in Kinds
  BY DEF IInv, TypeOK
<1>2. SubSeq(delayed[k], i + 1, Len(delayed[k])) \in Seq(Kinds)
  BY <1>1, SubSeqProperties
<1>3. TypeOK'
  BY <1>1, <1>2 DEF IInv, TypeOK, LateAuditLands, memory
<1> QED BY <1>3 DEF IInv, UniqueHosts, InFlightOK, WriteOK, HasHost, LateInDoubt,
                    AgreementByRoute, Agrees, BeingPruned, LateAuditLands, memory

-----------------------------------------------------------------------------
(* The invariant, and what follows from it. *)

\* Every step keeps the invariant.
LEMMA NextIInv == IInv /\ [Next]_vars => IInv'
<1> SUFFICES ASSUME IInv, [Next]_vars PROVE IInv' OBVIOUS
<1>1. CASE Begin
  BY <1>1, LoadStep, AddRouteStep, RemoveRouteStep, PruneStep, PurgeStep DEF Begin
<1>2. CASE Continue
  BY <1>2, StoreConfirmedStep, StoreFailedStep, MirrorAndAuditStep DEF Continue
<1>3. CASE Environment
  BY <1>3, CrashStep, LateStep, LateAuditStep DEF Environment
<1>4. CASE UNCHANGED vars
  BY <1>4 DEF vars, audits, memory, IInv, TypeOK, UniqueHosts, InFlightOK, WriteOK, HasHost, LateInDoubt,
              AgreementByRoute, Agrees, BeingPruned
<1> QED BY <1>1, <1>2, <1>3, <1>4 DEF Next

\* The invariant holds in every reachable state: types, unique hosts, what is
\* known of the operation that holds Store.mu, outstanding writes in doubt,
\* and agreement with Memogo route by route.
THEOREM Invariance == Spec => []IInv
BY InitIInv, NextIInv, PTL DEF Spec

\* Every variable of the store has its type in every reachable state, and a
\* process that is down holds nothing.
THEOREM TypeCorrect == Spec => []TypeOK
BY Invariance, PTL DEF IInv

\* No two routes the daemon serves share a host, whatever fails.
THEOREM HostsAreUnique == Spec => []UniqueHosts
BY Invariance, PTL DEF IInv

\* Agreement by route is agreement.
LEMMA AgreementFromInvariant == IInv => Agreement
<1> SUFFICES ASSUME IInv, synced, NEW k \in Keys \ (unsure \cup BeingPruned)
             PROVE  {r \in served : r.host = k} = {r \in LiveRoutes(memogo) : r.host = k}
  BY DEF Agreement
<1>1. memogo \in [Keys -> Row] /\ served \subseteq Route /\ Agrees(k)
  BY DEF IInv, TypeOK, AgreementByRoute
<1>2. ASSUME NEW r \in Route, r.host = k PROVE r \in served <=> r \in LiveRoutes(memogo)
  <2>1. r.body \in Bodies /\ r = [host |-> k, body |-> r.body]
    BY <1>2 DEF Route
  <2> QED BY <1>1, <2>1, LiveRoutesAreRoutes DEF Agrees
<1> QED BY <1>1, <1>2, LiveRoutesAreRoutes

\* Since a LoadConfig that could list Memogo, the table the proxy is built
\* from and Memogo's rows are the same on every key that has no unanswered
\* write and is not being pruned.
THEOREM StoresAgree == Spec => []Agreement
BY Invariance, AgreementFromInvariant, PTL

\* A live row that is not in doubt goes away only in a remove or a prune.
THEOREM PurgeIsSafe == Spec => PurgeSparesLiveRoutes
<1>1. IInv /\ [Next]_vars =>
        \A k \in Keys \ unsure :
          IsLive(memogo[k]) /\ ~IsLive(memogo'[k]) => op.kind \in {"remove", "prune"}
  <2> SUFFICES ASSUME IInv, [Next]_vars, NEW k \in Keys \ unsure,
                      IsLive(memogo[k]), ~IsLive(memogo'[k])
               PROVE  op.kind \in {"remove", "prune"}
    OBVIOUS
  <2>0. /\ memogo \in [Keys -> Row] /\ \A w \in op.todo : WriteOK(w) /\ w.key \in Keys
        /\ \A w \in late : w.key \in unsure
        /\ op.kind \in Kinds \cup {"idle"} /\ (op.kind = "idle" => op.todo = {})
    BY InFlightIsUp, RestIsOp DEF IInv, TypeOK, InFlightOK, LateInDoubt
  <2>1. PICK w : /\ w \in op.todo \cup late
                 /\ memogo' = [memogo EXCEPT ![w.key] = w.row]
    <3>1. ASSUME NEW j \in Keys, NEW i \in DOMAIN delayed[j], LateAuditLands(j, i) PROVE FALSE
      BY <3>1 DEF LateAuditLands
    <3> QED BY <3>1 DEF Next, Begin, Continue, Environment, LoadListed, LoadUnlisted, AddRoute,
           RemoveRoute, PruneInvalidRoutes, PurgeTombstones, StoreConfirmed, StoreRefused,
           StoreTimedOut, Unanswered, WriteYAML, Audit, Crash, LateWriteLands,
           LateWriteLost, vars
  <2>2. k = w.key /\ ~IsLive(w.row)
    BY <2>0, <2>1
  <2>3. w \in op.todo /\ WriteOK(w)
    BY <2>0, <2>1, <2>2
  <2> QED BY <2>0, <2>2, <2>3 DEF WriteOK, Kinds
<1> QED BY <1>1, Invariance, PTL DEF Spec, PurgeSparesLiveRoutes

-----------------------------------------------------------------------------
(* RouteStore implements RouteTable, and its audit trail tells the truth.
   Beside IInv the steps of the operation in flight need to know what it found
   when it began: a removal's host served, a prune's row a ghost's; and that a
   row about to be audited says what the audit says. *)

\* The row of k, if it is live, is a ghost's.
GhostRow(k) == IsLive(memogo[k]) => IsGhost([host |-> k, body |-> memogo[k].body])

PendingOK ==
  \A w \in op.todo :
    /\ op.kind = "remove" => HasHost(served, w.key)
    /\ op.kind = "prune" => w.key \in unsure \/ GhostRow(w.key)

UnlistedHasNoGhosts == ~synced => \A r \in served : ~IsGhost(r)

AuditOK ==
  /\ \A j, k \in op.unaudited : j = k
  /\ \A k \in op.unaudited \ unsure : op.kind = "add" <=> IsLive(memogo[k])

JInv == IInv /\ PendingOK /\ UnlistedHasNoGhosts /\ AuditOK

-----------------------------------------------------------------------------
(* JInv is an invariant: one lemma per kind of step. *)

\* Initially nothing is in flight and nothing is served.
LEMMA InitJInv == Init => JInv
<1> SUFFICES ASSUME Init PROVE JInv OBVIOUS
<1>1. op.todo = {} /\ op.unaudited = {} /\ served = {}
  BY DEF Init, Idle
<1> QED BY <1>1, InitIInv DEF JInv, PendingOK, UnlistedHasNoGhosts, AuditOK

\* With the lock free there is nothing to show of the operation in flight.
LEMMA IdleIsQuiet == op = Idle => PendingOK /\ AuditOK
BY DEF Idle, PendingOK, AuditOK

\* Loads and crashes leave the lock free.
LEMMA LoadOrCrashJ ==
  ASSUME JInv, LoadListed \/ LoadUnlisted \/ Crash
  PROVE  (PendingOK /\ UnlistedHasNoGhosts /\ AuditOK)'
<1>1. op' = Idle
  BY DEF LoadListed, LoadUnlisted, Crash
<1>2. (PendingOK /\ AuditOK)'
  BY <1>1 DEF Idle, PendingOK, AuditOK
<1>3. UnlistedHasNoGhosts'
  BY DEF LoadListed, LoadUnlisted, Crash, UnlistedHasNoGhosts
<1> QED BY <1>2, <1>3

\* Adds, removals and purges begin.
LEMMA BeginJ ==
  ASSUME JInv,
         \/ \E h \in Hosts, b \in Bodies : AddRoute(h, b)
         \/ \E h \in Keys : RemoveRoute(h)
         \/ PurgeTombstones
  PROVE  (PendingOK /\ UnlistedHasNoGhosts /\ AuditOK)'
<1>1. op'.unaudited = {} /\ UNCHANGED <<served, synced>>
  BY DEF AddRoute, RemoveRoute, PurgeTombstones, Begun, memory
<1>2. PendingOK'
  <2>1. CASE \E h \in Keys : RemoveRoute(h)
    <3>1. PICK h \in Keys : RemoveRoute(h)
      BY <2>1
    <3>2. op'.kind = "remove" /\ op'.todo = {[key |-> h, row |-> Tombstone]} /\ HasHost(served, h)
      BY <3>1 DEF RemoveRoute, Begun
    <3> QED BY <1>1, <3>2 DEF PendingOK, HasHost
  <2>2. CASE (\E h \in Hosts, b \in Bodies : AddRoute(h, b)) \/ PurgeTombstones
    <3>1. op'.kind \in {"add", "purge"}
      BY <2>2 DEF AddRoute, PurgeTombstones, Begun
    <3> QED BY <3>1 DEF PendingOK
  <2> QED BY <2>1, <2>2
<1> QED BY <1>1, <1>2 DEF JInv, UnlistedHasNoGhosts, AuditOK

\* A prune begins: a served ghost whose key is not in doubt is a ghost in
\* Memogo too, by agreement, and none is served unless Memogo was listed.
LEMMA PruneJ ==
  ASSUME JInv, PruneInvalidRoutes
  PROVE  (PendingOK /\ UnlistedHasNoGhosts /\ AuditOK)'
<1> DEFINE ghosts == {r \in served : IsGhost(r)}
<1>1. /\ op'.kind = "prune" /\ op'.unaudited = {}
      /\ op'.todo = {[key |-> r.host, row |-> Tombstone] : r \in ghosts}
      /\ UNCHANGED <<memogo, unsure, synced>> /\ served' \subseteq served
  BY DEF PruneInvalidRoutes, Begun
<1>2. ASSUME NEW r \in ghosts, r.host \notin unsure PROVE GhostRow(r.host)
  <2>1. synced
    BY DEF JInv, UnlistedHasNoGhosts
  <2>2. r.host \in Keys /\ r.body \in Bodies /\ r = [host |-> r.host, body |-> r.body]
    BY DEF JInv, IInv, TypeOK, Route
  <2>3. BeingPruned = {}
    BY RestIsOp DEF PruneInvalidRoutes, CanBegin, BeingPruned
  <2>4. Agrees(r.host)
    BY <1>2, <2>1, <2>2, <2>3 DEF JInv, IInv, AgreementByRoute
  <2>5. memogo[r.host].body = r.body
    BY <2>2, <2>4 DEF Agrees
  <2> QED BY <2>2, <2>5 DEF GhostRow
<1>3. PendingOK'
  <2> SUFFICES ASSUME NEW w \in op'.todo PROVE w.key \in unsure \/ GhostRow(w.key)'
    BY <1>1 DEF PendingOK
  <2>1. PICK r \in ghosts : w = [key |-> r.host, row |-> Tombstone]
    BY <1>1
  <2>2. w.key = r.host
    BY <2>1
  <2> QED BY <1>1, <1>2, <2>2 DEF GhostRow
<1> QED BY <1>1, <1>3 DEF JInv, UnlistedHasNoGhosts, AuditOK

\* A confirmed write is what its audit row will say; the other writes of a
\* prune are to other keys.
LEMMA ConfirmedJ ==
  ASSUME JInv, NEW w \in op.todo, StoreConfirmed(w)
  PROVE  (PendingOK /\ UnlistedHasNoGhosts /\ AuditOK)'
<1>1. /\ w \in Write /\ w.key \in Keys /\ WriteOK(w) /\ memogo \in [Keys -> Row]
      /\ op.kind \in Kinds /\ op \in OpType
  <2>1. op # Idle
    BY RestIsOp
  <2> QED BY <2>1, InFlightIsUp DEF JInv, IInv, InFlightOK, TypeOK, OpType
<1>2. op'.kind = op.kind /\ op'.todo = op.todo \ {w} /\ op'.unaudited = {w.key}
  BY <1>1 DEF StoreConfirmed, OpType
<1>3. /\ memogo'[w.key] = w.row
      /\ \A k \in Keys : k # w.key => memogo'[k] = memogo[k]
      /\ \A k \in unsure : k # w.key => k \in unsure'
  BY <1>1 DEF StoreConfirmed
<1>4. PendingOK'
  <2> SUFFICES ASSUME NEW v \in op.todo, v # w, op.kind \in {"remove", "prune"}
               PROVE  op.kind = "prune" /\ (v.key \in unsure' \/ GhostRow(v.key)')
    BY <1>2 DEF PendingOK
  <2>1. op.kind = "prune"
    BY DEF JInv, IInv, InFlightOK
  <2>2. v \in Write /\ v.key \in Keys /\ WriteOK(v)
    BY InFlightIsUp DEF JInv, IInv, InFlightOK
  <2>3. v.key # w.key
    BY <1>1, <2>1, <2>2 DEF WriteOK, Write
  <2>4. v.key \in unsure \/ GhostRow(v.key)
    BY <2>1 DEF JInv, PendingOK
  <2> QED BY <1>3, <2>1, <2>2, <2>3, <2>4 DEF GhostRow
<1>5. UnlistedHasNoGhosts'
  <2>1. CASE op.kind = "add"
    <3>1. ~IsGhost([host |-> w.key, body |-> w.row.body])
      BY <1>1, <2>1 DEF WriteOK, IsGhost
    <3> QED BY <2>1, <3>1 DEF StoreConfirmed, ServedAfter, JInv, UnlistedHasNoGhosts
  <2>2. CASE op.kind # "add"
    BY <2>2 DEF StoreConfirmed, ServedAfter, JInv, UnlistedHasNoGhosts
  <2> QED BY <2>1, <2>2
<1>6. AuditOK'
  BY <1>1, <1>2, <1>3, RowsAreRows DEF AuditOK, WriteOK, Kinds
<1> QED BY <1>4, <1>5, <1>6

\* A failed write ends the operation, or leaves its key in doubt.
LEMMA FailedJ ==
  ASSUME JInv, NEW w \in op.todo, StoreRefused(w) \/ StoreTimedOut(w)
  PROVE  (PendingOK /\ UnlistedHasNoGhosts /\ AuditOK)'
<1>1. op' = AfterError(w) /\ UNCHANGED <<served, synced>>
  BY DEF StoreRefused, StoreTimedOut, memory
<1>2. /\ op.kind = "prune" => unsure' = unsure \cup {w.key}
      /\ w.key \in Keys /\ memogo \in [Keys -> Row] /\ op \in OpType
      /\ \A k \in Keys : k \notin unsure' => memogo'[k] = memogo[k]
      /\ unsure \subseteq unsure'
  BY InFlightIsUp
     DEF StoreRefused, StoreTimedOut, Unanswered, JInv, IInv, TypeOK, OpType
<1>3. CASE op.kind = "prune"
  <2>1. op'.kind = "prune" /\ op'.todo \subseteq op.todo /\ op'.unaudited = {w.key}
    BY <1>1, <1>2, <1>3 DEF AfterError, OpType
  <2>2. PendingOK'
    <3> SUFFICES ASSUME NEW v \in op.todo PROVE v.key \in unsure' \/ GhostRow(v.key)'
      BY <2>1 DEF PendingOK
    <3>1. v.key \in Keys /\ (v.key \in unsure \/ GhostRow(v.key))
      BY <1>3, InFlightIsUp DEF JInv, IInv, PendingOK
    <3> QED BY <1>2, <3>1 DEF GhostRow
  <2> QED BY <1>1, <1>2, <1>3, <2>1, <2>2 DEF JInv, UnlistedHasNoGhosts, AuditOK
<1>4. CASE op.kind # "prune"
  <2>1. op' = Idle
    BY <1>1, <1>4 DEF AfterError
  <2> QED BY <1>1, <2>1 DEF Idle, PendingOK, AuditOK, JInv, UnlistedHasNoGhosts
<1> QED BY <1>3, <1>4

\* The mirror and the audit row leave the rest of the operation as it is.
LEMMA MirrorAndAuditJ ==
  ASSUME JInv, WriteYAML \/ \E k \in op.unaudited : Audit(k)
  PROVE  (PendingOK /\ UnlistedHasNoGhosts /\ AuditOK)'
<1>1. UNCHANGED <<memogo, served, synced, unsure>>
  BY DEF WriteYAML, Audit, memory
<1>2. \/ op' = Idle
      \/ op'.kind = op.kind /\ op'.todo = op.todo /\ op'.unaudited \subseteq op.unaudited
  <2>1. op \in OpType
    BY DEF JInv, IInv, TypeOK, OpType
  <2> QED BY <2>1 DEF WriteYAML, Audit, Rest, OpType
<1>3. CASE op' = Idle
  BY <1>1, <1>3 DEF Idle, PendingOK, AuditOK, JInv, UnlistedHasNoGhosts
<1>4. CASE op'.kind = op.kind /\ op'.todo = op.todo /\ op'.unaudited \subseteq op.unaudited
  BY <1>1, <1>4 DEF JInv, PendingOK, UnlistedHasNoGhosts, AuditOK, HasHost, GhostRow
<1> QED BY <1>2, <1>3, <1>4

\* A late write disturbs keys in doubt only.
LEMMA LateJ ==
  ASSUME JInv, NEW w \in late, LateWriteLands(w) \/ LateWriteLost(w)
  PROVE  (PendingOK /\ UnlistedHasNoGhosts /\ AuditOK)'
<1>1. /\ UNCHANGED <<op, served, synced, unsure>>
      /\ \A k \in Keys \ unsure : memogo'[k] = memogo[k]
  BY DEF LateWriteLands, LateWriteLost, memory, JInv, IInv, TypeOK, LateInDoubt, Write
<1>2. \A v \in op.todo : v.key \in Keys
  BY InFlightIsUp DEF JInv, IInv
<1>3. op.unaudited \subseteq Keys
  BY DEF JInv, IInv, TypeOK
<1> QED BY <1>1, <1>2, <1>3
        DEF JInv, PendingOK, UnlistedHasNoGhosts, AuditOK, HasHost, GhostRow

\* Every step keeps the strengthened invariant.
LEMMA NextJInv == JInv /\ [Next]_vars => JInv'
<1> SUFFICES ASSUME JInv, [Next]_vars PROVE JInv' OBVIOUS
<1>1. IInv'
  BY NextIInv DEF JInv
<1>2. (PendingOK /\ UnlistedHasNoGhosts /\ AuditOK)'
  <2>1. CASE Begin
    BY <2>1, LoadOrCrashJ, BeginJ, PruneJ DEF Begin
  <2>2. CASE Continue
    BY <2>2, ConfirmedJ, FailedJ, MirrorAndAuditJ DEF Continue
  <2>3. CASE Environment
    <3>1. ASSUME NEW k \in Keys, NEW i \in DOMAIN delayed[k], LateAuditLands(k, i)
          PROVE  (PendingOK /\ UnlistedHasNoGhosts /\ AuditOK)'
      BY <3>1 DEF LateAuditLands, memory, JInv, PendingOK, UnlistedHasNoGhosts, AuditOK,
                  HasHost, GhostRow
    <3> QED BY <2>3, <3>1, LoadOrCrashJ, LateJ DEF Environment
  <2>4. CASE UNCHANGED vars
    BY <2>4 DEF vars, audits, memory, JInv, PendingOK, UnlistedHasNoGhosts, AuditOK, HasHost, GhostRow
  <2> QED BY <2>1, <2>2, <2>3, <2>4 DEF Next
<1> QED BY <1>1, <1>2 DEF JInv

\* What an operation in flight has found stays true while it is in flight.
THEOREM InFlightInvariance == Spec => []JInv
BY InitJInv, NextJInv, PTL DEF Spec

-----------------------------------------------------------------------------
(* The audit trail.  A key with a write in doubt, or with an audit row that is
   still on its way, is among those missed; and a key leaves them only with an
   audit row that is stored while no write to it is in doubt. *)

TrailOK ==
  /\ unsure \subseteq missed
  /\ \A k \in Keys : delayed[k] # <<>> => k \in missed
  /\ AuditTellsTruth

\* What changes neither rows nor trail keeps the trail true, if it leaves no
\* row unaudited.
LEMMA TrailStutters ==
  ASSUME TrailOK, UNCHANGED <<memogo, audits>>, unsure' \subseteq unsure,
         op.unaudited \subseteq op'.unaudited
  PROVE  TrailOK'
BY DEF TrailOK, AuditTellsTruth, audits

\* A write, answered or not, changes the row of its own key only, which is
\* then about to be audited or among those missed.
LEMMA TrailAfterWrite ==
  ASSUME JInv, TrailOK, NEW w \in op.todo,
         StoreConfirmed(w) \/ StoreRefused(w) \/ StoreTimedOut(w)
  PROVE  TrailOK'
<1>1. w.key \in Keys /\ memogo \in [Keys -> Row] /\ op \in OpType /\ op.unaudited = {}
  BY InFlightIsUp DEF JInv, IInv, TypeOK, OpType, StoreConfirmed, StoreRefused,
                      StoreTimedOut, Storing
<1>2. \A k \in Keys : k # w.key => memogo'[k] = memogo[k]
  BY <1>1 DEF StoreConfirmed, StoreRefused, StoreTimedOut, Unanswered
<1>3. CASE StoreConfirmed(w)
  <2>1. op'.unaudited = {w.key} /\ unsure' \subseteq unsure /\ UNCHANGED audits
    BY <1>1, <1>3 DEF StoreConfirmed, OpType
  <2> QED BY <1>1, <1>2, <2>1 DEF TrailOK, AuditTellsTruth, audits
<1>4. CASE StoreTimedOut(w)
  BY <1>1, <1>2, <1>4 DEF StoreTimedOut, TrailOK, AuditTellsTruth
<1>5. CASE StoreRefused(w)
  <2>1. unsure' \subseteq missed' /\ missed \subseteq missed' /\ UNCHANGED <<memogo, trail, delayed>>
    BY <1>5 DEF StoreRefused
  <2> QED BY <1>1, <2>1 DEF TrailOK, AuditTellsTruth
<1> QED BY <1>3, <1>4, <1>5

\* An audit row that is stored tells the truth, unless its key is in doubt; one
\* that is not makes its key one of those missed.
LEMMA TrailAfterAudit ==
  ASSUME JInv, TrailOK, NEW k \in op.unaudited, AuditRow(k), UNCHANGED <<memogo, unsure>>
  PROVE  TrailOK'
<1>1. /\ k \in Keys /\ \A j \in op.unaudited : j = k
      /\ k \notin unsure => (op.kind = "add" <=> IsLive(memogo[k]))
      /\ trail \in [Keys -> Kinds \cup {"none"}] /\ delayed \in [Keys -> Seq(Kinds)]
  BY DEF JInv, IInv, TypeOK, AuditOK
<1>2. CASE /\ trail' = [trail EXCEPT ![k] = op.kind]
           /\ delayed' = [delayed EXCEPT ![k] = <<>>]
           /\ missed' = IF k \in unsure THEN missed ELSE missed \ {k}
  <2>1. unsure' \subseteq missed'
    BY <1>2 DEF TrailOK
  <2>2. \A j \in Keys : delayed'[j] # <<>> => j \in missed'
    BY <1>1, <1>2 DEF TrailOK
  <2>3. ASSUME NEW j \in Keys \ missed', trail'[j] # "none"
        PROVE  trail'[j] = "add" <=> IsLive(memogo'[j])
    <3>1. CASE j = k
      BY <1>1, <1>2, <2>1, <2>3, <3>1
    <3>2. CASE j # k
      BY <1>1, <1>2, <2>3, <3>2 DEF TrailOK, AuditTellsTruth
    <3> QED BY <3>1, <3>2
  <2> QED BY <2>1, <2>2, <2>3 DEF TrailOK, AuditTellsTruth
<1>3. CASE missed' = missed \cup {k} /\ UNCHANGED <<trail, delayed>>
  BY <1>1, <1>3 DEF TrailOK, AuditTellsTruth
<1>4. CASE /\ delayed' = [delayed EXCEPT ![k] = Append(@, op.kind)]
           /\ missed' = missed \cup {k} /\ UNCHANGED trail
  <2>1. \A j \in Keys : j # k => delayed'[j] = delayed[j]
    BY <1>1, <1>4
  <2> QED BY <1>1, <1>4, <2>1 DEF TrailOK, AuditTellsTruth
<1> QED BY <1>2, <1>3, <1>4 DEF AuditRow

\* The end of the process leaves its unwritten audit row missed.
LEMMA TrailAfterCrash ==
  ASSUME JInv, TrailOK, Crash PROVE TrailOK'
<1>1. memogo \in [Keys -> Row] /\ op.unaudited \subseteq Keys
  BY DEF JInv, IInv, TypeOK
<1>2. CASE /\ missed' = missed \cup op.unaudited
           /\ UNCHANGED <<memogo, late, unsure, trail, delayed>>
  BY <1>2 DEF TrailOK, AuditTellsTruth
<1>3. ASSUME NEW w \in op.todo, Storing(w), Unanswered(w), unsure' = unsure \cup {w.key},
             missed' = missed \cup {w.key}, UNCHANGED <<trail, delayed>>
      PROVE  TrailOK'
  <2>1. w.key \in Keys /\ op.unaudited = {} /\ \A k \in Keys : k # w.key => memogo'[k] = memogo[k]
    BY <1>1, <1>3, InFlightIsUp DEF JInv, IInv, Storing, Unanswered
  <2> QED BY <1>3, <2>1 DEF TrailOK, AuditTellsTruth
<1>4. ASSUME NEW k \in op.unaudited, AuditRow(k), UNCHANGED <<memogo, late, unsure>>
      PROVE  TrailOK'
  BY <1>4, TrailAfterAudit
<1> QED BY <1>2, <1>3, <1>4 DEF Crash

\* Late writes and late audit rows touch keys that are missed.
LEMMA TrailAfterLate ==
  ASSUME JInv, TrailOK,
         \/ \E w \in late : LateWriteLands(w) \/ LateWriteLost(w)
         \/ \E k \in Keys : \E i \in DOMAIN delayed[k] : LateAuditLands(k, i)
  PROVE  TrailOK'
<1>1. /\ memogo \in [Keys -> Row] /\ delayed \in [Keys -> Seq(Kinds)]
      /\ trail \in [Keys -> Kinds \cup {"none"}]
  BY DEF JInv, IInv, TypeOK
<1>2. ASSUME NEW w \in late, LateWriteLands(w) \/ LateWriteLost(w) PROVE TrailOK'
  <2>1. w.key \in missed /\ \A k \in Keys : k # w.key => memogo'[k] = memogo[k]
    BY <1>1, <1>2 DEF LateWriteLands, LateWriteLost, JInv, IInv, LateInDoubt, TrailOK
  <2>2. UNCHANGED <<trail, delayed, missed, unsure, op>>
    BY <1>2 DEF LateWriteLands, LateWriteLost, audits
  <2> QED BY <2>1, <2>2 DEF TrailOK, AuditTellsTruth
<1>3. ASSUME NEW k \in Keys, NEW i \in DOMAIN delayed[k], LateAuditLands(k, i) PROVE TrailOK'
  <2>1. k \in missed
    BY <1>1, <1>3 DEF TrailOK
  <2>2. \A j \in Keys : j # k => trail'[j] = trail[j] /\ delayed'[j] = delayed[j]
    BY <1>1, <1>3 DEF LateAuditLands
  <2>3. UNCHANGED <<memogo, missed, unsure, op>>
    BY <1>3 DEF LateAuditLands
  <2> QED BY <2>1, <2>2, <2>3 DEF TrailOK, AuditTellsTruth
<1> QED BY <1>2, <1>3

\* Every step keeps the trail true.
LEMMA NextTrail == JInv /\ TrailOK /\ [Next]_vars => TrailOK'
<1> SUFFICES ASSUME JInv, TrailOK, [Next]_vars PROVE TrailOK' OBVIOUS
<1>1. CASE LoadListed \/ LoadUnlisted
  BY <1>1, TrailStutters DEF LoadListed, LoadUnlisted, JInv, IInv, LateInDoubt
<1>2. CASE \/ \E h \in Hosts, b \in Bodies : AddRoute(h, b)
           \/ \E h \in Keys : RemoveRoute(h)
           \/ PruneInvalidRoutes
           \/ PurgeTombstones
  <2>1. op.unaudited = {}
    <3>1. op = Idle
      BY <1>2 DEF AddRoute, RemoveRoute, PruneInvalidRoutes, PurgeTombstones, CanBegin
    <3> QED BY <3>1 DEF Idle
  <2>2. UNCHANGED <<memogo, audits>> /\ unsure' \subseteq unsure /\ op.unaudited \subseteq op'.unaudited
    BY <1>2, <2>1 DEF AddRoute, RemoveRoute, PruneInvalidRoutes, PurgeTombstones, audits
  <2> QED BY <2>2, TrailStutters
<1>3. CASE WriteYAML
  <2>1. op' = Rest([op EXCEPT !.unmirrored = FALSE]) /\ op \in OpType
    BY <1>3 DEF WriteYAML, JInv, IInv, TypeOK, OpType
  <2>2. op'.unaudited = op.unaudited
    BY <2>1 DEF Rest, OpType, Idle
  <2> QED BY <1>3, <2>2, TrailStutters DEF WriteYAML
<1>4. CASE Continue /\ ~WriteYAML
  BY <1>4, TrailAfterWrite, TrailAfterAudit DEF Continue, Audit
<1>5. CASE Environment
  BY <1>5, TrailAfterCrash, TrailAfterLate DEF Environment
<1>6. CASE UNCHANGED vars
  BY <1>6, TrailStutters DEF vars
<1> QED BY <1>1, <1>2, <1>3, <1>4, <1>5, <1>6 DEF Next, Begin

\* The newest audit row about a host says "add" exactly when the host is
\* registered, for every key but those about to be audited and those with a
\* write or an audit row that was not answered since the newest one: auditLocked
\* runs last, and no early return comes after the write it reports
\* (store.go:409-424, 453-470, 958-982).
THEOREM AuditIsTrue == Spec => []AuditTellsTruth
<1>1. Init => TrailOK
  BY DEF Init, TrailOK, AuditTellsTruth
<1>2. TrailOK => AuditTellsTruth
  BY DEF TrailOK
<1> QED BY <1>1, <1>2, NextTrail, InFlightInvariance, PTL DEF Spec
-----------------------------------------------------------------------------
(* The refinement: durable is what Memogo's rows list, known what is served. *)

\* The table durable becomes when w is written.
Rewritten(w) ==
  Table!Without(LiveRoutes(memogo), w.key)
    \cup {r \in Route : r.host = w.key /\ IsLive(w.row) /\ r.body = w.row.body}

\* A listing yields route r exactly when its row is live with r's body.
LEMMA WhatIsListed ==
  ASSUME NEW rows \in [Keys -> Row], NEW r \in Route
  PROVE  r \in LiveRoutes(rows) <=> IsLive(rows[r.host]) /\ rows[r.host].body = r.body
<1>1. PICK k \in Keys, b \in Bodies : r = [host |-> k, body |-> b]
  BY DEF Route
<1>2. r \in LiveRoutes(rows) <=> IsLive(rows[k]) /\ rows[k].body = b
  BY <1>1, LiveRoutesAreRoutes
<1> QED BY <1>1, <1>2

\* Writing one row takes the route of its key out, and puts the new one in.
LEMMA OneRowWritten ==
  ASSUME memogo \in [Keys -> Row], NEW w \in Write, memogo' = [memogo EXCEPT ![w.key] = w.row]
  PROVE  LiveRoutes(memogo') = Rewritten(w)
<1>1. w.key \in Keys /\ w.row \in Row /\ memogo' \in [Keys -> Row]
  BY DEF Write
<1>2. LiveRoutes(memogo) \subseteq Route /\ LiveRoutes(memogo') \subseteq Route
  BY <1>1, LiveRoutesAreRoutes
<1>3. ASSUME NEW r \in Route
      PROVE  r \in LiveRoutes(memogo') <=> r \in Rewritten(w)
  <2>1. r.host \in Keys
    BY DEF Route
  <2>2. /\ r \in LiveRoutes(memogo) <=> IsLive(memogo[r.host]) /\ memogo[r.host].body = r.body
        /\ r \in LiveRoutes(memogo') <=> IsLive(memogo'[r.host]) /\ memogo'[r.host].body = r.body
    BY <1>1, WhatIsListed
  <2>3. CASE r.host = w.key
    BY <1>1, <2>2, <2>3 DEF Rewritten, Table!Without
  <2>4. CASE r.host # w.key
    BY <1>1, <2>2, <2>4 DEF Rewritten, Table!Without
  <2> QED BY <2>3, <2>4
<1> QED BY <1>2, <1>3 DEF Rewritten, Table!Without

\* A row that is not live leaves nothing of its key; a live one leaves one route.
LEMMA WhatIsRewritten ==
  ASSUME NEW w \in Write
  PROVE  /\ ~IsLive(w.row) => Rewritten(w) = Table!Without(LiveRoutes(memogo), w.key)
         /\ IsLive(w.row) =>
              LET r == [host |-> w.key, body |-> w.row.body]
              IN  /\ r \in Route
                  /\ Rewritten(w) = Table!Without(LiveRoutes(memogo), w.key) \cup {r}
<1>1. CASE ~IsLive(w.row)
  BY <1>1 DEF Rewritten
<1>2. CASE IsLive(w.row)
  <2> DEFINE r == [host |-> w.key, body |-> w.row.body]
  <2>1. r \in Route
    BY <1>2, RowsAreRows DEF Write, Route
  <2>2. {s \in Route : s.host = w.key /\ IsLive(w.row) /\ s.body = w.row.body} = {r}
    BY <1>2, <2>1 DEF Route
  <2> QED BY <1>2, <2>1, <2>2 DEF Rewritten
<1> QED BY <1>1, <1>2

\* The initial states of the store are initial states of the table.
LEMMA InitRefines == Init => Table!Init
<1> SUFFICES ASSUME Init PROVE Table!Init OBVIOUS
<1>1. memogo \in [Keys -> Row]
  BY InitIInv DEF IInv, TypeOK
<1>2. LiveRoutes(memogo) \in SUBSET Table!Route
  BY <1>1, LiveRoutesAreRoutes DEF Table!Route, Route
<1>3. \A r, s \in LiveRoutes(memogo) : r.host = s.host => r = s
  BY <1>1, <1>2, LiveRoutesAreRoutes DEF Table!Route
<1> QED BY <1>2, <1>3 DEF Init, Table!Init

\* A step that leaves the four mapped variables alone is a stutter.
Stutter == UNCHANGED <<memogo, served, up, unsure>>

\* A stutter of the store is a stutter of the table.
LEMMA StutterRefines == Stutter => UNCHANGED Table!vars
BY DEF Stutter, Table!vars

\* A write that is answered.
LEMMA ConfirmedRefines ==
  ASSUME JInv, NEW w \in op.todo, StoreConfirmed(w)
  PROVE  Table!Next \/ UNCHANGED Table!vars
<1> DEFINE k == w.key
           r == [host |-> w.key, body |-> w.row.body]
<1>1. /\ w \in Write /\ w.key \in Keys /\ w.row \in Row /\ up /\ WriteOK(w) /\ op.kind \in Kinds
      /\ memogo \in [Keys -> Row] /\ served \subseteq Route
  <2>1. op # Idle
    BY RestIsOp
  <2> QED BY <2>1, InFlightIsUp DEF JInv, IInv, InFlightOK, TypeOK
<1>2. /\ memogo' = [memogo EXCEPT ![k] = w.row] /\ served' = ServedAfter(w) /\ up' = up
      /\ unsure' \in {unsure, unsure \ {k}}
      /\ op.kind = "purge" => unsure' = unsure
  BY DEF StoreConfirmed
<1>3. LiveRoutes(memogo') = Rewritten(w)
  BY <1>1, <1>2, OneRowWritten
<1>4. CASE op.kind = "add"
  <2>1. /\ IsLive(w.row) /\ ~HasHost(served, k) /\ ~IsGhost(r)
        /\ served' = served \cup {r}
    BY <1>1, <1>2, <1>4 DEF WriteOK, ServedAfter, IsGhost
  <2>2. r \in Route /\ r.host = k /\ LiveRoutes(memogo') = Table!Without(LiveRoutes(memogo), k) \cup {r}
    BY <1>1, <1>3, <2>1, WhatIsRewritten
  <2>3. Table!Register(r)
    BY <1>1, <1>2, <2>1, <2>2 DEF Table!Register, Table!Registered, HasHost
  <2> QED BY <2>2, <2>3 DEF Table!Next, Table!Route, Route
<1>5. CASE op.kind # "add"
  <2>1. ~IsLive(w.row)
    BY <1>1, <1>5, RowsAreRows DEF WriteOK, Kinds
  <2>2. LiveRoutes(memogo') = Table!Without(LiveRoutes(memogo), k)
    BY <1>1, <1>3, <2>1, WhatIsRewritten
  <2>3. CASE op.kind = "remove"
    <3>1. HasHost(served, k) /\ served' = Table!Without(served, k)
      BY <1>2, <2>3 DEF JInv, PendingOK, ServedAfter, Table!Without
    <3>2. Table!Unregister(k)
      BY <1>2, <2>2, <3>1 DEF Table!Unregister, Table!Registered, HasHost
    <3> QED BY <1>1, <3>2 DEF Table!Next
  <2>4. CASE op.kind = "prune"
    <3>1. ~HasHost(served, k) /\ served' = served
      BY <1>1, <1>2, <2>4 DEF WriteOK, ServedAfter
    <3>2. ASSUME NEW s \in LiveRoutes(memogo), s.host = k PROVE IsGhost(s) \/ k \in unsure
      <4>1. s \in Route /\ IsLive(memogo[k]) /\ memogo[k].body = s.body
        BY <1>1, <3>2, LiveRoutesAreRoutes
      <4>2. s = [host |-> k, body |-> memogo[k].body]
        BY <3>2, <4>1 DEF Route
      <4> QED BY <2>4, <4>1, <4>2 DEF JInv, PendingOK, GhostRow
    <3>3. Table!DropGhost(k)
      BY <1>1, <1>2, <2>2, <3>1, <3>2 DEF Table!DropGhost, Table!Registered, HasHost
    <3> QED BY <1>1, <3>3 DEF Table!Next
  <2>5. CASE op.kind = "purge"
    <3>1. served' = served /\ unsure' = unsure /\ up' = up
      BY <1>2, <2>5 DEF ServedAfter
    <3>2. CASE k \in unsure
      BY <1>1, <2>2, <3>1, <3>2 DEF Table!Stray, Table!Next
    <3>3. CASE k \notin unsure
      <4>1. ~IsLive(memogo[k])
        BY <1>1, <2>5, <3>3 DEF WriteOK
      <4>2. Table!Without(LiveRoutes(memogo), k) = LiveRoutes(memogo)
        BY <1>1, <4>1, LiveRoutesAreRoutes DEF Table!Without
      <4> QED BY <2>2, <3>1, <4>2 DEF Table!vars
    <3> QED BY <3>2, <3>3
  <2> QED BY <1>1, <1>5, <2>3, <2>4, <2>5 DEF Kinds
<1> QED BY <1>4, <1>5

\* A write whose fate nobody knows is one the table leaves in doubt.
LEMMA UnansweredRefines ==
  ASSUME JInv, NEW w \in op.todo, Unanswered(w), unsure' = unsure \cup {w.key}
  PROVE  Table!Unanswered(w.key)
<1>1. /\ w \in Write /\ w.key \in Keys /\ w.row \in Row /\ WriteOK(w) /\ op.kind \in Kinds
      /\ memogo \in [Keys -> Row]
  <2>1. op # Idle
    BY RestIsOp
  <2> QED BY <2>1, InFlightIsUp DEF JInv, IInv, InFlightOK, TypeOK
<1>2. CASE memogo' = memogo
  BY <1>2 DEF Table!Unanswered
<1>3. CASE memogo' = [memogo EXCEPT ![w.key] = w.row]
  <2>1. LiveRoutes(memogo') = Rewritten(w)
    BY <1>1, <1>3, OneRowWritten
  <2>2. CASE IsLive(w.row)
    <3> DEFINE r == [host |-> w.key, body |-> w.row.body]
    <3>1. op.kind = "add" /\ ~HasHost(served, w.key)
      BY <1>1, <2>2, RowsAreRows DEF WriteOK, Kinds
    <3>2. /\ r \in Table!Route /\ r.host = w.key
          /\ LiveRoutes(memogo') = Table!Without(LiveRoutes(memogo), w.key) \cup {r}
      BY <1>1, <2>1, <2>2, WhatIsRewritten DEF Table!Route, Route
    <3> QED BY <3>1, <3>2 DEF Table!Unanswered, Table!Registered, HasHost
  <2>3. CASE ~IsLive(w.row)
    BY <1>1, <2>1, <2>3, WhatIsRewritten DEF Table!Unanswered
  <2> QED BY <2>2, <2>3
<1> QED BY <1>2, <1>3 DEF Unanswered

\* A write that failed.
LEMMA FailedRefines ==
  ASSUME JInv, NEW w \in op.todo, StoreRefused(w) \/ StoreTimedOut(w)
  PROVE  Table!Next \/ UNCHANGED Table!vars
<1>1. w.key \in Keys /\ up /\ UNCHANGED <<served, up>>
  BY InFlightIsUp DEF JInv, IInv, StoreRefused, StoreTimedOut, memory
<1>2. CASE StoreTimedOut(w)
  <2>1. Table!Unanswered(w.key)
    BY <1>2, UnansweredRefines DEF StoreTimedOut
  <2> QED BY <1>1, <2>1 DEF Table!Timeout, Table!Next
<1>3. CASE StoreRefused(w) /\ op.kind = "prune"
  <2>1. Table!Unanswered(w.key)
    BY <1>3 DEF StoreRefused, Table!Unanswered
  <2> QED BY <1>1, <2>1 DEF Table!Timeout, Table!Next
<1>4. CASE StoreRefused(w) /\ op.kind # "prune"
  BY <1>1, <1>4 DEF StoreRefused, Table!vars
<1> QED BY <1>2, <1>3, <1>4

\* A load tells the daemon the durable table, or nothing.
LEMMA LoadRefines ==
  ASSUME JInv, LoadListed \/ LoadUnlisted
  PROVE  Table!Next
<1>1. CASE LoadListed
  <2>1. unsure' \in SUBSET unsure
    BY <1>1 DEF LoadListed, JInv, IInv, LateInDoubt
  <2> QED BY <1>1, <2>1 DEF LoadListed, Table!Load, Table!Next
<1>2. CASE LoadUnlisted
  BY <1>2 DEF LoadUnlisted, Table!Load, Table!Next
<1> QED BY <1>1, <1>2

\* The end of the process stops the table, a call in progress left in doubt.
LEMMA CrashRefines ==
  ASSUME JInv, Crash
  PROVE  Table!Next
<1>1. CASE UNCHANGED <<memogo, late, unsure>>
  BY <1>1 DEF Crash, Table!Stop, Table!Next
<1>2. CASE \E w \in op.todo : Storing(w) /\ Unanswered(w) /\ unsure' = unsure \cup {w.key}
  <2>1. PICK w \in op.todo : Unanswered(w) /\ unsure' = unsure \cup {w.key}
    BY <1>2
  <2>2. w.key \in Keys /\ Table!Unanswered(w.key)
    BY <2>1, UnansweredRefines, InFlightIsUp DEF JInv, IInv
  <2> QED BY <2>2 DEF Crash, Table!Stop, Table!Next
<1> QED BY <1>1, <1>2 DEF Crash

\* A late write strays into a key in doubt.
LEMMA LateRefines ==
  ASSUME JInv, NEW w \in late, LateWriteLands(w) \/ LateWriteLost(w)
  PROVE  Table!Next \/ UNCHANGED Table!vars
<1>1. /\ w \in Write /\ w.key \in Keys /\ w.key \in unsure /\ memogo \in [Keys -> Row]
      /\ UNCHANGED <<served, up, unsure>>
  BY DEF JInv, IInv, TypeOK, Write, LateInDoubt, LateWriteLands, LateWriteLost, memory
<1>2. CASE LateWriteLost(w)
  BY <1>1, <1>2 DEF LateWriteLost, Table!vars
<1>3. CASE LateWriteLands(w)
  <2>1. LiveRoutes(memogo') = Rewritten(w)
    BY <1>1, <1>3, OneRowWritten DEF LateWriteLands
  <2>2. Table!Stray(w.key)
    BY <1>1, <2>1, WhatIsRewritten DEF Table!Stray, Table!Route, Route
  <2> QED BY <1>1, <2>2 DEF Table!Next
<1> QED BY <1>2, <1>3

\* A prune forgets the ghosts.
LEMMA PruneRefines ==
  ASSUME PruneInvalidRoutes
  PROVE  Table!Next
<1>1. served' = {r \in served : ~IsGhost(r)} /\ UNCHANGED <<memogo, up, unsure>>
  BY DEF PruneInvalidRoutes
<1> QED BY <1>1 DEF Table!ForgetGhosts, Table!Next

\* Every step of the store is a step of the table or leaves it alone.
LEMMA NextRefines == JInv /\ [Next]_vars => [Table!Next]_(Table!vars)
<1> SUFFICES ASSUME JInv, [Next]_vars PROVE Table!Next \/ UNCHANGED Table!vars OBVIOUS
<1>1. CASE Begin
  <2>1. CASE \/ \E h \in Hosts, b \in Bodies : AddRoute(h, b)
             \/ \E h \in Keys : RemoveRoute(h)
             \/ PurgeTombstones
    <3>1. Stutter
      BY <2>1 DEF AddRoute, RemoveRoute, PurgeTombstones, Stutter, memory
    <3> QED BY <3>1, StutterRefines
  <2> QED BY <1>1, <2>1, LoadRefines, PruneRefines DEF Begin
<1>2. CASE Continue
  <2>1. CASE WriteYAML \/ \E k \in op.unaudited : Audit(k)
    <3>1. Stutter
      BY <2>1 DEF WriteYAML, Audit, Stutter, memory
    <3> QED BY <3>1, StutterRefines
  <2> QED BY <1>2, <2>1, ConfirmedRefines, FailedRefines DEF Continue
<1>3. CASE Environment
  <2>1. ASSUME NEW k \in Keys, NEW i \in DOMAIN delayed[k], LateAuditLands(k, i)
        PROVE  UNCHANGED Table!vars
    BY <2>1 DEF LateAuditLands, memory, Table!vars
  <2> QED BY <1>3, <2>1, CrashRefines, LateRefines DEF Environment
<1>4. CASE UNCHANGED vars
  BY <1>4 DEF vars, memory, Table!vars
<1> QED BY <1>1, <1>2, <1>3, <1>4 DEF Next

\* The route store (store.go:319-621) implements the two-table specification:
\* whatever fails, it registers and removes a route in Memogo and in memory
\* together, except for keys in doubt.
THEOREM StoreImplementsTable == Spec => ImplementsTable
BY InitRefines, NextRefines, InFlightInvariance, PTL DEF Spec, ImplementsTable, Table!Spec

=============================================================================
