----------------------------- MODULE Serving_proofs -----------------------------
(***************************************************************************)
(* Proofs about Serving: its types, the count of open connections and the  *)
(* check before forwarding, for any number of routes, requests and probes. *)
(***************************************************************************)
EXTENDS Serving, FiniteSetTheorems, SequenceTheorems, TLAPS

\* What Accept has checked stays true of a request, whatever happens to the
\* routes: its host and path are what combinedHandler lets through.
LetThrough(r) ==
  /\ r.path \notin Reserved
  /\ r.host \in {Node, Localhost} => r.path \notin Dashboard
AllLetThrough == \A q \in Requests : request[q] # None => LetThrough(request[q])
AllChecked ==
  \A q \in Requests :
    request[q].at = "upstream" => CheckAuth(request[q].entry, request[q].tailnet)

\* The parts of TypeOK that requests, probes and the process are about.
TablesTyped == config \in Configs /\ table \subseteq Route /\ running \in BOOLEAN
RequestsTyped == request \in [Requests -> Request] /\ active \in [Hosts -> Nat]
HealthTyped ==
  /\ health \in [Hosts -> Flags \cup {"none", Bare}]
  /\ probe \in [Probers -> Probe]
  /\ answers \in [Upstreams -> BOOLEAN]
  /\ \A w \in Probers : probe[w].at = "set" => health[probe[w].route.host] # "none"
Stopped ==
  ~running => /\ table = {} /\ request = Closed
              /\ active = [h \in Hosts |-> 0]
              /\ health = NotProbed /\ probe = Quiet

RequestsInv == RequestsTyped /\ ConnectionsAddUp /\ AllLetThrough /\ AllChecked

IInv == TablesTyped /\ RequestsInv /\ HealthTyped /\ Stopped

-----------------------------------------------------------------------------
(* Types. *)

LEMMA TypesAgree == TypeOK <=> TablesTyped /\ RequestsTyped /\ HealthTyped /\ Stopped
  BY Zenon DEF TypeOK, TablesTyped, RequestsTyped, HealthTyped, Stopped

LEMMA EntriesTyped == \A c \in Configs : c \subseteq Route /\ Entries(c) \subseteq Route
  BY ConfigsAssumption DEF Entries

LEMMA AliasTyped == \A h \in Hosts : RewriteHostAlias(h) \in Hosts
  BY HostsAssumption DEF RewriteHostAlias, Hosts

LEMMA RequestFields ==
  ASSUME NEW r \in Request
  PROVE  /\ r = None <=> r.at = "none"
         /\ r # None => /\ r.at \in {"check", "upstream"} /\ r.host \in Hosts
                        /\ r.path \in Paths /\ r.tailnet \in BOOLEAN /\ r.entry \in Route
                        /\ r.entry.host \in Hosts
  BY DEF Request, None, Route

LEMMA ProbeFields ==
  ASSUME NEW x \in Probe
  PROVE  /\ x = None <=> x.at = "none"
         /\ x # None => x.route \in Route /\ x.route.host \in Hosts
                        /\ x.route.upstream \in Upstreams
         /\ x.at \in {"load", "set"} => x.up \in BOOLEAN
  BY DEF Probe, None, Route

LEMMA FlagTyped == \A up : Flag(up) \in Flags /\ Flag(up) # "none"
  BY DEF Flag, Flags

\* What a stopped daemon, and one that has just started, looks like.
LEMMA EmptyRequests ==
  ASSUME request' = Closed, active' = [h \in Hosts |-> 0]
  PROVE  RequestsInv'
<1>1. RequestsTyped'
  BY DEF RequestsTyped, Closed, Request
<1>2. \A q \in Requests : request'[q] = None
  BY DEF Closed
<1>3. ConnectionsAddUp'
  <2> SUFFICES ASSUME NEW h \in Hosts
      PROVE active'[h] = Cardinality({q \in Requests : request'[q] # None
                                                        /\ request'[q].entry.host = h})
    BY DEF ConnectionsAddUp
  <2>1. {q \in Requests : request'[q] # None /\ request'[q].entry.host = h} = {}
    BY <1>2
  <2> QED
    BY <2>1, FS_EmptySet
<1>4. AllLetThrough' /\ AllChecked'
  BY <1>2 DEF AllLetThrough, AllChecked, None
<1> QED
  BY <1>1, <1>3, <1>4 DEF RequestsInv

LEMMA EmptyHealth ==
  ASSUME health' = NotProbed, probe' = Quiet, answers' \in [Upstreams -> BOOLEAN]
  PROVE  HealthTyped'
  BY DEF HealthTyped, NotProbed, Quiet, Probe, None

LEMMA InitInvariant == Init => IInv
<1> SUFFICES ASSUME Init PROVE IInv
  OBVIOUS
<1>1. TablesTyped /\ Stopped
  BY DEF Init, TablesTyped, Stopped
<1>2. HealthTyped
  BY DEF Init, HealthTyped, NotProbed, Quiet, Probe, None
<1>3. RequestsTyped
  BY DEF Init, RequestsTyped, Closed, Request
<1>4. \A q \in Requests : request[q] = None
  BY DEF Init, Closed
<1>5. ConnectionsAddUp
  <2>1. \A h \in Hosts : {q \in Requests : request[q] # None /\ request[q].entry.host = h} = {}
    BY <1>4
  <2> QED
    BY <2>1, FS_EmptySet DEF Init, ConnectionsAddUp
<1>6. AllLetThrough /\ AllChecked
  BY <1>4 DEF AllLetThrough, AllChecked, None
<1> QED
  BY <1>1, <1>2, <1>3, <1>5, <1>6 DEF IInv, RequestsInv

-----------------------------------------------------------------------------
(* Counting. *)

LEMMA OfFinite == \A S \in SUBSET Requests : IsFiniteSet(S) /\ Cardinality(S) \in Nat
  BY RequestsAssumption, FS_Subset, FS_CardinalityType

\* A request that opens is one more of its host, and of no other.
LEMMA OpenCounts ==
  ASSUME RequestsTyped, ConnectionsAddUp, NEW q \in Requests, request[q] = None,
         NEW r \in Request, r # None,
         request' = [request EXCEPT ![q] = r],
         active' = [active EXCEPT ![r.entry.host] = @ + 1]
  PROVE  ConnectionsAddUp'
<1> DEFINE g == r.entry.host
<1>1. g \in Hosts
  BY RequestFields
<1> HIDE DEF g
<1>2. request'[q] = r /\ \A p \in Requests : p # q => request'[p] = request[p]
  BY DEF RequestsTyped
<1> SUFFICES ASSUME NEW h \in Hosts
    PROVE active'[h] = Cardinality({p \in Requests : request'[p] # None
                                                      /\ request'[p].entry.host = h})
  BY DEF ConnectionsAddUp
<1> DEFINE old == {p \in Requests : request[p] # None /\ request[p].entry.host = h}
           new == {p \in Requests : request'[p] # None /\ request'[p].entry.host = h}
<1>3. active[h] = Cardinality(old) /\ IsFiniteSet(old)
  BY OfFinite DEF ConnectionsAddUp
<1>4. CASE h = g
  <2>1. new = old \cup {q} /\ q \notin old
    BY <1>2, <1>4 DEF g
  <2> HIDE DEF old, new
  <2>2. Cardinality(new) = Cardinality(old) + 1
    BY <1>3, <2>1, FS_AddElement
  <2> QED
    BY <1>1, <1>3, <1>4, <2>2 DEF RequestsTyped, g, new
<1>5. CASE h # g
  <2>1. new = old
    BY <1>2, <1>5 DEF g
  <2> QED
    BY <1>1, <1>3, <1>5, <2>1 DEF RequestsTyped, g
<1> QED
  BY <1>4, <1>5

\* One that leaves is one less.
LEMMA LeaveCounts ==
  ASSUME RequestsTyped, ConnectionsAddUp, NEW q \in Requests, request[q] # None,
         request' = [request EXCEPT ![q] = None],
         active' = [active EXCEPT ![request[q].entry.host] = @ - 1]
  PROVE  ConnectionsAddUp' /\ active' \in [Hosts -> Nat]
<1> DEFINE g == request[q].entry.host
<1>1. g \in Hosts
  BY RequestFields DEF RequestsTyped
<1>2. request'[q] = None /\ \A p \in Requests : p # q => request'[p] = request[p]
  BY DEF RequestsTyped
<1>3. \A h \in Hosts : active'[h] = IF h = g THEN active[h] - 1 ELSE active[h]
  BY <1>1 DEF RequestsTyped
<1>4. ASSUME NEW h \in Hosts
      PROVE  /\ active'[h] = Cardinality({p \in Requests : request'[p] # None
                                                      /\ request'[p].entry.host = h})
             /\ active'[h] \in Nat
  <2> DEFINE old == {p \in Requests : request[p] # None /\ request[p].entry.host = h}
             new == {p \in Requests : request'[p] # None /\ request'[p].entry.host = h}
  <2>1. active[h] = Cardinality(old) /\ IsFiniteSet(old)
    BY OfFinite DEF ConnectionsAddUp
  <2>2. Cardinality(new) \in Nat
    BY OfFinite
  <2>3. CASE h = g
    <3>1. new = old \ {q} /\ q \in old
      BY <1>2, <2>3
    <3> HIDE DEF old, new
    <3>2. Cardinality(new) = Cardinality(old) - 1
      BY <2>1, <3>1, FS_RemoveElement
    <3>3. active'[h] = Cardinality(new)
      BY <1>3, <2>1, <2>3, <3>2
    <3> QED
      BY <2>2, <3>3 DEF new
  <2>4. CASE h # g
    <3>1. new = old
      BY <1>2, <2>4
    <3>2. active'[h] = Cardinality(new)
      BY <1>3, <2>1, <2>4, <3>1
    <3> QED
      BY <2>2, <3>2
  <2> QED
    BY <2>3, <2>4
<1>5. active' \in [Hosts -> Nat]
  <2>1. DOMAIN active' = Hosts /\ active' = [h \in Hosts |-> active'[h]]
    BY DEF RequestsTyped
  <2> QED
    BY <1>4, <2>1
<1> QED
  BY <1>4, <1>5 DEF ConnectionsAddUp

-----------------------------------------------------------------------------
(* The steps of a request. *)

LEMMA RequestsUnchanged ==
  ASSUME RequestsInv, UNCHANGED <<request, active>>
  PROVE  RequestsInv'
  BY DEF RequestsInv, RequestsTyped, ConnectionsAddUp, AllLetThrough, AllChecked

LEMMA AcceptKeeps ==
  ASSUME RequestsInv, table \subseteq Route, NEW q \in Requests, NEW h \in Hosts,
         NEW path \in Paths, NEW tailnet \in BOOLEAN, Accept(q, h, path, tailnet)
  PROVE  RequestsInv'
<1>1. PICK e \in Candidates(RewriteHostAlias(h), path) :
        /\ request' = [request EXCEPT ![q] = [at |-> "check", host |-> RewriteHostAlias(h),
                         path |-> path, tailnet |-> tailnet, entry |-> e]]
        /\ active' = [active EXCEPT ![e.host] = @ + 1]
  BY DEF Accept
<1>2. e \in table /\ e \in Route /\ e.host \in Hosts
  BY <1>1 DEF Candidates, Route
<1> DEFINE r == [at |-> "check", host |-> RewriteHostAlias(h),
                 path |-> path, tailnet |-> tailnet, entry |-> e]
<1>3. r \in Request /\ r # None /\ r.at = "check" /\ r.entry = e
  BY <1>2, AliasTyped DEF Request, None
<1>4. LetThrough(r)
  BY DEF Accept, Proxied, LetThrough
<1>5. request' = [request EXCEPT ![q] = r] /\ request[q] = None
      /\ active' = [active EXCEPT ![r.entry.host] = @ + 1]
  BY <1>1 DEF Accept
<1> HIDE DEF r
<1>6. RequestsTyped'
  BY <1>2, <1>3, <1>5 DEF RequestsInv, RequestsTyped
<1>7. ConnectionsAddUp'
  BY <1>3, <1>5, OpenCounts DEF RequestsInv
<1>8. AllLetThrough'
  BY <1>4, <1>5 DEF RequestsInv, RequestsTyped, AllLetThrough
<1>9. AllChecked'
  BY <1>3, <1>5 DEF RequestsInv, RequestsTyped, AllChecked
<1> QED
  BY <1>6, <1>7, <1>8, <1>9 DEF RequestsInv

LEMMA LeaveKeeps ==
  ASSUME RequestsInv, NEW q \in Requests, request[q] # None, Leave(q)
  PROVE  RequestsInv'
<1>1. /\ request' = [request EXCEPT ![q] = None]
      /\ active' = [active EXCEPT ![request[q].entry.host] = @ - 1]
  BY DEF Leave
<1>2. ConnectionsAddUp' /\ active' \in [Hosts -> Nat]
  BY <1>1, LeaveCounts DEF RequestsInv
<1>3. RequestsTyped'
  BY <1>1, <1>2 DEF RequestsInv, RequestsTyped, Request
<1>4. AllLetThrough'
  BY <1>1 DEF RequestsInv, RequestsTyped, AllLetThrough
<1>5. AllChecked'
  BY <1>1 DEF RequestsInv, RequestsTyped, AllChecked, None
<1> QED
  BY <1>2, <1>3, <1>4, <1>5 DEF RequestsInv

LEMMA ForwardKeeps ==
  ASSUME RequestsInv, NEW q \in Requests, Forward(q)
  PROVE  RequestsInv'
<1> DEFINE r == request[q]
           on == [r EXCEPT !.at = "upstream"]
<1>1. r \in Request /\ r # None /\ r.at = "check" /\ CheckAuth(r.entry, r.tailnet)
  BY DEF Forward, RequestsInv, RequestsTyped, None
<1>2. r \in [at : {"check", "upstream"}, host : Hosts, path : Paths,
             tailnet : BOOLEAN, entry : Route]
  BY <1>1 DEF Request
<1>3. /\ on \in Request /\ on # None /\ on.at = "upstream" /\ on.entry = r.entry
      /\ on.tailnet = r.tailnet /\ on.host = r.host /\ on.path = r.path
  BY <1>2 DEF Request, None
<1>4. request' = [request EXCEPT ![q] = on] /\ active' = active
  BY DEF Forward
<1>5. LetThrough(on) /\ CheckAuth(on.entry, on.tailnet)
  BY <1>1, <1>3 DEF RequestsInv, AllLetThrough, LetThrough
<1> HIDE DEF on
<1>6. RequestsTyped'
  BY <1>3, <1>4 DEF RequestsInv, RequestsTyped
<1>7. ConnectionsAddUp'
  <2> SUFFICES ASSUME NEW h \in Hosts
      PROVE active[h] = Cardinality({p \in Requests : request'[p] # None
                                                        /\ request'[p].entry.host = h})
    BY <1>4 DEF ConnectionsAddUp
  <2>1. {p \in Requests : request'[p] # None /\ request'[p].entry.host = h}
          = {p \in Requests : request[p] # None /\ request[p].entry.host = h}
    BY <1>1, <1>3, <1>4 DEF RequestsInv, RequestsTyped
  <2> QED
    BY <2>1 DEF RequestsInv, ConnectionsAddUp
<1>8. AllLetThrough' /\ AllChecked'
  BY <1>4, <1>5 DEF RequestsInv, RequestsTyped, AllLetThrough, AllChecked
<1> QED
  BY <1>6, <1>7, <1>8 DEF RequestsInv

LEMMA RequestStepKeeps ==
  ASSUME RequestsInv, NEW q \in Requests,
         Deny(q) \/ AnswerHealth(q) \/ Forward(q) \/ Respond(q) \/ Fail(q)
  PROVE  RequestsInv'
<1>1. CASE Forward(q)
  BY <1>1, ForwardKeeps
<1>2. CASE Deny(q) \/ AnswerHealth(q) \/ Respond(q) \/ Fail(q)
  <2>1. Leave(q) /\ request[q] # None
    BY <1>2 DEF Deny, AnswerHealth, Respond, Fail, None
  <2> QED
    BY <2>1, LeaveKeeps
<1> QED
  BY <1>1, <1>2

-----------------------------------------------------------------------------
(* Health and probes. *)

LEMMA HealthUnchanged ==
  ASSUME HealthTyped, UNCHANGED <<health, probe, answers>>
  PROVE  HealthTyped'
  BY DEF HealthTyped

LEMMA FailKeepsHealth ==
  ASSUME HealthTyped, RequestsTyped, NEW q \in Requests, Fail(q)
  PROVE  HealthTyped'
<1>1. request[q].entry.host \in Hosts
  BY RequestFields DEF Fail, RequestsTyped, None
<1>2. /\ health' = [health EXCEPT ![request[q].entry.host] = Bare]
      /\ UNCHANGED <<probe, answers>>
  BY DEF Fail, Leave
<1>3. \A w \in Probers : probe[w].at = "set" => probe[w].route.host \in Hosts
  BY ProbeFields DEF HealthTyped, None
<1> QED
  BY <1>1, <1>2, <1>3 DEF HealthTyped, Bare

LEMMA ProbeAllKeeps ==
  ASSUME HealthTyped, TablesTyped, ProbeAll
  PROVE  HealthTyped'
<1>1. PICK f \in [Probed(config) -> {w \in Probers : probe[w] = None}] :
         probe' = [w \in Probers |->
                      IF \E r \in Probed(config) : f[r] = w
                        THEN [at |-> "ask", route |-> CHOOSE r \in Probed(config) : f[r] = w]
                        ELSE probe[w]]
  BY DEF ProbeAll
<1>2. Probed(config) \subseteq Route
  BY EntriesTyped DEF TablesTyped, Probed
<1>3. ASSUME NEW w \in Probers
      PROVE  \/ probe'[w] \in [at : {"ask"}, route : Route]
             \/ probe'[w] = probe[w]
  BY <1>1, <1>2
<1>4. probe' \in [Probers -> Probe]
  <2>1. \A w \in Probers : probe'[w] \in Probe
    BY <1>3 DEF HealthTyped, Probe
  <2>2. DOMAIN probe' = Probers /\ probe' = [w \in Probers |-> probe'[w]]
    BY <1>1
  <2> QED
    BY <2>1, <2>2
<1>5. \A w \in Probers : probe'[w].at = "set" => probe'[w] = probe[w]
  BY <1>3
<1> QED
  BY <1>4, <1>5 DEF HealthTyped, ProbeAll

LEMMA AskKeeps ==
  ASSUME HealthTyped, NEW w \in Probers, Ask(w)
  PROVE  HealthTyped'
<1> DEFINE x == [at |-> "load", route |-> probe[w].route, up |-> answers[probe[w].route.upstream]]
<1>1. probe[w].route \in Route /\ probe[w].route.upstream \in Upstreams
  BY ProbeFields DEF HealthTyped, Ask, None
<1>2. x \in Probe /\ x.at = "load"
  BY <1>1 DEF HealthTyped, Probe
<1>3. probe' = [probe EXCEPT ![w] = x] /\ UNCHANGED <<health, answers>>
  BY DEF Ask
<1> HIDE DEF x
<1> QED
  BY <1>2, <1>3 DEF HealthTyped

LEMMA LoadOrStoreKeeps ==
  ASSUME HealthTyped, NEW w \in Probers, LoadOrStore(w)
  PROVE  HealthTyped'
<1> DEFINE h == probe[w].route.host
           x == [probe[w] EXCEPT !.at = "set"]
<1>1. /\ probe[w] \in [at : {"load", "set"}, route : Route, up : BOOLEAN]
      /\ h \in Hosts
  BY ProbeFields DEF HealthTyped, LoadOrStore, Probe, None
<1>2. x \in Probe /\ x.route = probe[w].route
  BY <1>1 DEF Probe
<1>3. /\ health' = [health EXCEPT ![h] = IF @ = "none" THEN "down" ELSE @]
      /\ probe' = [probe EXCEPT ![w] = x] /\ UNCHANGED answers
  BY DEF LoadOrStore
<1> HIDE DEF x
<1>4. /\ health' \in [Hosts -> Flags \cup {"none", Bare}]
      /\ health'[h] # "none"
      /\ \A g \in Hosts : health[g] # "none" => health'[g] # "none"
  BY <1>1, <1>3 DEF HealthTyped, Flags
<1>5. \A v \in Probers : probe[v].at = "set" => probe[v].route.host \in Hosts
  BY ProbeFields DEF HealthTyped, None
<1> QED
  BY <1>1, <1>2, <1>3, <1>4, <1>5 DEF HealthTyped

LEMMA SetFlagKeeps ==
  ASSUME HealthTyped, NEW w \in Probers, SetFlag(w)
  PROVE  HealthTyped'
<1> DEFINE h == probe[w].route.host
<1>1. h \in Hosts
  BY ProbeFields DEF HealthTyped, SetFlag, None
<1>2. /\ health' = [health EXCEPT ![h] = IF @ = Bare THEN Bare ELSE Flag(probe[w].up)]
      /\ probe' = [probe EXCEPT ![w] = None] /\ UNCHANGED answers
  BY DEF SetFlag
<1>3. /\ health' \in [Hosts -> Flags \cup {"none", Bare}]
      /\ \A g \in Hosts : health[g] # "none" => health'[g] # "none"
  BY <1>1, <1>2, FlagTyped DEF HealthTyped, Bare
<1>4. \A v \in Probers : probe[v].at = "set" => probe[v].route.host \in Hosts
  BY ProbeFields DEF HealthTyped, None
<1>5. probe' \in [Probers -> Probe]
  BY <1>2 DEF HealthTyped, Probe
<1>6. \A v \in Probers : probe'[v].at = "set" => probe'[v] = probe[v]
  BY <1>2 DEF HealthTyped, None
<1> QED
  BY <1>2, <1>3, <1>4, <1>5, <1>6 DEF HealthTyped

-----------------------------------------------------------------------------

\* The process is up when a request or a probe takes a step.
LEMMA BusyIsRunning ==
  ASSUME IInv
  PROVE  /\ \A q \in Requests : request[q].at # "none" => running
         /\ \A w \in Probers : probe[w].at # "none" => running
  BY DEF IInv, Stopped, Closed, Quiet, None

LEMMA HaltKeeps ==
  ASSUME IInv, Halt
  PROVE  IInv'
<1>1. RequestsInv'
  BY EmptyRequests DEF Halt
<1>2. HealthTyped'
  BY EmptyHealth DEF Halt, IInv, HealthTyped
<1>3. TablesTyped' /\ Stopped'
  BY DEF Halt, IInv, TablesTyped, Stopped
<1> QED
  BY <1>1, <1>2, <1>3 DEF IInv

\* A step that leaves the process up.
LEMMA RunningKeeps ==
  ASSUME IInv, running' = TRUE, config' \in Configs, table' \subseteq Route,
         RequestsInv', HealthTyped'
  PROVE  IInv'
  BY DEF IInv, TablesTyped, Stopped

LEMMA StepInvariant == IInv /\ [Next]_vars => IInv'
<1> SUFFICES ASSUME IInv, [Next]_vars PROVE IInv'
  OBVIOUS
<1>0. TablesTyped /\ RequestsInv /\ HealthTyped /\ Stopped /\ RequestsTyped
  BY DEF IInv, RequestsInv
<1>1. CASE Start
  BY <1>0, <1>1, EntriesTyped, RequestsUnchanged, HealthUnchanged, RunningKeeps
     DEF Start, TablesTyped
<1>2. CASE Terminate
  BY <1>2, HaltKeeps DEF Terminate
<1>3. ASSUME NEW c \in Configs, Change(c) PROVE IInv'
  BY <1>0, <1>3, RequestsUnchanged, HealthUnchanged, RunningKeeps DEF Change, TablesTyped
<1>4. ASSUME NEW c \in Configs, Reload(c) PROVE IInv'
  BY <1>0, <1>4, EntriesTyped, RequestsUnchanged, HealthUnchanged, RunningKeeps
     DEF Reload, TablesTyped
<1>5. ASSUME NEW u \in Upstreams, UpstreamTurns(u) PROVE IInv'
  <2>1. HealthTyped'
    BY <1>0, <1>5 DEF UpstreamTurns, HealthTyped
  <2>2. RequestsInv'
    BY <1>0, <1>5, RequestsUnchanged DEF UpstreamTurns
  <2>3. TablesTyped' /\ Stopped'
    BY <1>0, <1>5 DEF UpstreamTurns, TablesTyped, Stopped
  <2> QED
    BY <2>1, <2>2, <2>3 DEF IInv
<1>6. ASSUME NEW q \in Requests, NEW h \in Hosts, NEW path \in Paths, NEW tailnet \in BOOLEAN,
             Accept(q, h, path, tailnet)
      PROVE  IInv'
  <2>1. RequestsInv'
    BY <1>0, <1>6, AcceptKeeps DEF TablesTyped
  <2> QED
    BY <1>0, <1>6, <2>1, HealthUnchanged, RunningKeeps DEF Accept, TablesTyped
<1>7. ASSUME NEW q \in Requests,
             Deny(q) \/ AnswerHealth(q) \/ Forward(q) \/ Respond(q) \/ Fail(q)
      PROVE  IInv'
  <2>1. RequestsInv'
    BY <1>0, <1>7, RequestStepKeeps
  <2>2. HealthTyped'
    <3>1. CASE Fail(q)
      BY <1>0, <3>1, FailKeepsHealth
    <3>2. CASE Deny(q) \/ AnswerHealth(q) \/ Forward(q) \/ Respond(q)
      BY <1>0, <3>2, HealthUnchanged DEF Deny, AnswerHealth, Forward, Respond, Leave
    <3> QED
      BY <1>7, <3>1, <3>2
  <2>3. UNCHANGED <<running, config, table>> /\ request[q].at # "none"
    BY <1>7 DEF Deny, AnswerHealth, Forward, Respond, Fail, Leave
  <2>4. running
    BY <2>3, BusyIsRunning
  <2> QED
    BY <1>0, <2>1, <2>2, <2>3, <2>4, RunningKeeps DEF TablesTyped
<1>8. CASE ProbeAll
  BY <1>0, <1>8, ProbeAllKeeps, RequestsUnchanged, RunningKeeps DEF ProbeAll, TablesTyped
<1>9. ASSUME NEW w \in Probers, Ask(w) \/ LoadOrStore(w) \/ SetFlag(w)
      PROVE  IInv'
  <2>1. HealthTyped'
    BY <1>0, <1>9, AskKeeps, LoadOrStoreKeeps, SetFlagKeeps
  <2>2. UNCHANGED <<running, config, table, request, active>> /\ probe[w].at # "none"
    BY <1>9 DEF Ask, LoadOrStore, SetFlag
  <2>3. running
    BY <2>2, BusyIsRunning
  <2> QED
    BY <1>0, <2>1, <2>2, <2>3, RequestsUnchanged, RunningKeeps DEF TablesTyped
<1>10. ASSUME NEW w \in Probers, Panic(w) PROVE IInv'
  BY <1>10, HaltKeeps DEF Panic
<1>11. CASE UNCHANGED vars
  <2>1. RequestsInv' /\ HealthTyped'
    BY <1>0, <1>11, RequestsUnchanged, HealthUnchanged DEF vars
  <2>2. TablesTyped' /\ Stopped'
    BY <1>0, <1>11 DEF vars, TablesTyped, Stopped
  <2> QED
    BY <2>1, <2>2 DEF IInv
<1> QED
  BY <1>1, <1>2, <1>3, <1>4, <1>5, <1>6, <1>7, <1>8, <1>9, <1>10, <1>11 DEF Next

\* The inductive invariant behind the theorems below.
THEOREM Invariance == Spec => []IInv
<1> QED
  BY InitInvariant, StepInvariant, PTL DEF Spec

-----------------------------------------------------------------------------

\* Every reachable state of the serving daemon is well typed, and a probe about
\* to set a flag finds one in the map.
THEOREM TypeCorrect == Spec => []TypeOK
<1>1. IInv => TypeOK
  BY TypesAgree DEF IInv, RequestsInv
<1> QED
  BY <1>1, Invariance, PTL

\* However a request ends and whatever happens to its route meanwhile, the
\* dashboard's count of a host's connections is that of its open requests
\* (proxy.go 214-271).
THEOREM ConnectionsCounted == Spec => []ConnectionsAddUp
<1>1. IInv => ConnectionsAddUp
  BY DEF IInv, RequestsInv
<1> QED
  BY <1>1, Invariance, PTL

\* A request reaches an upstream only past the check of the route it is
\* forwarded by, whatever is installed meanwhile (proxy.go 236-262).
THEOREM ForwardsChecked == Spec => []ForwardsOnlyAllowed
<1>1. IInv => ForwardsOnlyAllowed
  <2> SUFFICES ASSUME IInv, NEW q \in Requests, request[q].at = "upstream"
      PROVE  /\ CheckAuth(request[q].entry, request[q].tailnet)
             /\ LetThrough(request[q])
    BY DEF ForwardsOnlyAllowed, LetThrough
  <2>1. request[q] # None
    BY DEF None
  <2> QED
    BY <2>1 DEF IInv, RequestsInv, AllLetThrough, AllChecked
<1> QED
  BY <1>1, Invariance, PTL
=============================================================================
