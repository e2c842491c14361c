-------------------------- MODULE ProxyReload_proofs --------------------------
(***************************************************************************)
(* Theorems about ProxyReload, for every number of hosts and of goroutines *)
(* in Reload at a time.  Of the store they use only the steps RouteTable   *)
(* allows it, so they hold of every store that implements RouteTable.      *)
(***************************************************************************)
EXTENDS ProxyReload, TLAPS

\* What the store's variables are.
StoreTyped ==
  /\ durable \subseteq Store!Route /\ known \subseteq Store!Route
  /\ running \in BOOLEAN /\ doubt \subseteq Keys

\* A step of the store.
StoreStep ==
  \/ \E r \in Store!Route : Store!Register(r)
  \/ \E k \in Keys : Store!Unregister(k) \/ Store!DropGhost(k) \/ Store!Timeout(k) \/ Store!Stray(k)
  \/ Store!ForgetGhosts \/ Store!Load \/ Store!Stop

\* RouteTable keeps its own types.
LEMMA StoreKeepsTypes == StoreTyped /\ StoreStep => StoreTyped'
<1> SUFFICES ASSUME StoreTyped, StoreStep PROVE StoreTyped' OBVIOUS
<1>1. ASSUME NEW k \in Keys, Store!Unanswered(k)
      PROVE  durable' \subseteq Store!Route /\ doubt' \subseteq Keys
  BY <1>1 DEF StoreTyped, Store!Unanswered, Store!Without
<1>2. ASSUME NEW r \in Store!Route, Store!Register(r) PROVE StoreTyped'
  <2>1. r.host \in Keys
    BY DEF Store!Route
  <2> QED BY <1>2, <2>1 DEF StoreTyped, Store!Register, Store!Without
<1>3. ASSUME NEW k \in Keys, Store!Unregister(k) PROVE StoreTyped'
  BY <1>3 DEF StoreTyped, Store!Unregister, Store!Without
<1>4. ASSUME NEW k \in Keys, Store!DropGhost(k) PROVE StoreTyped'
  BY <1>4 DEF StoreTyped, Store!DropGhost, Store!Without
<1>5. ASSUME NEW k \in Keys, Store!Timeout(k) PROVE StoreTyped'
  BY <1>1, <1>5 DEF StoreTyped, Store!Timeout
<1>6. ASSUME NEW k \in Keys, Store!Stray(k) PROVE StoreTyped'
  BY <1>6 DEF StoreTyped, Store!Stray, Store!Without
<1>7. CASE Store!ForgetGhosts
  BY <1>7 DEF StoreTyped, Store!ForgetGhosts
<1>8. CASE Store!Load
  BY <1>8 DEF StoreTyped, Store!Load
<1>9. CASE Store!Stop
  BY <1>1, <1>9 DEF StoreTyped, Store!Stop
<1> QED BY <1>2, <1>3, <1>4, <1>5, <1>6, <1>7, <1>8, <1>9 DEF StoreStep

\* The variables of the proxy.
ProxyTyped ==
  /\ table \subseteq Entries(Store!Route)
  /\ pc \in [Goroutines -> {"idle", "read", "install"}]
  /\ snapshot \in [Goroutines -> SUBSET Store!Route]
  /\ \A g \in Goroutines : pc[g] # "install" => snapshot[g] = {}

\* TypeOK in two halves.
LEMMA TypeOKSplit == TypeOK <=> StoreTyped /\ ProxyTyped
BY DEF TypeOK, StoreTyped, ProxyTyped

\* The steps that belong to the store change no copy of the table.
StoreOnly ==
  \/ \E r \in Store!Route : AddOnly(r)
  \/ \E r \in Store!Route, g \in Workers : AddAndReload(r, g)
  \/ \E k \in Keys : Remove(k) \/ Trouble(k)
  \/ Prune
  \/ Sighup

LEMMA StoreOnlyStep ==
  ASSUME ProxyTyped, StoreOnly
  PROVE  /\ StoreStep
         /\ UNCHANGED <<table, snapshot>>
         /\ pc' \in [Goroutines -> {"idle", "read", "install"}]
         /\ \A g \in Goroutines : pc'[g] = "install" <=> pc[g] = "install"
<1>1. ASSUME NEW r \in Store!Route, NEW g \in Workers, AddAndReload(r, g)
      PROVE  /\ Store!Register(r) /\ UNCHANGED <<table, snapshot>>
             /\ pc' \in [Goroutines -> {"idle", "read", "install"}]
             /\ \A d \in Goroutines : pc'[d] = "install" <=> pc[d] = "install"
  BY <1>1 DEF AddAndReload, ProxyTyped, Goroutines
<1>2. CASE Sighup
  BY <1>2 DEF Sighup, ProxyTyped, Goroutines, StoreStep
<1>3. CASE Prune \/ (\E r \in Store!Route : AddOnly(r))
  BY <1>3 DEF Prune, AddOnly, StoreStep, ProxyTyped
<1>4. ASSUME NEW k \in Keys, Remove(k) \/ Trouble(k)
      PROVE  StoreStep /\ UNCHANGED <<table, pc, snapshot>>
  BY <1>4 DEF Remove, Trouble, StoreStep
<1> QED BY <1>1, <1>2, <1>3, <1>4 DEF StoreOnly, StoreStep, ProxyTyped

\* The cases of Next.
LEMMA Steps ==
  Next => StoreOnly \/ Start \/ Crash \/ \E g \in Goroutines : Read(g) \/ Install(g)
BY DEF Next, StoreOnly

-----------------------------------------------------------------------------

\* The initial states are well typed.
LEMMA InitTypeOK == Init => TypeOK
BY DEF Init, Store!Init, TypeOK, Entries

\* Every step keeps the types.
LEMMA NextTypeOK == TypeOK /\ [Next]_vars => TypeOK'
<1> SUFFICES ASSUME TypeOK, [Next]_vars PROVE TypeOK' OBVIOUS
<1>1. StoreTyped /\ ProxyTyped
  BY TypeOKSplit
<1>2. CASE UNCHANGED vars
  BY <1>2 DEF vars, store, TypeOK
<1>3. CASE StoreOnly
  BY <1>1, <1>3, StoreOnlyStep, StoreKeepsTypes DEF TypeOK, StoreTyped, ProxyTyped
<1>4. CASE Start
  <2>1. StoreTyped'
    BY <1>1, <1>4, StoreKeepsTypes DEF Start, StoreStep
  <2> QED BY <1>1, <1>4, <2>1 DEF Start, TypeOK, StoreTyped, ProxyTyped, Entries
<1>5. CASE Crash
  <2>1. StoreTyped'
    BY <1>1, <1>5, StoreKeepsTypes DEF Crash, StoreStep
  <2> QED BY <1>5, <2>1 DEF Crash, TypeOK, StoreTyped
<1>6. ASSUME NEW g \in Goroutines, Read(g) PROVE TypeOK'
  <2>1. StoreTyped'
    BY <1>1, <1>6 DEF Read, store, StoreTyped
  <2>2. ProxyTyped'
    BY <1>1, <1>6 DEF Read, StoreTyped, ProxyTyped
  <2> QED BY <2>1, <2>2 DEF TypeOK, StoreTyped, ProxyTyped
<1>7. ASSUME NEW g \in Goroutines, Install(g) PROVE TypeOK'
  <2>1. StoreTyped'
    BY <1>1, <1>7 DEF Install, store, StoreTyped
  <2>2. table' \subseteq Entries(Store!Route)
    BY <1>1, <1>7 DEF Install, ProxyTyped, Entries
  <2>3. ProxyTyped'
    BY <1>1, <1>7, <2>2 DEF Install, ProxyTyped
  <2> QED BY <2>1, <2>3 DEF TypeOK, StoreTyped, ProxyTyped
<1> QED BY <1>2, <1>3, <1>4, <1>5, <1>6, <1>7, Steps

\* Every reachable state of the proxy and its reloads is well typed.
THEOREM TypeCorrect == Spec => []TypeOK
BY InitTypeOK, NextTypeOK, PTL DEF Spec

-----------------------------------------------------------------------------
(* Settled routes. *)

\* What SettledRoutesStay says of one step about one route.
LEMMA SettledStep ==
  ASSUME TypeOK, Next, NEW r \in Entries(Store!Route), Settled(r), r \in known <=> r \in known'
  PROVE  Settled(r)'
<1>1. ProxyTyped
  BY TypeOKSplit
<1>2. r.body \notin Unparsable
  BY DEF Entries
<1>3. CASE StoreOnly
  BY <1>1, <1>3, StoreOnlyStep DEF Settled
<1>4. CASE Start
  BY <1>2, <1>4 DEF Start, Settled, Entries
<1>5. CASE Crash
  BY <1>5 DEF Crash, Store!Stop, Settled
<1>6. ASSUME NEW g \in Goroutines, Read(g) PROVE Settled(r)'
  BY <1>1, <1>6 DEF Read, store, Settled, ProxyTyped
<1>7. ASSUME NEW g \in Goroutines, Install(g) PROVE Settled(r)'
  BY <1>1, <1>2, <1>7 DEF Install, store, Settled, ProxyTyped, Entries
<1> QED BY <1>3, <1>4, <1>5, <1>6, <1>7, Steps

\* A route on which the proxy, the reloads under way and the store agree stays
\* so until the store changes it, however many reloads overlap and in whatever
\* order they install their copies (proxy.go:138-174).
THEOREM SettledRoutesAreStable == Spec => SettledRoutesStay
<1>1. ASSUME TypeOK, [Next]_vars
      PROVE  [\A r \in Entries(Store!Route) :
                Settled(r) /\ (r \in known <=> r \in known') => Settled(r)']_vars
  BY <1>1, SettledStep
<1> QED BY <1>1, TypeCorrect, PTL DEF Spec, SettledRoutesStay
=============================================================================
