-------------------------- MODULE StoreHistory_proofs --------------------------
(***************************************************************************)
(* Proofs about StoreHistory: its types, the hosts on which memory follows *)
(* Memogo, the rotation of the backups and the access log, for any number  *)
(* of hosts, backups, seconds and requests.                                *)
(***************************************************************************)
EXTENDS StoreHistory, FiniteSetTheorems, SequenceTheorems, TLAPS

\* What is proved of the access log: its entries are the newest requests.
LogInv ==
  /\ Len(accessLog) <= LogCap
  /\ requests <= Len(accessLog) \/ Len(accessLog) > LogCap - LogCut
  /\ Len(accessLog) <= requests
  /\ \A i \in 1 .. Len(accessLog) : accessLog[i] = requests - Len(accessLog) + i

\* What is proved of the table: a host with a write outstanding is in doubt.
Followed == MemoryFollowsMemogo /\ Outstanding \subseteq doubt

IInv == TypeOK /\ Followed /\ BackupsAreNewest /\ LogInv

-----------------------------------------------------------------------------
(* The newest elements of a finite set of numbers. *)

Newer(D, s) == {t \in D : t > s}
Newest(D) == {s \in D : Cardinality(Newer(D, s)) < MaxBackups}

LEMMA Minimum ==
  ASSUME NEW S \in SUBSET Nat, S # {}
  PROVE  \E m \in S : \A t \in S : m <= t
<1>1. \E m \in S : \A t \in S : ~ (<<t, m>> \in OpToRel(<, Nat))
  BY NatLessThanWellFounded, WFMin
<1>2. PICK m \in S : \A t \in S : ~ (<<t, m>> \in OpToRel(<, Nat))
  BY <1>1
<1>3. ASSUME NEW t \in S PROVE m <= t
  <2>1. ~ (t < m)
    BY <1>2, <1>3 DEF OpToRel
  <2> QED
    BY <2>1
<1> QED
  BY <1>3

LEMMA Maximum ==
  ASSUME NEW N \in Nat, NEW S \in SUBSET (0 .. N), S # {}
  PROVE  \E m \in S : \A t \in S : t <= m
<1> DEFINE R == {N - t : t \in S}
<1>1. \A t \in S : t \in 0 .. N /\ N - t \in Nat
  OBVIOUS
<1>2. R \in SUBSET Nat /\ R # {}
  BY <1>1
<1>3. PICK r \in R : \A t \in R : r <= t
  BY <1>2, Minimum
<1>4. PICK m \in S : r = N - m
  OBVIOUS
<1>5. ASSUME NEW t \in S PROVE t <= m
  <2>1. N - t \in R
    OBVIOUS
  <2>2. N - m <= N - t
    BY <1>3, <1>4, <2>1
  <2> QED
    BY <1>1, <2>2
<1> QED
  BY <1>5

LEMMA FiniteParts ==
  ASSUME NEW N \in Nat, NEW D \in SUBSET (0 .. N)
  PROVE  /\ IsFiniteSet(D) /\ Cardinality(D) \in Nat
         /\ \A S \in SUBSET D : /\ IsFiniteSet(S) /\ Cardinality(S) \in Nat
                                /\ Cardinality(S) <= Cardinality(D)
<1>1. IsFiniteSet(0 .. N)
  BY FS_Interval
<1>2. IsFiniteSet(D) /\ Cardinality(D) \in Nat
  BY <1>1, FS_Subset, FS_CardinalityType
<1>3. ASSUME NEW S \in SUBSET D
      PROVE  IsFiniteSet(S) /\ Cardinality(S) \in Nat /\ Cardinality(S) <= Cardinality(D)
  BY <1>2, FS_Subset, FS_CardinalityType
<1> QED
  BY <1>2, <1>3

\* What had maxBackups newer files has them still among the newest.
LEMMA NewestAreEnough ==
  ASSUME NEW N \in Nat, NEW D \in SUBSET (0 .. N), NEW s \in Nat,
         Cardinality(Newer(D, s)) >= MaxBackups
  PROVE  Cardinality(Newer(Newest(D), s)) >= MaxBackups
<1> DEFINE G == Newer(D, s)
           H == Newer(Newest(D), s)
<1>0. G \in SUBSET D /\ H \in SUBSET D /\ D \in SUBSET Nat
  BY DEF Newer, Newest
<1>1. CASE G \subseteq Newest(D)
  <2>1. G = H
    BY <1>1 DEF Newer, Newest
  <2> QED
    BY <2>1
<1>2. CASE ~ (G \subseteq Newest(D))
  <2>1. G \ Newest(D) \in SUBSET (0 .. N) /\ G \ Newest(D) # {}
    BY <1>0, <1>2
  <2> HIDE DEF G, H
  <2>2. PICK g \in G \ Newest(D) : \A t \in G \ Newest(D) : t <= g
    BY <2>1, Maximum
  <2>3. g \in D /\ g > s /\ ~ (Cardinality(Newer(D, g)) < MaxBackups)
    BY <2>2 DEF Newest, Newer, G
  <2>4. Newer(D, g) \subseteq H
    <3> SUFFICES ASSUME NEW t \in D, t > g PROVE t \in H
      BY DEF Newer
    <3>1. t \in G
      BY <2>3, <1>0 DEF G, Newer
    <3>2. t \in Newest(D)
      BY <2>2, <2>3, <3>1, <1>0
    <3> QED
      BY <3>1, <3>2 DEF G, H, Newer
  <2>5. /\ Cardinality(Newer(D, g)) \in Nat /\ Cardinality(H) \in Nat
        /\ IsFiniteSet(H)
    <3>1. Newer(D, g) \in SUBSET D
      BY DEF Newer
    <3> QED
      BY <1>0, <3>1, FiniteParts
  <2>6. Cardinality(Newer(D, g)) <= Cardinality(H)
    BY <2>4, <2>5, FS_Subset
  <2> QED
    BY <2>3, <2>5, <2>6, BoundsAssumption DEF H
<1> QED
  BY <1>1, <1>2

LEMMA MoreNewer ==
  ASSUME NEW N \in Nat, NEW D \in SUBSET (0 .. N), NEW E \in SUBSET D, NEW s \in Nat,
         Cardinality(Newer(E, s)) >= MaxBackups
  PROVE  Cardinality(Newer(D, s)) >= MaxBackups
<1>1. Newer(E, s) \in SUBSET Newer(D, s) /\ Newer(D, s) \in SUBSET D
  BY DEF Newer
<1>2. IsFiniteSet(Newer(D, s)) /\ Cardinality(Newer(D, s)) \in Nat
  BY <1>1, FiniteParts
<1>3. /\ Cardinality(Newer(E, s)) <= Cardinality(Newer(D, s))
      /\ Cardinality(Newer(E, s)) \in Nat
  BY <1>1, <1>2, FS_Subset, FS_CardinalityType
<1> QED
  BY <1>2, <1>3, BoundsAssumption

-----------------------------------------------------------------------------
(* The parts of the invariant. *)

TablesTyped ==
  /\ rows \in Routes /\ cfg \in Routes /\ late \subseteq Late
  /\ doubt \subseteq Hosts /\ flipped \subseteq Hosts
FilesTyped ==
  /\ second \in Nat
  /\ DOMAIN backups \subseteq 0 .. second
  /\ \A s \in DOMAIN backups : backups[s] \in Files
  /\ DOMAIN written \subseteq 0 .. second
LogTyped == requests \in 0 .. MaxRequests /\ accessLog \in Seq(1 .. requests)

LEMMA Parts ==
  TypeOK <=> TablesTyped /\ FilesTyped /\ LogTyped /\ yaml \in Files /\ second \in Seconds
<1>1. second \in Seconds => second \in Nat
  BY BoundsAssumption DEF Seconds
<1> QED
  BY <1>1 DEF TypeOK, TablesTyped, FilesTyped, LogTyped

LEMMA PartsAfter ==
  ASSUME TablesTyped', FilesTyped', LogTyped', yaml' \in Files, second' \in Seconds,
         Followed', BackupsAreNewest', LogInv'
  PROVE  IInv'
  BY DEF IInv, TypeOK, TablesTyped, FilesTyped, LogTyped

LEMMA NoRoutesTyped == NoRoutes \in Routes /\ Routes \subseteq Files /\ Torn \in Files
  BY DEF NoRoutes, Routes, Files

LEMMA FlagTyped ==
  ASSUME NEW r \in Route, NEW e \in BOOLEAN
  PROVE  /\ Enabled(r, e) \in Route /\ Enabled(r, e).upstream = r.upstream
         /\ r # Enabled(r, e) => Enabled(Enabled(r, e), ~ e) = r
<1>1. r = [upstream |-> r.upstream, enabled |-> r.enabled] /\ r.enabled \in BOOLEAN
  BY DEF Route
<1>2. Enabled(r, e) = [upstream |-> r.upstream, enabled |-> e]
  BY <1>1 DEF Enabled
<1>3. Enabled(Enabled(r, e), ~ e) = [upstream |-> r.upstream, enabled |-> ~ e]
  <2>1. Enabled([upstream |-> r.upstream, enabled |-> e], ~ e)
          = [upstream |-> r.upstream, enabled |-> ~ e]
    BY DEF Enabled
  <2> QED
    BY <1>2, <2>1, Zenon
<1>4. Enabled(r, e) \in Route /\ Enabled(r, e).upstream = r.upstream
  BY <1>2 DEF Route
<1>5. CASE r.enabled = e
  BY <1>1, <1>2, <1>4, <1>5
<1>6. CASE r.enabled = ~ e
  BY <1>1, <1>3, <1>4, <1>6
<1> QED
  BY <1>1, <1>5, <1>6

LEMMA ParsedTyped == \A file \in Files : Parsed(file) \in Routes
<1> SUFFICES ASSUME NEW file \in Files, NEW h \in Hosts, file # Torn, file[h] # NoRoute
             PROVE  Enabled(file[h], TRUE) \in Route
  BY DEF Parsed, Routes
<1>1. file[h] \in Route
  BY DEF Files, Routes
<1> QED
  BY <1>1, FlagTyped

LEMMA InitInvariant == Init => IInv
<1> SUFFICES ASSUME Init PROVE IInv
  OBVIOUS
<1>1. TablesTyped /\ yaml \in Files /\ second \in Seconds
  BY NoRoutesTyped, BoundsAssumption DEF Init, TablesTyped, Seconds
<1>2. FilesTyped /\ DOMAIN backups = {} /\ DOMAIN written = {}
  BY DEF Init, FilesTyped
<1>3. LogTyped /\ LogInv
  BY BoundsAssumption DEF Init, LogTyped, LogInv
<1>4. Followed
  BY DEF Init, Followed, MemoryFollowsMemogo, Outstanding
<1>5. BackupsAreNewest
  BY <1>2, FS_EmptySet, BoundsAssumption DEF BackupsAreNewest
<1> QED
  BY <1>1, <1>2, <1>3, <1>4, <1>5, Parts DEF IInv

-----------------------------------------------------------------------------
(* Writing the mirror. *)

LEMMA FilesUnchanged ==
  ASSUME FilesTyped, BackupsAreNewest, UNCHANGED <<backups, written>>,
         second' \in Nat, second' >= second
  PROVE  FilesTyped' /\ BackupsAreNewest'
<1>1. \A S : S \subseteq 0 .. second => S \subseteq 0 .. second'
  BY DEF FilesTyped
<1> QED
  BY <1>1 DEF FilesTyped, BackupsAreNewest

\* A backup that fails leaves a file that is the newest.
LEMMA FailedBackup ==
  ASSUME FilesTyped, BackupsAreNewest, second' = second,
         backups' = With(backups, second, Torn), written' = With(written, second, Torn)
  PROVE  FilesTyped' /\ BackupsAreNewest'
<1>1. /\ DOMAIN backups' = DOMAIN backups \cup {second}
      /\ DOMAIN written' = DOMAIN written \cup {second}
      /\ \A s \in DOMAIN backups' :
           backups'[s] = IF s = second THEN Torn ELSE backups[s]
      /\ \A s \in DOMAIN written' :
           written'[s] = IF s = second THEN Torn ELSE written[s]
  BY DEF With
<1>2. second \in 0 .. second
  BY DEF FilesTyped
<1>3. FilesTyped'
  BY <1>1, <1>2, NoRoutesTyped DEF FilesTyped
<1>4. \A s \in DOMAIN backups' : s \in DOMAIN written' /\ backups'[s] = written'[s]
  BY <1>1 DEF BackupsAreNewest
<1>5. \A s \in DOMAIN written' \ DOMAIN backups' :
        Cardinality({t \in DOMAIN backups' : t > s}) >= MaxBackups
  <2> SUFFICES ASSUME NEW s \in DOMAIN written' \ DOMAIN backups'
               PROVE  Cardinality(Newer(DOMAIN backups', s)) >= MaxBackups
    BY DEF Newer
  <2>1. s \in DOMAIN written \ DOMAIN backups /\ s \in 0 .. second
    BY <1>1 DEF FilesTyped
  <2>2. Cardinality(Newer(DOMAIN backups, s)) >= MaxBackups
    BY <2>1 DEF BackupsAreNewest, Newer
  <2>3. /\ DOMAIN backups' \in SUBSET (0 .. second)
        /\ DOMAIN backups \in SUBSET DOMAIN backups'
    BY <1>1, <1>3 DEF FilesTyped
  <2>4. second \in Nat /\ s \in Nat
    BY <2>1 DEF FilesTyped
  <2> QED
    BY <2>2, <2>3, <2>4, MoreNewer
<1> QED
  BY <1>3, <1>4, <1>5 DEF BackupsAreNewest

\* One that succeeds is followed by the rotation, as far as it gets.
LEMMA RotatedBackup ==
  ASSUME NEW routes \in Files, FilesTyped, BackupsAreNewest, second' = second,
         NEW gone \in SUBSET Surplus(With(backups, second, routes)),
         backups' = Only(With(backups, second, routes),
                         DOMAIN With(backups, second, routes) \ gone),
         written' = With(written, second, routes)
  PROVE  FilesTyped' /\ BackupsAreNewest'
<1> DEFINE all == With(backups, second, routes)
           D == DOMAIN backups \cup {second}
           K == D \ gone
<1>1. /\ DOMAIN all = D
      /\ \A s \in D : all[s] = IF s = second THEN routes ELSE backups[s]
      /\ DOMAIN written' = DOMAIN written \cup {second}
      /\ \A s \in DOMAIN written' :
           written'[s] = IF s = second THEN routes ELSE written[s]
  BY DEF With
<1>2. second \in Nat /\ D \in SUBSET (0 .. second)
  BY DEF FilesTyped
<1>3. backups' = [y \in K |-> all[y]]
  <2> HIDE DEF all
  <2>1. D \cap (D \ gone) = K
    OBVIOUS
  <2> QED
    BY <1>1, <2>1 DEF Only, all
<1>4. gone \in SUBSET {s \in D : Cardinality(Newer(D, s)) >= MaxBackups}
  BY <1>1 DEF Surplus, Newer
<1> HIDE DEF all
<1>5. DOMAIN backups' = K /\ \A s \in K : s \in D /\ backups'[s] = all[s]
  BY <1>3
<1>6. FilesTyped'
  <2>1. DOMAIN backups' \subseteq 0 .. second
    BY <1>2, <1>5
  <2>2. DOMAIN written' \subseteq 0 .. second
    BY <1>1, <1>2 DEF FilesTyped
  <2>3. \A s \in DOMAIN backups' : backups'[s] \in Files
    BY <1>1, <1>5 DEF FilesTyped
  <2> QED
    BY <1>2, <2>1, <2>2, <2>3 DEF FilesTyped
<1>7. \A s \in DOMAIN backups' : s \in DOMAIN written' /\ backups'[s] = written'[s]
  BY <1>1, <1>5 DEF BackupsAreNewest
<1>8. Newest(D) \in SUBSET K
  <2> SUFFICES ASSUME NEW s \in Newest(D) PROVE s \notin gone
    BY DEF Newest
  <2>1. Newer(D, s) \in SUBSET D
    BY DEF Newer
  <2>2. Cardinality(Newer(D, s)) \in Nat
    BY <1>2, <2>1, FiniteParts
  <2>3. Cardinality(Newer(D, s)) < MaxBackups
    BY DEF Newest
  <2> QED
    BY <1>4, <2>2, <2>3, BoundsAssumption
<1>9. \A s \in DOMAIN written' \ DOMAIN backups' :
        Cardinality({t \in DOMAIN backups' : t > s}) >= MaxBackups
  <2> SUFFICES ASSUME NEW s \in DOMAIN written' \ K
               PROVE  Cardinality(Newer(K, s)) >= MaxBackups
    BY <1>5 DEF Newer
  <2>1. s \in 0 .. second /\ s \in Nat
    BY <1>1, <1>2 DEF FilesTyped
  <2>2. Cardinality(Newer(D, s)) >= MaxBackups
    <3>1. CASE s \in D
      BY <1>4, <3>1
    <3>2. CASE s \notin D
      <4>1. s \in DOMAIN written \ DOMAIN backups
        BY <1>1, <3>2
      <4>2. Cardinality(Newer(DOMAIN backups, s)) >= MaxBackups
        BY <4>1 DEF BackupsAreNewest, Newer
      <4>3. DOMAIN backups \in SUBSET D
        OBVIOUS
      <4> QED
        BY <1>2, <2>1, <4>2, <4>3, MoreNewer
    <3> QED
      BY <3>1, <3>2
  <2>3. Cardinality(Newer(Newest(D), s)) >= MaxBackups
    BY <1>2, <2>1, <2>2, NewestAreEnough
  <2>4. K \in SUBSET (0 .. second)
    BY <1>2
  <2> QED
    BY <1>2, <1>8, <2>1, <2>3, <2>4, MoreNewer
<1> QED
  BY <1>6, <1>7, <1>9 DEF BackupsAreNewest

LEMMA MirrorWritten ==
  ASSUME NEW routes \in Routes, FilesTyped, BackupsAreNewest, yaml \in Files,
         second' = second, WriteYAML(routes)
  PROVE  FilesTyped' /\ BackupsAreNewest' /\ yaml' \in Files
<1>1. routes \in Files /\ yaml' \in Files
  BY NoRoutesTyped DEF WriteYAML
<1>2. CASE UNCHANGED <<backups, written>>
  BY <1>1, <1>2, FilesUnchanged DEF FilesTyped
<1>3. CASE backups' = With(backups, second, Torn) /\ written' = With(written, second, Torn)
  BY <1>1, <1>3, FailedBackup
<1>4. ASSUME NEW gone \in SUBSET Surplus(With(backups, second, routes)),
             backups' = Only(With(backups, second, routes),
                             DOMAIN With(backups, second, routes) \ gone),
             written' = With(written, second, routes)
      PROVE  FilesTyped' /\ BackupsAreNewest'
  BY <1>1, <1>4, RotatedBackup
<1> QED
  BY <1>1, <1>2, <1>3, <1>4, Zenon DEF WriteYAML

-----------------------------------------------------------------------------
(* The steps. *)

UntouchedLog == UNCHANGED <<accessLog, requests>>

LEMMA LogUnchanged ==
  ASSUME LogTyped, LogInv, UntouchedLog
  PROVE  LogTyped' /\ LogInv'
  BY DEF LogTyped, LogInv, UntouchedLog

LEMMA Agreed ==
  ASSUME Followed, NEW g \in Hosts, g \notin doubt
  PROVE  /\ cfg[g].upstream = rows[g].upstream
         /\ g \notin flipped => cfg[g] = rows[g]
<1>1. g \in Hosts \ doubt
  OBVIOUS
<1>2. \A h \in Hosts \ doubt : /\ cfg[h].upstream = rows[h].upstream
                               /\ h \notin flipped => cfg[h] = rows[h]
  BY Zenon DEF Followed, MemoryFollowsMemogo
<1> QED
  BY <1>1, <1>2

\* An edit of one host that succeeds.
LEMMA StoredKeeps ==
  ASSUME NEW h \in Hosts, NEW r \in Route \cup {NoRoute},
         TablesTyped, Followed, FilesTyped, BackupsAreNewest, yaml \in Files,
         second' = second, Stored(h, r)
  PROVE  TablesTyped' /\ Followed' /\ FilesTyped' /\ BackupsAreNewest' /\ yaml' \in Files
<1>1. TablesTyped'
  BY DEF TablesTyped, Stored, Routes
<1>2. MemoryFollowsMemogo'
  <2> SUFFICES ASSUME NEW g \in Hosts, g \notin doubt'
               PROVE  /\ cfg'[g].upstream = rows'[g].upstream
                      /\ g \notin flipped' => cfg'[g] = rows'[g]
    BY DEF MemoryFollowsMemogo
  <2>1. CASE g = h
    BY <2>1 DEF TablesTyped, Stored, Routes
  <2>2. CASE g # h
    <3>1. cfg'[g] = cfg[g] /\ rows'[g] = rows[g]
      BY <2>2 DEF TablesTyped, Stored, Routes
    <3>2. g \notin doubt /\ (g \notin flipped' => g \notin flipped)
      BY <2>2 DEF Stored
    <3>3. /\ cfg[g].upstream = rows[g].upstream
          /\ g \notin flipped => cfg[g] = rows[g]
      BY <3>2, Agreed
    <3> QED
      BY <3>1, <3>2, <3>3
  <2> QED
    BY <2>1, <2>2
<1>3. Followed'
  BY <1>2 DEF Followed, Stored, Outstanding
<1>4. cfg' \in Routes /\ WriteYAML(cfg')
  BY <1>1 DEF TablesTyped, Stored
<1> QED
  BY <1>1, <1>3, <1>4, MirrorWritten

\* A write that Memogo refuses changes nothing it has, and one that is not
\* answered changes at most the row of a host that is in doubt.
LEMMA UnheardKeeps ==
  ASSUME NEW h \in Hosts, NEW r \in Route \cup {NoRoute}, Unheard(h, r)
  PROVE  /\ doubt' = doubt \cup {h}
         /\ \A g \in Hosts \ {h} : rows \in Routes => rows'[g] = rows[g]
         /\ rows \in Routes => rows' \in Routes
         /\ late \subseteq Late => late' \subseteq Late
         /\ Outstanding \subseteq doubt => Outstanding' \subseteq doubt'
<1>1. [host |-> h, row |-> r] \in Late
  BY DEF Late
<1> QED
  BY <1>1 DEF Unheard, Routes, Outstanding

LEMMA WriteKeeps ==
  ASSUME NEW h \in Hosts, NEW r \in Route \cup {NoRoute}, IInv, Write(h, r)
  PROVE  IInv'
<1>1. /\ TablesTyped /\ FilesTyped /\ LogTyped /\ yaml \in Files /\ second \in Seconds
      /\ Followed /\ BackupsAreNewest /\ LogInv
  BY Parts DEF IInv
<1>2. second' = second /\ UntouchedLog
  BY DEF Write, UntouchedLog, logged
<1>3. LogTyped' /\ LogInv'
  BY <1>1, <1>2, LogUnchanged
<1>4. TablesTyped' /\ Followed' /\ FilesTyped' /\ BackupsAreNewest' /\ yaml' \in Files
  <2>1. CASE Stored(h, r)
    BY <1>1, <1>2, <2>1, StoredKeeps
  <2>2. CASE (Refused \/ Unheard(h, r)) /\ UNCHANGED <<cfg, flipped, yaml, backups, written>>
    <3>1. FilesTyped' /\ BackupsAreNewest' /\ yaml' \in Files
      BY <1>1, <1>2, <2>2, FilesUnchanged DEF FilesTyped
    <3>2. CASE Refused
      <4>1. UNCHANGED <<rows, late, doubt, cfg, flipped>>
        BY <2>2, <3>2 DEF Refused, memogo
      <4>2. TablesTyped' /\ MemoryFollowsMemogo' /\ Outstanding' = Outstanding
        BY <1>1, <4>1 DEF TablesTyped, Followed, MemoryFollowsMemogo, Outstanding
      <4> QED
        BY <1>1, <3>1, <4>1, <4>2 DEF Followed
    <3>3. CASE Unheard(h, r)
      <4>1. TablesTyped'
        BY <1>1, <2>2, <3>3, UnheardKeeps DEF TablesTyped
      <4>2. MemoryFollowsMemogo'
        BY <1>1, <2>2, <3>3, UnheardKeeps DEF TablesTyped, Followed, MemoryFollowsMemogo
      <4>3. Outstanding' \subseteq doubt'
        BY <1>1, <3>3, UnheardKeeps DEF Followed
      <4> QED
        BY <3>1, <4>1, <4>2, <4>3 DEF Followed
    <3> QED
      BY <2>2, <3>1, <3>2, <3>3
  <2> QED
    BY <2>1, <2>2 DEF Write
<1> QED
  BY <1>1, <1>2, <1>3, <1>4, PartsAfter

\* What is undone after an error is right unless the flag was so before, and
\* then nothing but the flag is wrong.
LEMMA SetRouteEnabledKeeps ==
  ASSUME NEW h \in Hosts, NEW e \in BOOLEAN, IInv, SetRouteEnabled(h, e)
  PROVE  IInv'
<1> DEFINE r == Enabled(cfg[h], e)
<1>1. /\ TablesTyped /\ FilesTyped /\ LogTyped /\ yaml \in Files /\ second \in Seconds
      /\ Followed /\ BackupsAreNewest /\ LogInv
  BY Parts DEF IInv
<1>2. second' = second /\ UntouchedLog
  BY DEF SetRouteEnabled, UntouchedLog, logged
<1>3. LogTyped' /\ LogInv'
  BY <1>1, <1>2, LogUnchanged
<1>4. cfg[h] \in Route
  BY <1>1 DEF SetRouteEnabled, TablesTyped, Routes
<1>5. /\ r \in Route /\ Enabled(r, ~ e) \in Route
      /\ Enabled(r, ~ e).upstream = cfg[h].upstream
      /\ (cfg[h] # r => Enabled(r, ~ e) = cfg[h])
  <2>1. /\ r \in Route /\ r.upstream = cfg[h].upstream
        /\ (cfg[h] # r => Enabled(r, ~ e) = cfg[h])
    BY <1>4, FlagTyped
  <2>2. (~ e) \in BOOLEAN
    OBVIOUS
  <2> HIDE DEF r
  <2>3. Enabled(r, ~ e) \in Route /\ Enabled(r, ~ e).upstream = r.upstream
    BY <2>1, <2>2, FlagTyped
  <2> QED
    BY <2>1, <2>3
<1>6. TablesTyped' /\ Followed' /\ FilesTyped' /\ BackupsAreNewest' /\ yaml' \in Files
  <2>1. CASE Stored(h, r)
    BY <1>1, <1>2, <1>5, <2>1, StoredKeeps
  <2>2. CASE /\ NotStored(h, r)
             /\ cfg' = [cfg EXCEPT ![h] = Enabled(r, ~ e)]
             /\ UNCHANGED <<yaml, backups, written>>
    <3> HIDE DEF r
    <3>1. FilesTyped' /\ BackupsAreNewest' /\ yaml' \in Files
      BY <1>1, <1>2, <2>2, FilesUnchanged DEF FilesTyped
    <3>2. /\ cfg' \in Routes /\ cfg'[h] = Enabled(r, ~ e)
          /\ \A g \in Hosts \ {h} : cfg'[g] = cfg[g]
      BY <1>1, <1>5, <2>2 DEF TablesTyped, Routes
    <3>3. CASE Refused /\ flipped' = IF cfg[h] = r THEN flipped \cup {h} ELSE flipped
      <4>1. UNCHANGED <<rows, late, doubt>>
        BY <3>3 DEF Refused, memogo
      <4>2. TablesTyped'
        BY <1>1, <3>2, <3>3, <4>1 DEF TablesTyped
      <4>3. MemoryFollowsMemogo'
        <5> SUFFICES ASSUME NEW g \in Hosts, g \notin doubt'
                     PROVE  /\ cfg'[g].upstream = rows'[g].upstream
                            /\ g \notin flipped' => cfg'[g] = rows'[g]
          BY DEF MemoryFollowsMemogo
        <5>1. /\ cfg[g].upstream = rows[g].upstream
              /\ g \notin flipped => cfg[g] = rows[g]
          <6>1. g \notin doubt
            BY <4>1
          <6> QED
            BY <1>1, <6>1, Agreed
        <5>2. CASE g = h
          BY <1>5, <3>2, <3>3, <4>1, <5>1, <5>2
        <5>3. CASE g # h
          BY <3>2, <3>3, <4>1, <5>1, <5>3
        <5> QED
          BY <5>2, <5>3
      <4>4. Outstanding' = Outstanding
        BY <4>1 DEF Outstanding
      <4> QED
        BY <1>1, <3>1, <4>1, <4>2, <4>3, <4>4 DEF Followed
    <3>4. CASE Unheard(h, r) /\ UNCHANGED flipped
      <4>1. TablesTyped'
        BY <1>1, <1>5, <3>2, <3>4, UnheardKeeps DEF TablesTyped
      <4>2. MemoryFollowsMemogo'
        BY <1>1, <1>5, <3>2, <3>4, UnheardKeeps DEF TablesTyped, Followed, MemoryFollowsMemogo
      <4>3. Outstanding' \subseteq doubt'
        BY <1>1, <1>5, <3>4, UnheardKeeps DEF Followed
      <4> QED
        BY <3>1, <4>1, <4>2, <4>3 DEF Followed
    <3> QED
      BY <2>2, <3>1, <3>3, <3>4 DEF NotStored
  <2> QED
    BY <2>1, <2>2 DEF SetRouteEnabled
<1> QED
  BY <1>1, <1>2, <1>3, <1>6, PartsAfter

LEMMA LoadedKeeps ==
  ASSUME IInv, Loaded
  PROVE  /\ TablesTyped' /\ Followed' /\ FilesTyped' /\ BackupsAreNewest'
         /\ yaml' \in Files /\ second' \in Seconds
<1>1. /\ TablesTyped /\ FilesTyped /\ LogTyped /\ yaml \in Files /\ second \in Seconds
      /\ Followed /\ BackupsAreNewest
  BY Parts DEF IInv
<1>2. UNCHANGED <<rows, late, yaml, second, backups, written>> /\ flipped' = {}
  BY DEF Loaded, memogo, disk
<1>3. FilesTyped' /\ BackupsAreNewest' /\ yaml' \in Files /\ second' \in Seconds
  BY <1>1, <1>2, FilesUnchanged DEF FilesTyped
<1>4. Outstanding' = Outstanding /\ Outstanding \in SUBSET Hosts
  BY <1>1, <1>2 DEF Outstanding, TablesTyped, Late
<1>5. CASE cfg' = rows /\ doubt' = Outstanding
  <2>1. cfg' = rows' /\ Outstanding' \subseteq doubt' /\ TablesTyped'
    BY <1>1, <1>2, <1>4, <1>5 DEF TablesTyped
  <2>2. MemoryFollowsMemogo'
    BY <2>1 DEF MemoryFollowsMemogo
  <2> QED
    BY <1>3, <2>1, <2>2 DEF Followed
<1>6. CASE cfg' = NoRoutes /\ doubt' = Hosts
  <2>1. TablesTyped' /\ Outstanding' \subseteq doubt'
    BY <1>1, <1>2, <1>4, <1>6, NoRoutesTyped DEF TablesTyped
  <2>2. MemoryFollowsMemogo'
    BY <1>6 DEF MemoryFollowsMemogo
  <2> QED
    BY <1>3, <2>1, <2>2 DEF Followed
<1> QED
  BY <1>3, <1>5, <1>6 DEF Loaded

LEMMA LoadConfigKeeps ==
  ASSUME IInv, LoadConfig
  PROVE  IInv'
<1>1. /\ TablesTyped' /\ Followed' /\ FilesTyped' /\ BackupsAreNewest'
      /\ yaml' \in Files /\ second' \in Seconds
  BY LoadedKeeps DEF LoadConfig
<1>2. LogTyped' /\ LogInv'
  BY Parts, LogUnchanged DEF IInv, LoadConfig, UntouchedLog, logged
<1> QED
  BY <1>1, <1>2, PartsAfter

LEMMA RestartKeeps ==
  ASSUME IInv, Restart
  PROVE  IInv'
<1>1. /\ TablesTyped' /\ Followed' /\ FilesTyped' /\ BackupsAreNewest'
      /\ yaml' \in Files /\ second' \in Seconds
  BY LoadedKeeps DEF Restart
<1>2. accessLog' = <<>> /\ requests' = 0 /\ Len(accessLog') = 0
  BY DEF Restart
<1>3. LogTyped' /\ LogInv'
  BY <1>2, BoundsAssumption, EmptySeq DEF LogTyped, LogInv
<1> QED
  BY <1>1, <1>3, PartsAfter

LEMMA RestoreKeeps ==
  ASSUME NEW offset, IInv, RestoreFromBackup(offset)
  PROVE  IInv'
<1>1. /\ TablesTyped /\ FilesTyped /\ LogTyped /\ yaml \in Files /\ second \in Seconds
      /\ Followed /\ BackupsAreNewest /\ LogInv
  BY Parts DEF IInv
<1>2. UNCHANGED <<rows, late, second, backups, written, accessLog, requests>>
  BY DEF RestoreFromBackup, memogo, logged
<1>3. Outstanding' = Outstanding /\ Outstanding \in SUBSET Hosts
  BY <1>1, <1>2 DEF Outstanding, TablesTyped, Late
<1>4. /\ yaml' \in Files /\ TablesTyped' /\ Followed'
  <2>1. PICK s \in DOMAIN backups :
          \/ /\ yaml' = backups[s] /\ cfg' = Parsed(backups[s])
             /\ doubt' = Hosts /\ flipped' = {}
          \/ yaml' = Torn /\ UNCHANGED <<cfg, doubt, flipped>>
    BY DEF RestoreFromBackup
  <2>2. backups[s] \in Files
    BY <1>1 DEF FilesTyped
  <2>3. CASE yaml' = Torn /\ UNCHANGED <<cfg, doubt, flipped>>
    BY <1>1, <1>2, <1>3, <2>3, NoRoutesTyped
    DEF TablesTyped, Followed, MemoryFollowsMemogo
  <2>4. CASE /\ yaml' = backups[s] /\ cfg' = Parsed(backups[s])
             /\ doubt' = Hosts /\ flipped' = {}
    BY <1>1, <1>2, <1>3, <2>2, <2>4, ParsedTyped
    DEF TablesTyped, Followed, MemoryFollowsMemogo
  <2> QED
    BY <2>1, <2>3, <2>4
<1>5. FilesTyped' /\ BackupsAreNewest' /\ second' \in Seconds
  BY <1>1, <1>2, FilesUnchanged DEF FilesTyped
<1>6. LogTyped' /\ LogInv'
  BY <1>1, <1>2, LogUnchanged DEF UntouchedLog
<1> QED
  BY <1>4, <1>5, <1>6, PartsAfter

\* A write that lands late meets a host that is in doubt.
LEMMA LateWriteKeeps ==
  ASSUME NEW w \in late, IInv, LateWriteLands(w) \/ LateWriteLost(w)
  PROVE  IInv'
<1>1. /\ TablesTyped /\ FilesTyped /\ LogTyped /\ yaml \in Files /\ second \in Seconds
      /\ Followed /\ BackupsAreNewest /\ LogInv
  BY Parts DEF IInv
<1>2. /\ UNCHANGED <<cfg, doubt, flipped, yaml, second, backups, written, accessLog, requests>>
      /\ late' = late \ {w}
      /\ rows' = rows \/ rows' = [rows EXCEPT ![w.host] = w.row]
  BY DEF LateWriteLands, LateWriteLost, disk, logged
<1>3. w.host \in Hosts /\ w.row \in Route \cup {NoRoute} /\ w.host \in doubt
  BY <1>1 DEF TablesTyped, Late, Followed, Outstanding
<1>4. rows' \in Routes /\ \A g \in Hosts \ {w.host} : rows'[g] = rows[g]
  BY <1>1, <1>2, <1>3 DEF TablesTyped, Routes
<1>5. TablesTyped'
  BY <1>1, <1>2, <1>4 DEF TablesTyped
<1>6. Followed'
  BY <1>1, <1>2, <1>3, <1>4 DEF Followed, MemoryFollowsMemogo, Outstanding
<1>7. FilesTyped' /\ BackupsAreNewest' /\ yaml' \in Files /\ second' \in Seconds
  BY <1>1, <1>2, FilesUnchanged DEF FilesTyped
<1>8. LogTyped' /\ LogInv'
  BY <1>1, <1>2, LogUnchanged DEF UntouchedLog
<1> QED
  BY <1>5, <1>6, <1>7, <1>8, PartsAfter

LEMMA TickKeeps ==
  ASSUME IInv, Tick
  PROVE  IInv'
<1>1. /\ TablesTyped /\ FilesTyped /\ LogTyped /\ yaml \in Files /\ second \in Seconds
      /\ Followed /\ BackupsAreNewest /\ LogInv
  BY Parts DEF IInv
<1>2. second \in Nat /\ second' \in Nat /\ second' >= second /\ second' \in Seconds
  BY <1>1, BoundsAssumption DEF Tick, FilesTyped, Seconds
<1>3. FilesTyped' /\ BackupsAreNewest' /\ yaml' \in Files
  BY <1>1, <1>2, FilesUnchanged DEF Tick
<1>4. LogTyped' /\ LogInv' /\ TablesTyped' /\ Followed'
  BY <1>1, LogUnchanged
  DEF Tick, UntouchedLog, logged, memogo, TablesTyped, Followed, MemoryFollowsMemogo, Outstanding
<1> QED
  BY <1>2, <1>3, <1>4, PartsAfter

LEMMA LogAccessKeeps ==
  ASSUME IInv, LogAccess
  PROVE  IInv'
<1> DEFINE long == Append(accessLog, requests')
           n == Len(accessLog)
<1>1. /\ TablesTyped /\ FilesTyped /\ LogTyped /\ yaml \in Files /\ second \in Seconds
      /\ Followed /\ BackupsAreNewest /\ LogInv
  BY Parts DEF IInv
<1>2. /\ requests \in Nat /\ requests' = requests + 1 /\ requests' \in 0 .. MaxRequests
      /\ requests' \in 1 .. requests' /\ accessLog' = Trimmed(long)
  BY <1>1, BoundsAssumption DEF LogAccess, LogTyped
<1>3. accessLog \in Seq(1 .. requests')
  <2>1. \A k \in 1 .. requests : k \in 1 .. requests'
    BY <1>2
  <2> QED
    BY <1>1, <2>1, SeqMonotonic DEF LogTyped
<1>4. /\ long \in Seq(1 .. requests') /\ Len(long) = n + 1 /\ n \in Nat
      /\ \A i \in 1 .. n : long[i] = accessLog[i]
      /\ long[n + 1] = requests'
  BY <1>2, <1>3, AppendProperties, LenProperties
<1> HIDE DEF long
<1>5. \A i \in 1 .. Len(long) : long[i] = requests' - Len(long) + i
  <2> SUFFICES ASSUME NEW i \in 1 .. Len(long) PROVE long[i] = requests' - Len(long) + i
    OBVIOUS
  <2>1. CASE i \in 1 .. n
    <3>1. long[i] = requests - n + i
      BY <1>1, <1>4, <2>1 DEF LogInv
    <3> QED
      BY <1>2, <1>4, <3>1
  <2>2. CASE i = n + 1
    BY <1>2, <1>4, <2>2
  <2> QED
    BY <1>4, <2>1, <2>2
<1>6. /\ n <= LogCap /\ (requests <= n \/ n > LogCap - LogCut) /\ n <= requests
      /\ LogCap \in Nat /\ LogCut \in Nat /\ 1 <= LogCut /\ LogCut <= LogCap
  BY <1>1, BoundsAssumption DEF LogInv
<1>7. accessLog' \in Seq(1 .. requests') /\ LogInv'
  <2>1. CASE n + 1 > LogCap
    <3>1. accessLog' = SubSeq(long, LogCut + 1, Len(long))
      BY <1>2, <1>4, <2>1 DEF Trimmed
    <3>2. n = LogCap
      BY <1>4, <1>6, <2>1
    <3>3. \A i \in LogCut + 1 .. Len(long) : long[i] \in 1 .. requests'
      <4>1. \A i \in 1 .. Len(long) : long[i] \in 1 .. requests'
        BY <1>4, ElementOfSeq
      <4>2. \A i \in LogCut + 1 .. Len(long) : i \in 1 .. Len(long)
        BY <1>4, <1>6
      <4> QED
        BY <4>1, <4>2
    <3>4. LogCut + 1 \in Int /\ Len(long) \in Int /\ LogCut + 1 <= Len(long)
      BY <1>4, <1>6, <3>2
    <3>5. /\ accessLog' \in Seq(1 .. requests')
          /\ Len(accessLog') = Len(long) - (LogCut + 1) + 1
          /\ \A i \in 1 .. Len(long) - (LogCut + 1) + 1 :
               accessLog'[i] = long[LogCut + 1 + i - 1]
      BY <3>1, <3>3, <3>4, SubSeqProperties
    <3>6. Len(accessLog') = LogCap + 1 - LogCut
      BY <1>4, <1>6, <3>2, <3>5
    <3>7. \A i \in 1 .. Len(accessLog') : accessLog'[i] = requests' - Len(accessLog') + i
      <4> SUFFICES ASSUME NEW i \in 1 .. Len(accessLog')
                   PROVE  accessLog'[i] = requests' - Len(accessLog') + i
        OBVIOUS
      <4>1. i \in 1 .. LogCap + 1 - LogCut
        BY <3>6
      <4>2. LogCut + 1 + i - 1 = LogCut + i /\ LogCut + i \in 1 .. Len(long)
        BY <1>4, <1>6, <3>2, <4>1
      <4>3. accessLog'[i] = long[LogCut + i]
        BY <3>5, <4>2
      <4>4. long[LogCut + i] = requests' - Len(long) + (LogCut + i)
        BY <1>5, <4>2
      <4>5. requests' - Len(long) + (LogCut + i) = requests' - Len(accessLog') + i
        BY <1>2, <1>4, <1>6, <3>2, <3>6, <4>1
      <4> QED
        BY <4>3, <4>4, <4>5
    <3>8. /\ Len(accessLog') <= LogCap /\ Len(accessLog') > LogCap - LogCut
          /\ Len(accessLog') <= requests'
      BY <1>2, <1>6, <3>2, <3>6
    <3> QED
      BY <3>5, <3>7, <3>8 DEF LogInv
  <2>2. CASE ~ (n + 1 > LogCap)
    <3>1. accessLog' = long
      BY <1>2, <1>4, <2>2 DEF Trimmed
    <3>2. /\ Len(accessLog') <= LogCap /\ Len(accessLog') <= requests'
          /\ requests' <= Len(accessLog') \/ Len(accessLog') > LogCap - LogCut
      BY <1>2, <1>4, <1>6, <2>2, <3>1
    <3> QED
      BY <1>4, <1>5, <3>1, <3>2 DEF LogInv
  <2> QED
    BY <2>1, <2>2
<1>8. LogTyped'
  BY <1>2, <1>7 DEF LogTyped
<1>9. FilesTyped' /\ BackupsAreNewest' /\ yaml' \in Files /\ second' \in Seconds
  BY <1>1, FilesUnchanged DEF LogAccess, disk, FilesTyped
<1>10. TablesTyped' /\ Followed'
  BY <1>1 DEF LogAccess, memogo, TablesTyped, Followed, MemoryFollowsMemogo, Outstanding
<1> QED
  BY <1>7, <1>8, <1>9, <1>10, PartsAfter

LEMMA StutterKeeps == IInv /\ UNCHANGED vars => IInv'
<1> SUFFICES ASSUME IInv, UNCHANGED vars PROVE IInv'
  OBVIOUS
<1>1. /\ TablesTyped /\ FilesTyped /\ LogTyped /\ yaml \in Files /\ second \in Seconds
      /\ Followed /\ BackupsAreNewest /\ LogInv
  BY Parts DEF IInv
<1>2. FilesTyped' /\ BackupsAreNewest' /\ yaml' \in Files /\ second' \in Seconds
  BY <1>1, FilesUnchanged DEF vars, disk, FilesTyped
<1>3. LogTyped' /\ LogInv' /\ TablesTyped' /\ Followed'
  BY <1>1, LogUnchanged
  DEF vars, UntouchedLog, logged, memogo, TablesTyped, Followed, MemoryFollowsMemogo, Outstanding
<1> QED
  BY <1>2, <1>3, PartsAfter

LEMMA StepInvariant == IInv /\ [Next]_vars => IInv'
<1> SUFFICES ASSUME IInv, [Next]_vars PROVE IInv'
  OBVIOUS
<1>1. CASE Tick
  BY <1>1, TickKeeps
<1>2. ASSUME NEW h \in Hosts, NEW u \in Upstreams, AddRoute(h, u)
      PROVE  IInv'
  <2>1. [upstream |-> u, enabled |-> TRUE] \in Route
    BY DEF Route
  <2> QED
    BY <1>2, <2>1, WriteKeeps DEF AddRoute
<1>3. ASSUME NEW h \in Hosts, NEW u \in Upstreams, UpdateRoute(h, u)
      PROVE  IInv'
  <2>1. cfg[h] \in Route
    BY <1>3 DEF UpdateRoute, IInv, TypeOK, Routes
  <2>2. [upstream |-> u, enabled |-> cfg[h].enabled] \in Route
    BY <2>1 DEF Route
  <2> QED
    BY <1>3, <2>2, WriteKeeps DEF UpdateRoute
<1>4. ASSUME NEW h \in Hosts, RemoveRoute(h)
      PROVE  IInv'
  BY <1>4, WriteKeeps DEF RemoveRoute
<1>5. ASSUME NEW h \in Hosts, NEW e \in BOOLEAN, SetRouteEnabled(h, e)
      PROVE  IInv'
  BY <1>5, SetRouteEnabledKeeps
<1>6. CASE LoadConfig
  BY <1>6, LoadConfigKeeps
<1>7. ASSUME NEW offset \in 0 .. MaxSeconds, RestoreFromBackup(offset)
      PROVE  IInv'
  BY <1>7, RestoreKeeps
<1>8. CASE LogAccess
  BY <1>8, LogAccessKeeps
<1>9. CASE Restart
  BY <1>9, RestartKeeps
<1>10. ASSUME NEW w \in late, LateWriteLands(w) \/ LateWriteLost(w)
       PROVE  IInv'
  BY <1>10, LateWriteKeeps
<1>11. CASE UNCHANGED vars
  BY <1>11, StutterKeeps
<1> QED
  BY <1>1, <1>2, <1>3, <1>4, <1>5, <1>6, <1>7, <1>8, <1>9, <1>10,
     <1>11 DEF Next

\* The inductive invariant behind the theorems below.
THEOREM Invariance == Spec => []IInv
<1> QED
  BY InitInvariant, StepInvariant, PTL DEF Spec

-----------------------------------------------------------------------------

\* Every reachable state of the store's history is well typed, and no backup is
\* from the future (store.go 627-956).
THEOREM TypeCorrect == Spec => []TypeOK
<1>1. IInv => TypeOK
  BY DEF IInv
<1> QED
  BY <1>1, Invariance, PTL

\* The table agrees with Memogo on every host but those in doubt, and but for
\* the flag of those whose roll-back was refused, whatever is written, fails or
\* lands late (store.go 639-697).
THEOREM MemoryFollows == Spec => []MemoryFollowsMemogo
<1>1. IInv => MemoryFollowsMemogo
  BY DEF IInv, Followed
<1> QED
  BY <1>1, Invariance, PTL

\* The newest backups are there, whatever number the rotation is told to keep
\* and whatever it fails to remove (store.go 930-956).
THEOREM NewestBackups == Spec => []BackupsAreNewest
<1>1. IInv => BackupsAreNewest
  BY DEF IInv
<1> QED
  BY <1>1, Invariance, PTL

LEMMA NewestEntries == IInv => LogIsNewest
<1> SUFFICES ASSUME IInv PROVE LogIsNewest
  OBVIOUS
<1>1. accessLog \in Seq(1 .. requests) /\ LogInv /\ requests \in Nat
  BY BoundsAssumption DEF IInv, TypeOK
<1>2. Len(accessLog) \in Nat
  BY <1>1, LenProperties
<1>3. ASSUME NEW n \in 1 .. Len(accessLog), NEW i \in 1 .. n
      PROVE  AccessLog(n)[i] = requests - n + i
  <2> DEFINE a == Len(accessLog) - n + 1
             z == Len(accessLog)
  <2>1. AccessLog(n) = SubSeq(accessLog, a, z)
    <3>1. ~ (n = 0 \/ n > Len(accessLog))
      BY <1>2
    <3> QED
      BY <3>1, Zenon DEF AccessLog
  <2>2. a \in Int /\ z \in Int /\ z - a + 1 = n /\ a + i - 1 = z - n + i
        /\ a + i - 1 \in 1 .. z
    BY <1>2
  <2>3. \A j \in a .. z : accessLog[j] \in 1 .. requests
    <3>1. \A j \in 1 .. z : accessLog[j] \in 1 .. requests
      BY <1>1, ElementOfSeq
    <3>2. \A j \in a .. z : j \in 1 .. z
      BY <1>2
    <3> QED
      BY <3>1, <3>2
  <2> HIDE DEF a, z
  <2>4. SubSeq(accessLog, a, z)[i] = accessLog[a + i - 1]
    <3>1. \A j \in 1 .. z - a + 1 : SubSeq(accessLog, a, z)[j] = accessLog[a + j - 1]
      BY <2>2, <2>3, SubSeqProperties
    <3> QED
      BY <2>2, <3>1
  <2>5. accessLog[a + i - 1] = requests - z + (a + i - 1)
    BY <1>1, <2>2 DEF LogInv, z
  <2>6. z \in Nat
    BY <1>2 DEF z
  <2>7. requests - z + (a + i - 1) = requests - n + i
    BY <1>1, <2>2, <2>6
  <2> QED
    BY <2>1, <2>4, <2>5, <2>7
<1> QED
  BY <1>1, <1>3 DEF LogIsNewest, LogInv

\* However often the access log is cut, its readers see the newest requests,
\* in order.
THEOREM AccessLogIsNewest == Spec => []LogIsNewest
<1> QED
  BY NewestEntries, Invariance, PTL
=============================================================================
