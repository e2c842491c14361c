---------------------------- MODULE CertWatch_proofs ----------------------------
(***************************************************************************)
(* Proofs about CertWatch: its types, and that no server but the one       *)
(* httpsSrv names ever accepts a connection, for any number of issues.     *)
(***************************************************************************)
EXTENDS CertWatch, TLAPS

\* Every server that has been replaced was shut down first, and so was the one
\* the callback is about to replace.
ReplacedAreShut ==
  /\ 1 .. server - 1 \subseteq shut
  /\ watch = "make" => server \in shut

\* A goroutine that is on its way or serving runs a server.
RunsAServer ==
  \A g \in DOMAIN run : run[g].at \notin {"ready", "ended"} => run[g].id # 0

IInv == TypeOK /\ OnlyCurrentServes /\ ReplacedAreShut /\ RunsAServer

-----------------------------------------------------------------------------

LEMMA IssuesFacts == 0 \in Issues /\ Issues \subseteq Nat
  BY MaxIssueAssumption DEF Issues

Runs(n) == [1 .. n -> [at : Places, id : 0 .. n, pair : Issues]]

LEMMA ReadyTyped ==
  ASSUME NEW n \in Nat
  PROVE  /\ Ready \in [at : Places, id : 0 .. n, pair : Issues]
         /\ Ended \in [at : Places, id : 0 .. n, pair : Issues]
         /\ Ready.at = "ready" /\ Ended.at = "ended"
  BY IssuesFacts DEF Ready, Ended, Places

LEMMA NoRunsTyped == NoRuns \in Runs(0) /\ DOMAIN NoRuns = {}
  BY DEF NoRuns, Runs

LEMMA InitInvariant == Init => IInv
<1> SUFFICES ASSUME Init PROVE IInv
  OBVIOUS
<1>1. key \in Issues
  <2>1. crt \in Issues /\ key \in 0 .. crt
    BY DEF Init
  <2> QED
    BY <2>1, MaxIssueAssumption DEF Issues
<1>2. aged \in BOOLEAN
  BY Zenon DEF Init
<1>3. run \in Runs(server) /\ DOMAIN run = {} /\ server = 0 /\ shut = {}
  BY NoRunsTyped DEF Init
<1>4. TypeOK
  BY <1>1, <1>2, <1>3, IssuesFacts DEF Init, TypeOK, Runs
<1> QED
  BY <1>3, <1>4 DEF Init, IInv, OnlyCurrentServes, ReplacedAreShut, RunsAServer

\* What the steps do to the files keeps their types.
FilesTyped == crt \in Issues /\ key \in Issues /\ issued \in Issues
              /\ aged \in BOOLEAN /\ rotating \in BOOLEAN

LEMMA IssueTyped ==
  ASSUME FilesTyped, IssueCrt
  PROVE  crt' \in Issues /\ issued' \in Issues /\ aged' \in BOOLEAN
<1>1. issued \in Issues /\ issued < MaxIssue /\ issued' = issued + 1
  BY DEF FilesTyped, IssueCrt
<1>2. issued' \in Issues
  BY <1>1, MaxIssueAssumption DEF Issues
<1> QED
  BY <1>2 DEF IssueCrt

LEMMA ProvidedTyped ==
  ASSUME FilesTyped, CertProvided \/ CertRefused
  PROVE  FilesTyped'
<1>1. CASE UNCHANGED files
  BY <1>1 DEF files, FilesTyped
<1>2. CASE IssueCrt /\ key' = issued' /\ UNCHANGED rotating
  BY <1>2, IssueTyped DEF FilesTyped
<1>3. CASE IssueCrt /\ UNCHANGED <<key, rotating>>
  BY <1>3, IssueTyped DEF FilesTyped
<1> QED
  BY <1>1, <1>2, <1>3 DEF CertProvided, CertRefused

LEMMA DiskTyped ==
  ASSUME FilesTyped, Disk
  PROVE  FilesTyped' /\ UNCHANGED <<main, watch, lastMod, https>>
<1>1. CASE RotateCrt
  BY <1>1, IssueTyped DEF RotateCrt, FilesTyped
<1>2. CASE RotateKey
  BY <1>2 DEF RotateKey, FilesTyped
<1>3. CASE RotationDies
  BY <1>3 DEF RotationDies, FilesTyped
<1>4. CASE RemoveFiles
  BY <1>4, IssuesFacts DEF RemoveFiles, FilesTyped
<1>5. CASE Age
  BY <1>5 DEF Age, FilesTyped
<1> QED
  BY <1>1, <1>2, <1>3, <1>4, <1>5 DEF Disk

\* What of the invariant is about the servers only.
ServersOK ==
  /\ server \in Nat /\ shut \subseteq 1 .. server /\ run \in Runs(server)
  /\ OnlyCurrentServes /\ RunsAServer

LEMMA Parts ==
  IInv <=> /\ FilesTyped /\ ServersOK /\ ReplacedAreShut
           /\ main \in {"down", "off", "ensure", "make", "up"}
           /\ watch \in {"none", "start", "waiting", "ensure", "shutdown", "make"}
           /\ lastMod \in Issues
           /\ IF main = "up" THEN server # 0 ELSE watch = "none" /\ server = 0
  BY DEF IInv, TypeOK, FilesTyped, ServersOK, Runs

LEMMA ServersUnchanged ==
  ASSUME ServersOK, UNCHANGED <<server, shut, run>>
  PROVE  ServersOK'
  BY DEF ServersOK, Runs, OnlyCurrentServes, RunsAServer, HoldsPort

\* A new server is made when there is none, or when the one there is has been
\* shut down: then nobody serves.
LEMMA NewServerKeeps ==
  ASSUME ServersOK, NewServer, server = 0 \/ server \in shut,
         1 .. server - 1 \subseteq shut
  PROVE  ServersOK' /\ 1 .. server' - 1 \subseteq shut' /\ server' # 0
<1>1. /\ server \in Nat /\ server' = server + 1 /\ server' \in Nat /\ shut' = shut
      /\ shut \subseteq 1 .. server /\ DOMAIN run = 1 .. server
  BY DEF ServersOK, NewServer, Runs
<1>2. /\ run' = [g \in 1 .. server' |-> IF g = server' THEN Ready ELSE run[g]]
      /\ DOMAIN run' = 1 .. server'
  BY DEF NewServer
<1>3. \A g \in 1 .. server : run[g].at # "serving"
  BY <1>1 DEF ServersOK, OnlyCurrentServes
<1>4. \A g \in 1 .. server' : g = server' \/ g \in 1 .. server
  BY <1>1
<1>5. run' \in Runs(server')
  <2> SUFFICES ASSUME NEW g \in 1 .. server'
               PROVE  run'[g] \in [at : Places, id : 0 .. server', pair : Issues]
    BY <1>2 DEF Runs
  <2>1. CASE g = server'
    BY <1>1, <1>2, <2>1, ReadyTyped
  <2>2. CASE g # server'
    <3>1. run'[g] = run[g] /\ run[g] \in [at : Places, id : 0 .. server, pair : Issues]
      BY <1>2, <1>4, <2>2 DEF ServersOK, Runs
    <3>2. \A k \in 0 .. server : k \in 0 .. server'
      BY <1>1
    <3> QED
      BY <3>1, <3>2
  <2> QED
    BY <2>1, <2>2
<1>6. \A g \in DOMAIN run' : \/ run'[g].at = "ready"
                             \/ g \in DOMAIN run /\ run'[g] = run[g]
  BY <1>1, <1>2, <1>4, ReadyTyped
<1>7. OnlyCurrentServes'
  BY <1>1, <1>3, <1>6 DEF OnlyCurrentServes
<1>8. RunsAServer'
  BY <1>6 DEF ServersOK, RunsAServer
<1>9. shut' \subseteq 1 .. server' /\ 1 .. server' - 1 \subseteq shut'
  <2>1. \A k \in 1 .. server : k \in 1 .. server'
    BY <1>1
  <2>2. \A k \in 1 .. server' - 1 : k \in 1 .. server - 1 \/ (k = server /\ server # 0)
    BY <1>1
  <2> QED
    BY <1>1, <2>1, <2>2
<1> QED
  BY <1>1, <1>5, <1>7, <1>8, <1>9 DEF ServersOK

\* One goroutine goes on: it serves only a server that has not been shut down,
\* and that is the last.
LEMMA GoesKeeps ==
  ASSUME ServersOK, ReplacedAreShut, crt \in Issues, NEW g \in DOMAIN run, Serve(g)
  PROVE  ServersOK' /\ ReplacedAreShut' /\ UNCHANGED <<files, main, watch, lastMod, server>>
<1> DEFINE Rec == [at : Places, id : 0 .. server, pair : Issues]
<1>1. server \in Nat /\ DOMAIN run = 1 .. server /\ run \in [1 .. server -> Rec]
  BY DEF ServersOK, Runs
<1>2. run[g] \in Rec /\ server \in 1 .. server
  BY <1>1
<1>3. UNCHANGED <<files, main, watch, lastMod, server, shut>>
  BY DEF Serve, LookUp, Bind, LoadCrt, LoadKey, TrackListener, Goes
<1>4. ASSUME NEW r \in Rec, run' = [run EXCEPT ![g] = r],
             r.at \notin {"ready", "ended"} => r.id # 0,
             r.at = "serving" => r.id = server /\ server \notin shut
      PROVE  ServersOK'
  <2>1. run' \in [1 .. server -> Rec] /\ DOMAIN run' = DOMAIN run
    BY <1>1, <1>4
  <2>2. \A o \in DOMAIN run : run'[o] = IF o = g THEN r ELSE run[o]
    BY <1>1, <1>4
  <2>3. OnlyCurrentServes'
    BY <1>3, <1>4, <2>1, <2>2 DEF ServersOK, OnlyCurrentServes
  <2>4. RunsAServer'
    BY <1>4, <2>1, <2>2 DEF ServersOK, RunsAServer
  <2> QED
    BY <1>3, <2>1, <2>3, <2>4 DEF ServersOK, Runs
<1>5. /\ Ended \in Rec /\ Ended.at = "ended"
  BY <1>1, ReadyTyped
<1>6. run' = [run EXCEPT ![g] = Ended] => ServersOK'
  BY <1>4, <1>5
<1>7. ServersOK'
  <2>1. CASE LookUp(g)
    <3> DEFINE r == [at |-> "listen", id |-> server, pair |-> 0]
    <3>1. r \in Rec /\ r.id # 0 /\ r.at = "listen"
      BY <1>1, <1>2, IssuesFacts DEF Places
    <3>2. run' = [run EXCEPT ![g] = r] \/ run' = [run EXCEPT ![g] = Ended]
      BY <2>1 DEF LookUp, Goes
    <3> HIDE DEF r
    <3> QED
      BY <1>4, <1>6, <3>1, <3>2
  <2>2. CASE Bind(g)
    <3> DEFINE r == [run[g] EXCEPT !.at = "bound"]
    <3>1. r \in Rec /\ r.id # 0 /\ r.at = "bound"
      BY <1>2, <2>2 DEF Bind, ServersOK, RunsAServer, Places
    <3>2. run' = [run EXCEPT ![g] = r] \/ run' = [run EXCEPT ![g] = Ended]
      BY <2>2 DEF Bind, Goes
    <3> HIDE DEF r
    <3> QED
      BY <1>4, <1>6, <3>1, <3>2
  <2>3. CASE LoadCrt(g)
    <3> DEFINE r == [run[g] EXCEPT !.at = "crtRead", !.pair = crt]
    <3>1. r \in Rec /\ r.id # 0 /\ r.at = "crtRead"
      BY <1>2, <2>3 DEF LoadCrt, ServersOK, RunsAServer, Places
    <3>2. run' = [run EXCEPT ![g] = r] \/ run' = [run EXCEPT ![g] = Ended]
      BY <2>3 DEF LoadCrt, Goes
    <3> HIDE DEF r
    <3> QED
      BY <1>4, <1>6, <3>1, <3>2
  <2>4. CASE LoadKey(g)
    <3> DEFINE r == [run[g] EXCEPT !.at = "loaded"]
    <3>1. r \in Rec /\ r.id # 0 /\ r.at = "loaded"
      BY <1>2, <2>4 DEF LoadKey, ServersOK, RunsAServer, Places
    <3>2. run' = [run EXCEPT ![g] = r] \/ run' = [run EXCEPT ![g] = Ended]
      BY <2>4 DEF LoadKey, Goes
    <3> HIDE DEF r
    <3> QED
      BY <1>4, <1>6, <3>1, <3>2
  <2>5. CASE TrackListener(g)
    <3> DEFINE r == [run[g] EXCEPT !.at = "serving"]
    <3>1. r \in Rec /\ r.id = run[g].id /\ r.id # 0 /\ r.at = "serving"
      BY <1>2, <2>5 DEF TrackListener, ServersOK, RunsAServer, Places
    <3>2. \/ run' = [run EXCEPT ![g] = Ended]
          \/ run[g].id \notin shut /\ run' = [run EXCEPT ![g] = r]
      BY <2>5 DEF TrackListener, Goes
    <3>3. run[g].id \notin shut => r.id = server /\ server \notin shut
      BY <1>1, <1>2, <3>1 DEF ReplacedAreShut
    <3> HIDE DEF r
    <3> QED
      BY <1>4, <1>6, <3>1, <3>2, <3>3
  <2> QED
    BY <2>1, <2>2, <2>3, <2>4, <2>5 DEF Serve
<1> QED
  BY <1>3, <1>7 DEF ReplacedAreShut

LEMMA StepInvariant == IInv /\ [Next]_vars => IInv'
<1> SUFFICES ASSUME IInv, [Next]_vars PROVE IInv'
  OBVIOUS
<1>t. /\ FilesTyped /\ ServersOK /\ ReplacedAreShut
      /\ main \in {"down", "off", "ensure", "make", "up"}
      /\ watch \in {"none", "start", "waiting", "ensure", "shutdown", "make"}
      /\ lastMod \in Issues
      /\ IF main = "up" THEN server # 0 ELSE watch = "none" /\ server = 0
  BY Parts
<1>p. ASSUME FilesTyped', ServersOK', ReplacedAreShut',
             main' \in {"down", "off", "ensure", "make", "up"},
             watch' \in {"none", "start", "waiting", "ensure", "shutdown", "make"},
             lastMod' \in Issues,
             IF main' = "up" THEN server' # 0 ELSE watch' = "none" /\ server' = 0
      PROVE  IInv'
  BY <1>p DEF IInv, TypeOK, FilesTyped, ServersOK, Runs
\* Steps that leave the servers alone.
<1>u. ASSUME FilesTyped', UNCHANGED https,
             main' \in {"down", "off", "ensure", "make", "up"},
             watch' \in {"none", "start", "waiting", "ensure", "shutdown"} \/ watch' = watch,
             lastMod' \in Issues,
             IF main' = "up" THEN server # 0 ELSE watch' = "none" /\ server = 0
      PROVE  IInv'
  <2>1. UNCHANGED <<server, shut, run>>
    BY <1>u DEF https
  <2>2. ServersOK' /\ ReplacedAreShut'
    BY <1>t, <1>u, <2>1, ServersUnchanged DEF ReplacedAreShut
  <2> QED
    BY <1>t, <1>u, <1>p, <2>1, <2>2
<1>1. CASE Disk
  BY <1>1, <1>t, <1>u, DiskTyped
<1>2. CASE Start
  BY <1>2, <1>t, <1>u DEF Start, files, FilesTyped
<1>3. CASE EnsureAtStart
  <2>1. FilesTyped'
    BY <1>3, <1>t, ProvidedTyped DEF EnsureAtStart
  <2> QED
    BY <1>3, <1>t, <1>u, <2>1 DEF EnsureAtStart
<1>4. CASE MakeAtStart
  <2>1. server = 0 /\ NewServer
    BY <1>4, <1>t DEF MakeAtStart
  <2>2. ServersOK' /\ 1 .. server' - 1 \subseteq shut' /\ server' # 0
    BY <1>t, <2>1, NewServerKeeps DEF ReplacedAreShut
  <2>3. FilesTyped' /\ main' = "up" /\ watch' = "start" /\ lastMod' \in Issues
    BY <1>4, <1>t DEF MakeAtStart, files, FilesTyped
  <2> QED
    BY <1>p, <2>2, <2>3 DEF ReplacedAreShut
<1>5. CASE Terminate
  <2>1. /\ FilesTyped' /\ main' = "down" /\ watch' = "none" /\ lastMod' = 0
        /\ server' = 0 /\ shut' = {} /\ run' = NoRuns
    BY <1>5, <1>t DEF Terminate, files, FilesTyped
  <2>2. ServersOK'
    BY <2>1, NoRunsTyped DEF ServersOK, OnlyCurrentServes, RunsAServer, Runs
  <2>3. ReplacedAreShut'
    BY <2>1 DEF ReplacedAreShut
  <2> QED
    BY <1>p, <2>1, <2>2, <2>3, IssuesFacts
<1>6. CASE WatchStarts
  <2>1. FilesTyped' /\ crt \in Issues
    BY <1>6, <1>t DEF WatchStarts, files, FilesTyped
  <2> QED
    BY <1>6, <1>t, <1>u, <2>1 DEF WatchStarts
<1>7. CASE Poll
  <2>1. FilesTyped' /\ crt \in Issues
    BY <1>7, <1>t DEF Poll, files, FilesTyped
  <2> QED
    BY <1>7, <1>t, <1>u, <2>1 DEF Poll
<1>8. CASE EnsureAgain
  <2>1. FilesTyped'
    BY <1>8, <1>t, ProvidedTyped DEF EnsureAgain
  <2> QED
    BY <1>8, <1>t, <1>u, <2>1 DEF EnsureAgain
<1>9. CASE Shutdown
  <2>1. /\ watch = "shutdown" /\ watch' = "make" /\ main = "up" /\ main' = "up"
        /\ FilesTyped' /\ lastMod' \in Issues /\ server' = server
        /\ shut' = shut \cup {server}
    BY <1>9, <1>t DEF Shutdown, files, FilesTyped
  <2>2. CASE server # 0
    <3>1. /\ server \in Nat /\ run \in Runs(server) /\ DOMAIN run = 1 .. server
      BY <1>t DEF ServersOK, Runs
    <3>2. /\ DOMAIN run' = DOMAIN run
          /\ \A g \in DOMAIN run : \/ run'[g] = Ended
                                  \/ /\ run'[g] = run[g]
                                     /\ ~ (run[g].at = "serving" /\ run[g].id = server)
      BY <1>9 DEF Shutdown
    <3>3. run' \in Runs(server')
      <4>1. run' = [g \in 1 .. server |-> run'[g]]
        BY <1>9, <3>1 DEF Shutdown
      <4>2. \A g \in 1 .. server : run'[g] \in [at : Places, id : 0 .. server, pair : Issues]
        BY <3>1, <3>2, ReadyTyped DEF Runs
      <4> QED
        BY <2>1, <4>1, <4>2 DEF Runs
    <3>4. OnlyCurrentServes'
      BY <1>t, <2>1, <3>2, <3>1, ReadyTyped DEF ServersOK, OnlyCurrentServes
    <3>5. RunsAServer'
      BY <1>t, <3>2, <3>1, ReadyTyped DEF ServersOK, RunsAServer
    <3>6. shut' \subseteq 1 .. server'
      BY <1>t, <2>1, <2>2, <3>1 DEF ServersOK
    <3>7. ServersOK' /\ ReplacedAreShut'
      BY <1>t, <2>1, <3>1, <3>3, <3>4, <3>5, <3>6 DEF ServersOK, ReplacedAreShut
    <3> QED
      BY <1>p, <2>1, <2>2, <3>7, <1>t
  <2>3. server # 0
    BY <1>t, <2>1
  <2> QED
    BY <2>2, <2>3
<1>10. CASE MakeAgain
  <2>1. server \in shut /\ NewServer /\ main = "up" /\ main' = "up" /\ watch' = "waiting"
    BY <1>10, <1>t DEF MakeAgain, ReplacedAreShut
  <2>2. ServersOK' /\ 1 .. server' - 1 \subseteq shut' /\ server' # 0
    BY <1>t, <2>1, NewServerKeeps DEF ReplacedAreShut
  <2>3. FilesTyped' /\ lastMod' \in Issues
    BY <1>10, <1>t DEF MakeAgain, files, FilesTyped
  <2> QED
    BY <1>p, <2>1, <2>2, <2>3 DEF ReplacedAreShut
<1>11. ASSUME NEW g \in DOMAIN run, Serve(g)
       PROVE  IInv'
  <2>1. ServersOK' /\ ReplacedAreShut' /\ UNCHANGED <<files, main, watch, lastMod, server>>
    BY <1>t, <1>11, GoesKeeps DEF FilesTyped
  <2>2. FilesTyped'
    BY <1>t, <2>1 DEF files, FilesTyped
  <2> QED
    BY <1>t, <1>p, <2>1, <2>2
<1>12. CASE UNCHANGED vars
  BY <1>12, <1>t, <1>u DEF vars, files, FilesTyped
<1> QED
  BY <1>1, <1>2, <1>3, <1>4, <1>5, <1>6, <1>7, <1>8, <1>9, <1>10, <1>11, <1>12
     DEF Next, StartUp, Watcher

\* Every reachable state has the types TypeOK names: main.go 249-290 watches,
\* starts and serves nothing without an HTTPS server.
THEOREM TypeCorrect == Spec => []TypeOK
<1>1. IInv => TypeOK
  BY DEF IInv
<1> QED
  BY <1>1, InitInvariant, StepInvariant, PTL DEF Spec

\* No server that the callback of watchCert has shut down or replaced accepts a
\* connection again, wherever its goroutine was at that moment.
THEOREM OnlyCurrentAnswers == Spec => []OnlyCurrentServes
<1>1. IInv => OnlyCurrentServes
  BY DEF IInv
<1> QED
  BY <1>1, InitInvariant, StepInvariant, PTL DEF Spec
=============================================================================
