--------------------------- MODULE Onboarding_proofs ---------------------------
(***************************************************************************)
(* Proofs about Onboarding: its types, and that what is chosen without *)
(* a caller is open only to good purpose, for any number of ports, hosts,  *)
(* registrations and scans.                                                *)
(***************************************************************************)
EXTENDS Onboarding, TLAPS

\* A login in view now has been seen; one that was found, in a registration
\* or in a scan under way, was seen when it was found.
LoginsShown == \A p \in Ports : HasAuth(page[p]) => p \in shown
FoundShown ==
  /\ \A c \in Clients : register[c].at = "add" /\ register[c].login => register[c].port \in shown
  /\ \A s \in Scanners : scan[s] # None =>
       \A sg \in scan[s].found : sg.auth = "none" => sg.port \in shown

\* AutoOpensOnlyIfShown, part by part.
RoutesAllowed ==
  \A h \in Hosts : Registered(h) /\ routes[h].by = "register" /\ routes[h].auth \in Open
                     => routes[h].prefixed \/ routes[h].port \in shown
SuggestionsAllowed == \A sg \in lastRescan : sg.auth = "none" => sg.port \in shown

IInv == TypeOK /\ LoginsShown /\ FoundShown /\ RoutesAllowed /\ SuggestionsAllowed

-----------------------------------------------------------------------------

LEMMA PortsFacts ==
  /\ Ports \subseteq 1 .. NumPorts + 1 /\ NumPorts \in Nat
  /\ \A p \in Ports : p \in Nat /\ p + 1 \in 1 .. NumPorts + 1
  /\ 1 \in 1 .. NumPorts + 1
  BY CountsAssumption DEF Ports

LEMMA ShownGrows ==
  ASSUME LoginsShown, FoundShown, RoutesAllowed, SuggestionsAllowed,
         shown \subseteq shown', UNCHANGED <<routes, register, scan, lastRescan>>
  PROVE  FoundShown' /\ RoutesAllowed' /\ SuggestionsAllowed'
  BY DEF FoundShown, RoutesAllowed, SuggestionsAllowed, Registered

LEMMA InitInvariant == Init => IInv
<1> SUFFICES ASSUME Init PROVE IInv
  OBVIOUS
<1>1. page \in [Ports -> Page \cup {Closed}]
  BY PagesAssumption DEF Init
<1>2. TypeOK
  BY <1>1, CountsAssumption DEF Init, TypeOK, LoginPorts, Registration, Scan
<1>3. LoginsShown
  BY DEF Init, LoginsShown, LoginPorts
<1>4. FoundShown /\ RoutesAllowed /\ SuggestionsAllowed
  BY DEF Init, FoundShown, RoutesAllowed, SuggestionsAllowed, None, Registered
<1> QED
  BY <1>2, <1>3, <1>4 DEF IInv

LEMMA UpstreamChangesKeeps ==
  ASSUME IInv, NEW p \in Ports, NEW pg \in Pages \cup {Closed}, UpstreamChanges(p, pg)
  PROVE  IInv'
<1>1. page' \in [Ports -> Page \cup {Closed}]
  BY PagesAssumption DEF IInv, TypeOK, UpstreamChanges
<1>2. LoginPorts(page') \subseteq Ports /\ shown' = shown \cup LoginPorts(page')
  BY DEF LoginPorts, UpstreamChanges
<1>3. TypeOK'
  BY <1>1, <1>2 DEF IInv, TypeOK, UpstreamChanges
<1>4. LoginsShown'
  BY <1>2 DEF LoginsShown, LoginPorts
<1>5. FoundShown' /\ RoutesAllowed' /\ SuggestionsAllowed'
  BY <1>2, ShownGrows DEF IInv, UpstreamChanges
<1> QED
  BY <1>3, <1>4, <1>5 DEF IInv

\* An addition whose policy is allowed.
LEMMA AddRouteKeeps ==
  ASSUME IInv, NEW h \in Hosts, NEW r \in Route, AddRoute(h, r), UNCHANGED shown,
         r.by = "register" /\ r.auth \in Open => r.prefixed \/ r.port \in shown
  PROVE  routes' \in [Hosts -> Route \cup {NoRoute}] /\ RoutesAllowed'
  BY DEF AddRoute, IInv, TypeOK, RoutesAllowed, Registered

LEMMA AddAskedKeeps ==
  ASSUME IInv, NEW h \in Hosts, NEW p \in Ports, NEW prefixed \in BOOLEAN,
         NEW auth \in Policies \cup {"missing"}, NEW web \in BOOLEAN, AddAsked(h, p, prefixed, auth, web)
  PROVE  IInv'
<1> DEFINE r == [port |-> p, prefixed |-> prefixed,
                 auth |-> IF auth = "missing" THEN "none" ELSE auth,
                 by |-> IF auth = "missing" THEN "default" ELSE "caller"]
<1>1. r \in Route /\ r.by # "register"
  <2>1. (IF auth = "missing" THEN "none" ELSE auth) \in Auths
    BY PoliciesAssumption DEF Auths
  <2> QED
    BY <2>1 DEF Route
<1>2. AddRoute(h, r) /\ UNCHANGED <<page, register, scan, lastRescan, shown, panics>>
  BY DEF AddAsked, history
<1> HIDE DEF r
<1>3. routes' \in [Hosts -> Route \cup {NoRoute}] /\ RoutesAllowed'
  BY <1>1, <1>2, AddRouteKeeps
<1>4. owed' \in 0 .. MaxOwed
  <2>1. owed \in 0 .. MaxOwed
    BY DEF IInv, TypeOK
  <2>2. owed' = owed \/ (owed < MaxOwed /\ owed' = owed + 1)
    BY DEF AddAsked
  <2> QED
    BY <2>1, <2>2, CountsAssumption
<1>5. TypeOK'
  BY <1>2, <1>3, <1>4 DEF IInv, TypeOK
<1>6. LoginsShown' /\ FoundShown' /\ SuggestionsAllowed'
  BY <1>2 DEF IInv, LoginsShown, FoundShown, SuggestionsAllowed
<1> QED
  BY <1>3, <1>5, <1>6 DEF IInv

LEMMA RemoveRouteKeeps ==
  ASSUME IInv, NEW h \in Hosts, RemoveRoute(h)
  PROVE  IInv'
<1>1. TypeOK'
  BY DEF IInv, TypeOK, RemoveRoute, history
<1>2. RoutesAllowed'
  BY DEF IInv, TypeOK, RemoveRoute, RoutesAllowed, Registered, history
<1>3. LoginsShown' /\ FoundShown' /\ SuggestionsAllowed'
  BY DEF IInv, RemoveRoute, history, LoginsShown, FoundShown, SuggestionsAllowed
<1> QED
  BY <1>1, <1>2, <1>3 DEF IInv

LEMMA RegisterKeeps ==
  ASSUME IInv, NEW c \in Clients, NEW h \in Hosts, NEW p \in Ports,
         NEW prefixed \in BOOLEAN, NEW wish \in Wishes, Register(c, h, p, prefixed, wish)
  PROVE  IInv'
<1>1. TypeOK'
  <2>1. register' \in [Clients -> Registration]
    BY DEF IInv, TypeOK, Register, Registration
  <2> QED
    BY <2>1 DEF IInv, TypeOK, Register, history
<1>2. FoundShown'
  BY DEF IInv, TypeOK, FoundShown, Register, history
<1>3. LoginsShown' /\ RoutesAllowed' /\ SuggestionsAllowed'
  BY DEF IInv, Register, Registered, history, LoginsShown, RoutesAllowed, SuggestionsAllowed
<1> QED
  BY <1>1, <1>2, <1>3 DEF IInv

\* A registration about to inspect, and one about to add.
LEMMA RegistrationFields ==
  ASSUME NEW r \in Registration
  PROVE  /\ r.at = "inspect" => /\ r.host \in Hosts /\ r.port \in Ports
                                /\ r.prefixed \in BOOLEAN /\ r.wish \in Wishes
         /\ r.at = "add" => /\ r.host \in Hosts /\ r.port \in Ports /\ r.wish \in Wishes
                            /\ r.prefixed \in BOOLEAN /\ r.login \in BOOLEAN
  BY DEF Registration, None

LEMMA RegisterInspectsKeeps ==
  ASSUME IInv, NEW c \in Clients, RegisterInspects(c)
  PROVE  IInv'
<1> DEFINE r == register[c]
           login == HasAuth(page[r.port])
<1>1. r \in Registration /\ r.at = "inspect"
  BY DEF IInv, TypeOK, RegisterInspects
<1>2. /\ r.host \in Hosts /\ r.port \in Ports
      /\ r.prefixed \in BOOLEAN /\ r.wish \in Wishes
  BY <1>1, RegistrationFields
<1>3. login \in BOOLEAN /\ (login => r.port \in shown)
  BY <1>2 DEF HasAuth, IInv, LoginsShown
<1>4. register' = [register EXCEPT ![c] =
           [at |-> "add", host |-> r.host, port |-> r.port, prefixed |-> r.prefixed,
            wish |-> r.wish, login |-> login]]
  BY DEF RegisterInspects
<1> HIDE DEF login
<1>5. TypeOK'
  <2>1. register' \in [Clients -> Registration]
    BY <1>2, <1>3, <1>4 DEF IInv, TypeOK, Registration
  <2> QED
    BY <2>1 DEF IInv, TypeOK, RegisterInspects, history
<1>6. FoundShown'
  BY <1>3, <1>4 DEF IInv, TypeOK, FoundShown, RegisterInspects, history
<1>7. LoginsShown' /\ RoutesAllowed' /\ SuggestionsAllowed'
  BY DEF IInv, RegisterInspects, Registered, history, LoginsShown, RoutesAllowed, SuggestionsAllowed
<1> QED
  BY <1>5, <1>6, <1>7 DEF IInv

LEMMA AppliedAuthAllowed ==
  ASSUME NEW r \in Registration, r.at = "add"
  PROVE  /\ AppliedAuth(r) \in Auths
         /\ AppliedAuth(r) \in Open => r.wish # "auto" \/ r.prefixed \/ r.login
<1>1. r.wish \in Wishes /\ r.prefixed \in BOOLEAN /\ r.login \in BOOLEAN
  BY RegistrationFields
<1>2. r.wish # "auto" => r.wish \in Auths
  BY <1>1, PoliciesAssumption DEF Wishes
<1>3. CASE r.wish # "auto"
  <2>1. AppliedAuth(r) = r.wish
    BY <1>3 DEF AppliedAuth
  <2> QED
    BY <1>2, <1>3, <2>1
<1>4. CASE r.wish = "auto" /\ r.prefixed
  BY <1>4 DEF AppliedAuth, Auths
<1>5. CASE r.wish = "auto" /\ ~ r.prefixed /\ r.login
  BY <1>5 DEF AppliedAuth, Auths
<1>6. CASE r.wish = "auto" /\ ~ r.prefixed /\ ~ r.login
  BY <1>6 DEF AppliedAuth, Auths, Open
<1> QED
  BY <1>1, <1>3, <1>4, <1>5, <1>6

LEMMA RegisterAddsKeeps ==
  ASSUME IInv, NEW c \in Clients, RegisterAdds(c)
  PROVE  IInv'
<1> DEFINE r == register[c]
           new == [port |-> r.port, prefixed |-> r.prefixed,
                   auth |-> AppliedAuth(r),
                   by |-> IF r.wish = "auto" THEN "register" ELSE "caller"]
<1>1. r \in Registration /\ r.at = "add" /\ (r.login => r.port \in shown)
  BY DEF IInv, TypeOK, FoundShown, RegisterAdds
<1>2. r.host \in Hosts /\ r.port \in Ports /\ r.prefixed \in BOOLEAN
  BY <1>1, RegistrationFields
<1>3. /\ AppliedAuth(r) \in Auths
      /\ AppliedAuth(r) \in Open => r.wish # "auto" \/ r.prefixed \/ r.port \in shown
  BY <1>1, AppliedAuthAllowed
<1>4. new \in Route
  BY <1>2, <1>3 DEF Route
<1>5. new.by = "register" /\ new.auth \in Open => new.prefixed \/ new.port \in shown
  BY <1>3
<1>6. /\ AddRoute(r.host, new) /\ register' = [register EXCEPT ![c] = None]
      /\ UNCHANGED <<page, owed, scan, lastRescan, shown, panics>>
  BY DEF RegisterAdds, history
<1> HIDE DEF new
<1>7. routes' \in [Hosts -> Route \cup {NoRoute}] /\ RoutesAllowed'
  BY <1>2, <1>4, <1>5, <1>6, AddRouteKeeps
<1>8. TypeOK'
  BY <1>6, <1>7 DEF IInv, TypeOK, Registration
<1>9. FoundShown'
  BY <1>6 DEF IInv, TypeOK, FoundShown, None
<1>10. LoginsShown' /\ SuggestionsAllowed'
  BY <1>6 DEF IInv, LoginsShown, SuggestionsAllowed
<1> QED
  BY <1>7, <1>8, <1>9, <1>10 DEF IInv

-----------------------------------------------------------------------------
(* Scans. *)

LEMMA BeginScanKeeps ==
  ASSUME IInv, NEW s \in Scanners, BeginScan(s), owed' \in 0 .. MaxOwed,
         UNCHANGED <<page, routes, register, lastRescan, shown, panics>>
  PROVE  IInv'
<1>1. UsedPorts \in SUBSET Ports
  <2>1. \A h \in Hosts : Registered(h) => routes[h].port \in Ports
    BY DEF IInv, TypeOK, Registered, Route
  <2> QED
    BY <2>1 DEF UsedPorts
<1>2. scan' \in [Scanners -> Scan]
  <2>1. [at |-> "dial", port |-> 1, used |-> UsedPorts, found |-> {}] \in Scan
    BY <1>1, PortsFacts DEF Scan
  <2> QED
    BY <2>1 DEF IInv, TypeOK, BeginScan
<1>3. TypeOK'
  BY <1>2 DEF IInv, TypeOK
<1>4. FoundShown'
  BY DEF IInv, TypeOK, FoundShown, BeginScan
<1>5. LoginsShown' /\ RoutesAllowed' /\ SuggestionsAllowed'
  BY DEF IInv, LoginsShown, RoutesAllowed, SuggestionsAllowed, Registered
<1> QED
  BY <1>3, <1>4, <1>5 DEF IInv

LEMMA ScanFields ==
  ASSUME NEW x \in Scan, x # None
  PROVE  /\ x \in [at : {"dial", "look"}, port : 1 .. NumPorts + 1,
                   used : SUBSET Ports, found : SUBSET Suggestion]
         /\ x.at # "none"
  BY DEF Scan, None

\* A scan goes on: what it has found so far has been seen.
LEMMA ScanGoesOn ==
  ASSUME IInv, NEW s \in Scanners, NEW x \in Scan,
         scan' = [scan EXCEPT ![s] = x],
         x # None => \A sg \in x.found : sg.auth = "none" => sg.port \in shown,
         UNCHANGED <<page, routes, register, owed, lastRescan, shown>>,
         panics' \in 0 .. MaxPanics
  PROVE  IInv'
<1>1. TypeOK'
  BY DEF IInv, TypeOK
<1>2. FoundShown'
  BY DEF IInv, TypeOK, FoundShown
<1>3. LoginsShown' /\ RoutesAllowed' /\ SuggestionsAllowed'
  BY DEF IInv, LoginsShown, RoutesAllowed, SuggestionsAllowed, Registered
<1> QED
  BY <1>1, <1>2, <1>3 DEF IInv

LEMMA DialKeeps ==
  ASSUME IInv, NEW s \in Scanners, Dial(s)
  PROVE  IInv'
<1>1. scan \in [Scanners -> Scan] /\ scan[s] # None /\ scan[s].port \in Ports
  BY DEF IInv, TypeOK, Dial, Scanning, None
<1>2. scan[s] \in [at : {"dial", "look"}, port : 1 .. NumPorts + 1,
                   used : SUBSET Ports, found : SUBSET Suggestion]
  BY <1>1, ScanFields
<1>3. \A sg \in scan[s].found : sg.auth = "none" => sg.port \in shown
  BY <1>1 DEF IInv, FoundShown
<1> DEFINE on == [scan[s] EXCEPT !.port = @ + 1]
           look == [scan[s] EXCEPT !.at = "look"]
<1>4. on \in Scan /\ on.found = scan[s].found
  BY <1>1, <1>2, PortsFacts DEF Scan
<1>5. look \in Scan /\ look.found = scan[s].found
  BY <1>2 DEF Scan
<1>6. \/ scan' = [scan EXCEPT ![s] = on]
      \/ scan' = [scan EXCEPT ![s] = look]
  BY DEF Dial
<1>7. UNCHANGED <<page, routes, register, owed, lastRescan, shown>> /\ panics' \in 0 .. MaxPanics
  BY DEF Dial, history, IInv, TypeOK
<1> QED
  BY <1>3, <1>4, <1>5, <1>6, <1>7, ScanGoesOn

LEMMA LookKeeps ==
  ASSUME IInv, NEW s \in Scanners, Look(s)
  PROVE  IInv'
<1> DEFINE p == scan[s].port
           new == [port |-> p, auth |-> RecommendedAuth(page[p])]
           on == [scan[s] EXCEPT !.at = "dial", !.port = p + 1, !.found = @ \cup {new}]
<1>1. scan \in [Scanners -> Scan] /\ scan[s] # None /\ p \in Ports
  BY DEF IInv, TypeOK, Look, Scanning, None
<1>2. scan[s] \in [at : {"dial", "look"}, port : 1 .. NumPorts + 1,
                   used : SUBSET Ports, found : SUBSET Suggestion]
  BY <1>1, ScanFields
<1>3. \A sg \in scan[s].found : sg.auth = "none" => sg.port \in shown
  BY <1>1 DEF IInv, FoundShown
<1>4. new \in Suggestion /\ (new.auth = "none" => new.port \in shown)
  BY <1>1 DEF Suggestion, RecommendedAuth, IInv, LoginsShown
<1> HIDE DEF new
<1>5. on \in Scan /\ on.found = scan[s].found \cup {new}
  BY <1>1, <1>2, <1>4, PortsFacts DEF Scan
<1>6. scan' = [scan EXCEPT ![s] = on]
  BY DEF Look, new
<1>7. UNCHANGED <<page, routes, register, owed, lastRescan, shown>> /\ panics' \in 0 .. MaxPanics
  BY DEF Look, history, IInv, TypeOK
<1> QED
  BY <1>3, <1>4, <1>5, <1>6, <1>7, ScanGoesOn

LEMMA EndScanKeeps ==
  ASSUME IInv, NEW s \in Scanners, EndScan(s)
  PROVE  IInv'
<1>1. scan[s] \in Scan /\ scan[s] # None
  BY DEF IInv, TypeOK, EndScan
<1>2. scan[s].found \in SUBSET Suggestion
  BY <1>1, ScanFields
<1>3. TypeOK'
  BY <1>2 DEF IInv, TypeOK, EndScan, Scan, history
<1>4. FoundShown' /\ SuggestionsAllowed'
  BY <1>1 DEF IInv, TypeOK, FoundShown, SuggestionsAllowed, EndScan, history
<1>5. LoginsShown' /\ RoutesAllowed'
  BY DEF IInv, LoginsShown, RoutesAllowed, Registered, EndScan, history
<1> QED
  BY <1>3, <1>4, <1>5 DEF IInv

LEMMA ScanPanicsKeeps ==
  ASSUME IInv, NEW s \in Scanners, ScanPanics(s)
  PROVE  IInv'
<1>1. panics' \in 0 .. MaxPanics
  BY CountsAssumption DEF ScanPanics, IInv, TypeOK
<1>2. None \in Scan /\ scan' = [scan EXCEPT ![s] = None]
  BY DEF ScanPanics, Scan
<1> QED
  BY <1>1, <1>2, ScanGoesOn DEF ScanPanics

LEMMA RestartKeeps ==
  ASSUME IInv, Restart
  PROVE  IInv'
<1>1. TypeOK'
  BY CountsAssumption DEF IInv, TypeOK, Restart, Registration, Scan, history
<1>2. FoundShown' /\ SuggestionsAllowed'
  BY DEF FoundShown, SuggestionsAllowed, Restart, None, history
<1>3. LoginsShown' /\ RoutesAllowed'
  BY DEF IInv, LoginsShown, RoutesAllowed, Registered, Restart, history
<1> QED
  BY <1>1, <1>2, <1>3 DEF IInv

LEMMA StutterKeeps ==
  ASSUME IInv, UNCHANGED vars
  PROVE  IInv'
  BY DEF IInv, vars, history, Registered, TypeOK, LoginsShown, FoundShown, RoutesAllowed, SuggestionsAllowed

LEMMA StepInvariant == IInv /\ [Next]_vars => IInv'
<1> SUFFICES ASSUME IInv, [Next]_vars PROVE IInv'
  OBVIOUS
<1>1. ASSUME NEW p \in Ports, NEW pg \in Pages \cup {Closed}, UpstreamChanges(p, pg)
      PROVE  IInv'
  BY <1>1, UpstreamChangesKeeps
<1>2. ASSUME NEW h \in Hosts, NEW p \in Ports, NEW prefixed \in BOOLEAN, NEW web \in BOOLEAN,
             NEW auth \in Policies \cup {"missing"}, AddAsked(h, p, prefixed, auth, web)
      PROVE  IInv'
  BY <1>2, AddAskedKeeps
<1>3. ASSUME NEW h \in Hosts, RemoveRoute(h)
      PROVE  IInv'
  BY <1>3, RemoveRouteKeeps
<1>4. ASSUME NEW c \in Clients, Registering(c)
      PROVE  IInv'
  BY <1>4, RegisterKeeps, RegisterInspectsKeeps, RegisterAddsKeeps DEF Registering
<1>5. ASSUME NEW s \in Scanners, AskScan(s) \/ OwedScan(s)
      PROVE  IInv'
  <2>1. owed \in 0 .. MaxOwed
    BY DEF IInv, TypeOK
  <2>2. owed' \in 0 .. MaxOwed
    BY <1>5, <2>1, CountsAssumption DEF AskScan, OwedScan
  <2> QED
    BY <1>5, <2>2, BeginScanKeeps DEF AskScan, OwedScan, history
<1>6. ASSUME NEW s \in Scanners, Dial(s) \/ Look(s) \/ EndScan(s) \/ ScanPanics(s)
      PROVE  IInv'
  BY <1>6, DialKeeps, LookKeeps, EndScanKeeps, ScanPanicsKeeps
<1>7. CASE Restart
  BY <1>7, RestartKeeps
<1>8. CASE UNCHANGED vars
  BY <1>8, StutterKeeps
<1> QED
  BY <1>1, <1>2, <1>3, <1>4, <1>5, <1>6, <1>7, <1>8 DEF Next, ScanStep

\* The inductive invariant behind the theorems below.
THEOREM Invariance == Spec => []IInv
<1> QED
  BY InitInvariant, StepInvariant, PTL DEF Spec

-----------------------------------------------------------------------------

\* Every reachable state of the registrations and scans is well typed.
THEOREM TypeCorrect == Spec => []TypeOK
<1>1. IInv => TypeOK
  BY DEF IInv
<1> QED
  BY <1>1, Invariance, PTL

\* What aigoproxy_register and the scan choose by themselves is open to
\* everybody only for a route with a path prefix or an upstream that has shown
\* a login (mcpserver/server.go 370-424, webui/server.go 768-805), however
\* registrations, scans and upstreams interleave.
THEOREM AutoOpensNothingUnshown == Spec => []AutoOpensOnlyIfShown
<1>1. IInv => AutoOpensOnlyIfShown
  BY DEF IInv, RoutesAllowed, SuggestionsAllowed, AutoOpensOnlyIfShown
<1> QED
  BY <1>1, Invariance, PTL
=============================================================================
