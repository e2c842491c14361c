------------------------------- MODULE CertWatch -------------------------------
(***************************************************************************)
(* The optional HTTPS listener and its Tailscale certificate (main.go,     *)
(* tailscale.go and watcher.go of cmd/aigoproxy).  Start-up makes sure     *)
(* there is a certificate, makes a server and starts two goroutines: one   *)
(* serves, the other polls the certificate file's mtime every minute and,  *)
(* when it has changed, replaces the server, with a serving goroutine of   *)
(* its own.  All find the server through the variable httpsSrv, whatever   *)
(* it holds by then.  ListenAndServeTLS binds the port, reads the two      *)
(* files and enters the listener in the server's table, in this order, and *)
(* Shutdown, which closes what is in the table, may come at any point.     *)
(*                                                                         *)
(* The two files belong to the `tailscale' command, which the daemon runs  *)
(* and which others run too.  It writes the certificate, then the key: in  *)
(* between, and for good if it dies there, the files do not match.  A file *)
(* is represented by the number of the issue it belongs to, which stands   *)
(* for its mtime as well.  Ports are not contended for by other programs.  *)
(***************************************************************************)
EXTENDS Naturals

CONSTANT MaxIssue   \* how many certificates are issued

ASSUME MaxIssueAssumption == MaxIssue \in Nat

VARIABLES
  crt,       \* the issue of the certificate file, 0 when it is missing
  key,       \* that of the key file
  aged,      \* whether the certificate file is older than 60 days
  issued,    \* the issues there have been
  rotating,  \* whether another process is between the two writes
  main,      \* where start-up is
  watch,     \* where watchCert, or the callback it makes, is
  lastMod,   \* watchCert's lastMod
  server,    \* httpsSrv: the number of the server it holds, 0 for none
  shut,      \* the servers Shutdown has been called for
  run        \* the serving goroutine started with each server

files == <<crt, key, aged, issued, rotating>>
https == <<server, shut, run>>
vars == <<files, main, watch, lastMod, https>>

Issues == 0 .. MaxIssue
Places == {"ready", "listen", "bound", "crtRead", "loaded", "serving", "ended"}

\* A goroutine: where it is, the server it runs and the issue it has read.
Ready == [at |-> "ready", id |-> 0, pair |-> 0]
Ended == [at |-> "ended", id |-> 0, pair |-> 0]
NoRuns == [g \in 1 .. 0 |-> Ready]

HoldsPort(g) == run[g].at \in {"bound", "crtRead", "loaded", "serving"}

NeedsRefresh == crt = 0 \/ aged

Init ==
  /\ crt \in Issues /\ key \in 0 .. crt
  /\ issued = crt
  /\ aged \in {FALSE, crt # 0}
  /\ rotating = FALSE
  /\ main = "down"
  /\ watch = "none"
  /\ lastMod = 0
  /\ server = 0
  /\ shut = {}
  /\ run = NoRuns

-----------------------------------------------------------------------------
(* The certificate on disk. *)

\* `tailscale cert' has something new and writes the certificate.
IssueCrt ==
  /\ issued < MaxIssue
  /\ issued' = issued + 1
  /\ crt' = issued'
  /\ aged' = FALSE

\* Another process renews: one write, and then the other ...
RotateCrt ==
  /\ ~rotating
  /\ IssueCrt
  /\ rotating' = TRUE
  /\ UNCHANGED <<key, main, watch, lastMod, https>>

RotateKey ==
  /\ rotating
  /\ key' = issued
  /\ rotating' = FALSE
  /\ UNCHANGED <<crt, aged, issued, main, watch, lastMod, https>>

\* ... or not.
RotationDies ==
  /\ rotating
  /\ rotating' = FALSE
  /\ UNCHANGED <<crt, key, aged, issued, main, watch, lastMod, https>>

RemoveFiles ==
  /\ ~rotating
  /\ crt # 0
  /\ crt' = 0 /\ key' = 0 /\ aged' = FALSE
  /\ UNCHANGED <<issued, rotating, main, watch, lastMod, https>>

\* Sixty days have passed since the file was written: a watcher that polls
\* every minute has seen it by then.
Age ==
  /\ crt # 0 /\ ~rotating
  /\ \/ watch \in {"none", "start"}
     \/ watch = "waiting" /\ lastMod = crt
  /\ aged' = TRUE
  /\ UNCHANGED <<crt, key, issued, rotating, main, watch, lastMod, https>>

\* ensureTailscaleCert returns the paths: the file will do, or the command has
\* renewed it, or has found that it need not be.
CertProvided ==
  \/ crt # 0 /\ UNCHANGED files
  \/ NeedsRefresh /\ ~rotating /\ IssueCrt /\ key' = issued' /\ UNCHANGED rotating

\* ensureTailscaleCert fails: no command, no answer, or it is stopped after a
\* minute, possibly between the two writes.
CertRefused ==
  /\ NeedsRefresh
  /\ \/ UNCHANGED files
     \/ ~rotating /\ IssueCrt /\ UNCHANGED <<key, rotating>>

-----------------------------------------------------------------------------
(* Start-up. *)

\* tailscaleStatus names the node, or the listener is disabled.
Start ==
  /\ main = "down"
  /\ main' \in {"ensure", "off"}
  /\ UNCHANGED <<files, watch, lastMod, https>>

\* Faulty: the file is watched although HTTPS is disabled.
FaultyEnsureAtStartWatches ==
  /\ main = "ensure"
  /\ \/ CertProvided /\ main' = "make" /\ UNCHANGED watch
     \/ CertRefused /\ main' = "off" /\ watch' = "start"
  /\ UNCHANGED <<lastMod, https>>

EnsureAtStart ==
  /\ main = "ensure"
  /\ \/ CertProvided /\ main' = "make"
     \/ CertRefused /\ main' = "off"
  /\ UNCHANGED <<watch, lastMod, https>>

\* newHTTPSServer, the assignment to httpsSrv and the go statement.  What the
\* server loads from the files by now, ListenAndServeTLS loads again.
NewServer ==
  /\ server' = server + 1
  /\ run' = [g \in 1 .. server' |-> IF g = server' THEN Ready ELSE run[g]]
  /\ UNCHANGED shut

MakeAtStart ==
  /\ main = "make"
  /\ NewServer
  /\ main' = "up"
  /\ watch' = "start"
  /\ UNCHANGED <<files, lastMod>>

\* The process ends, on a signal or in a crash; httpsSrv just disappears.
Terminate ==
  /\ main # "down"
  /\ main' = "down"
  /\ watch' = "none"
  /\ lastMod' = 0
  /\ server' = 0
  /\ shut' = {}
  /\ run' = NoRuns
  /\ UNCHANGED files

-----------------------------------------------------------------------------
(* The goroutines that serve: ListenAndServeTLS. *)

Goes(g, r) ==
  /\ run' = [run EXCEPT ![g] = r]
  /\ UNCHANGED <<files, main, watch, lastMod, server, shut>>

\* The server is the one httpsSrv holds at that moment; one that has been shut
\* down returns at once.
LookUp(g) ==
  /\ run[g].at = "ready"
  /\ Goes(g, IF server \in shut THEN Ended ELSE [at |-> "listen", id |-> server, pair |-> 0])

\* net.Listen: a port in use is an error.
Bind(g) ==
  /\ run[g].at = "listen"
  /\ Goes(g, IF \E o \in DOMAIN run : HoldsPort(o) THEN Ended ELSE [run[g] EXCEPT !.at = "bound"])

\* tls.LoadX509KeyPair reads one file after the other; a pair that does not
\* match, or a missing file, is an error, and the port is closed.
LoadCrt(g) ==
  /\ run[g].at = "bound"
  /\ Goes(g, IF crt = 0 THEN Ended ELSE [run[g] EXCEPT !.at = "crtRead", !.pair = crt])

LoadKey(g) ==
  /\ run[g].at = "crtRead"
  /\ Goes(g, IF key = run[g].pair THEN [run[g] EXCEPT !.at = "loaded"] ELSE Ended)

\* Connections are accepted from here on, unless Shutdown came first: it could
\* not close a listener that was not in the table.
TrackListener(g) ==
  /\ run[g].at = "loaded"
  /\ Goes(g, IF run[g].id \in shut THEN Ended ELSE [run[g] EXCEPT !.at = "serving"])

Serve(g) == LookUp(g) \/ Bind(g) \/ LoadCrt(g) \/ LoadKey(g) \/ TrackListener(g)

-----------------------------------------------------------------------------
(* watchCert and its callback. *)

WatchStarts ==
  /\ watch = "start"
  /\ lastMod' = crt
  /\ watch' = "waiting"
  /\ UNCHANGED <<files, main, https>>

\* Faulty: only a watcher that had seen a file before reacts to a new one.
FaultyPollNeedsOld ==
  /\ watch = "waiting"
  /\ crt # 0 /\ lastMod # 0 /\ crt # lastMod
  /\ lastMod' = crt
  /\ watch' = "ensure"
  /\ UNCHANGED <<files, main, https>>

\* A tick that finds another mtime.  It is noted before the callback runs,
\* whatever comes of that.
Poll ==
  /\ watch = "waiting"
  /\ crt # 0 /\ crt # lastMod
  /\ lastMod' = crt
  /\ watch' = "ensure"
  /\ UNCHANGED <<files, main, https>>

EnsureAgain ==
  /\ watch = "ensure"
  /\ \/ CertProvided /\ watch' = "shutdown"
     \/ CertRefused /\ watch' = "waiting"
  /\ UNCHANGED <<main, lastMod, https>>

\* Faulty: the old server is left to itself.
FaultyShutdownForgotten ==
  /\ watch = "shutdown"
  /\ watch' = "make"
  /\ UNCHANGED <<files, main, lastMod, https>>

\* httpsSrv.Shutdown closes the listener, if the server has one in its table,
\* then waits for connections.
Shutdown ==
  /\ watch = "shutdown"
  /\ shut' = shut \cup {server}
  /\ run' = [g \in DOMAIN run |-> IF run[g].at = "serving" /\ run[g].id = server
                                   THEN Ended ELSE run[g]]
  /\ watch' = "make"
  /\ UNCHANGED <<files, main, lastMod, server>>

MakeAgain ==
  /\ watch = "make"
  /\ NewServer
  /\ watch' = "waiting"
  /\ UNCHANGED <<files, main, lastMod>>

-----------------------------------------------------------------------------

Disk == RotateCrt \/ RotateKey \/ RotationDies \/ RemoveFiles \/ Age

StartUp == Start \/ EnsureAtStart \/ MakeAtStart

Watcher == WatchStarts \/ Poll \/ EnsureAgain \/ Shutdown \/ MakeAgain

Next ==
  \/ Disk \/ StartUp \/ Terminate \/ Watcher
  \/ \E g \in DOMAIN run : Serve(g)

Spec == Init /\ [][Next]_vars

\* The ticker ticks and every call of the callback has a limit (a minute for
\* the command, five seconds for Shutdown); goroutines are scheduled.
FairSpec == Spec /\ WF_vars(Watcher) /\ WF_vars(\E g \in DOMAIN run : Serve(g))

-----------------------------------------------------------------------------
(* Properties. *)

\* Every variable has its type; nothing is watched, started or served without
\* an HTTPS server.
TypeOK ==
  /\ crt \in Issues /\ key \in Issues /\ issued \in Issues
  /\ aged \in BOOLEAN /\ rotating \in BOOLEAN
  /\ main \in {"down", "off", "ensure", "make", "up"}
  /\ watch \in {"none", "start", "waiting", "ensure", "shutdown", "make"}
  /\ lastMod \in Issues
  /\ server \in Nat /\ shut \subseteq 1 .. server
  /\ run \in [1 .. server -> [at : Places, id : 0 .. server, pair : Issues]]
  /\ IF main = "up" THEN server # 0 ELSE watch = "none" /\ server = 0

\* Connections are accepted by no server but the one httpsSrv names, and not
\* after its Shutdown (main.go:277-280): none that the callback of watchCert has
\* replaced goes on answering with the certificate it read, although Shutdown
\* may come while the server is still on its way, and the goroutines look
\* httpsSrv up whenever they get to run.  Holding the port is another matter: a
\* server shut down before its listener was in the table holds it for a while.
OnlyCurrentServes ==
  \A g \in DOMAIN run :
    run[g].at = "serving" => run[g].id = server /\ server \notin shut

\* What the restart after Shutdown (main.go:280) counts on: the port is free.
\* No run checks this; TLC refutes it with a Shutdown between Bind and
\* TrackListener, after which the new server may find the port in use and end,
\* and nothing serves until the certificate changes again.
PortIsFree == watch = "make" => \A g \in DOMAIN run : ~HoldsPort(g)

\* Every server made so far is serving, or has ended.
Settled == \A g \in DOMAIN run : run[g].at \in {"serving", "ended"}

\* A certificate whose two files are both written when the watcher next looks,
\* and no server is on its way, is served in the end, whatever happened to
\* earlier ones: also when HTTPS is down because a load met files that did not
\* match, and when the files had been removed.  lastMod is what the watcher has
\* seen (watcher.go:32).
RotationServed ==
  \A n \in Issues \ {0} :
    (watch = "waiting" /\ Settled /\ crt = n /\ key = n /\ ~aged /\ lastMod # n)
      ~> \/ \E g \in DOMAIN run : run[g].at = "serving" /\ run[g].pair = n
         \/ crt # n \/ key # n \/ main = "down"
=============================================================================
