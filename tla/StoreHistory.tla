------------------------------ MODULE StoreHistory ------------------------------
(***************************************************************************)
(* The store's operations beside those of module RouteStore: updating a    *)
(* route, taking it offline and back (SetRouteEnabled), and going back to  *)
(* a backup of config.yaml; the backups each write of the mirror leaves;   *)
(* and the access log (internal/store/store.go).                           *)
(*                                                                         *)
(* An operation holds Store.mu and is one step here: what can happen       *)
(* between its calls is the subject of RouteStore.  Each call may still    *)
(* fail: Memogo may refuse a write, or apply it, at once or later, and not *)
(* say so; the mirror or its backup may not be written, an old backup not  *)
(* be removed.  An operation that the end of the process cuts short is one *)
(* whose remaining calls fail, followed by Restart.  UpdateRoute is called *)
(* with the host the route has.                                            *)
(***************************************************************************)
EXTENDS Naturals, Sequences, FiniteSets

CONSTANTS
  Hosts,
  Upstreams,
  MaxBackups,   \* const maxBackups
  LogCap,       \* how long the access log may grow ...
  LogCut,       \* ... and how much of it is then cut off
  MaxLate,      \* how many timed-out writes may be outstanding
  MaxSeconds,   \* how long time goes on: backups are named by the second
  MaxRequests   \* how many requests are logged

ASSUME BoundsAssumption ==
  /\ MaxBackups \in Nat \ {0}
  /\ LogCap \in Nat /\ LogCut \in 1 .. LogCap
  /\ MaxLate \in Nat
  /\ MaxSeconds \in Nat /\ MaxRequests \in Nat

VARIABLES
  rows,       \* Memogo's row of each host
  late,       \* timed-out writes that Memogo may still apply
  cfg,        \* Store.cfg's route of each host
  yaml,       \* config.yaml's
  second,     \* the time
  backups,    \* the backup files, by the second in their names
  accessLog,  \* the requests logged, by their number
  requests,   \* Stats.TotalRequests
  doubt,      \* history: the hosts memory and Memogo may disagree about
  flipped,    \* history: the hosts whose flag a roll-back may have turned
  written     \* history: what was last backed up in each second

memogo == <<rows, late>>
disk == <<yaml, second, backups, written>>
logged == <<accessLog, requests>>
vars == <<memogo, cfg, doubt, flipped, disk, logged>>

Route == [upstream : Upstreams, enabled : BOOLEAN]
NoRoute == [upstream |-> "none"]
Routes == [Hosts -> Route \cup {NoRoute}]
Seconds == 0 .. MaxSeconds

Late == [host : Hosts, row : Route \cup {NoRoute}]

NoRoutes == [h \in Hosts |-> NoRoute]

\* What os.WriteFile leaves when it fails half-way: a file without routes.
Torn == [h \in Hosts |-> [upstream |-> "torn"]]
Files == Routes \cup {Torn}

Enabled(r, e) == [r EXCEPT !.enabled = e]

\* config.Load, which enables every route it reads.
Parsed(file) ==
  [h \in Hosts |-> IF file = Torn \/ file[h] = NoRoute THEN NoRoute
                                                      ELSE Enabled(file[h], TRUE)]

Init ==
  /\ rows \in Routes
  /\ late = {}
  /\ cfg = rows
  /\ yaml = NoRoutes
  /\ second = 0
  /\ backups = <<>>
  /\ accessLog = <<>>
  /\ requests = 0
  /\ doubt = {}
  /\ flipped = {}
  /\ written = <<>>

Tick ==
  /\ second < MaxSeconds
  /\ second' = second + 1
  /\ UNCHANGED <<memogo, cfg, doubt, flipped, yaml, backups, written, logged>>

-----------------------------------------------------------------------------
(* The mirror and its backups. *)

\* f with another value at x, which need not be in its domain.
With(f, x, v) == [y \in DOMAIN f \cup {x} |-> IF y = x THEN v ELSE f[y]]

Only(f, S) == [y \in DOMAIN f \cap S |-> f[y]]

\* Faulty: the names are sorted the other way round.
FaultySurplusNewest(files) ==
  {s \in DOMAIN files : Cardinality({t \in DOMAIN files : t < s}) >= MaxBackups}

\* What rotateBackupLocked removes: all but the newest maxBackups names.
Surplus(files) ==
  {s \in DOMAIN files : Cardinality({t \in DOMAIN files : t > s}) >= MaxBackups}

\* writeYAMLLocked, with the routes in memory; the callers drop its error.  A
\* backup of the same second is overwritten, and one that fails ends the
\* rotation before it has removed anything.  Any removal may fail, or be cut off
\* by the end of the process: nobody looks.
WriteYAML(routes) ==
  \/ yaml' \in {yaml, Torn} /\ UNCHANGED <<backups, written>>
  \/ /\ yaml' = routes
     /\ \/ UNCHANGED <<backups, written>>
        \/ /\ backups' = With(backups, second, Torn)
           /\ written' = With(written, second, Torn)
        \/ /\ LET all == With(backups, second, routes)
              IN  \E gone \in SUBSET Surplus(all) :
                    backups' = Only(all, DOMAIN all \ gone)
           /\ written' = With(written, second, routes)

-----------------------------------------------------------------------------
(* Editing. *)

\* V2Store was refused.
Refused == UNCHANGED <<memogo, doubt>>

\* V2Store was not answered: it is applied, or it may be later.
Unheard(h, r) ==
  /\ doubt' = doubt \cup {h}
  /\ \/ rows' = [rows EXCEPT ![h] = r] /\ UNCHANGED late
     \/ /\ Cardinality(late) < MaxLate
        /\ late' = late \cup {[host |-> h, row |-> r]}
        /\ UNCHANGED rows

Outstanding == {w.host : w \in late}

\* V2Store succeeds, the table and the mirror follow.
Stored(h, r) ==
  /\ rows' = [rows EXCEPT ![h] = r]
  /\ cfg' = [cfg EXCEPT ![h] = r]
  /\ doubt' = doubt \ ({h} \ Outstanding)
  /\ flipped' = flipped \ {h}
  /\ WriteYAML(cfg')
  /\ UNCHANGED late

\* AddRoute, RemoveRoute and UpdateRoute, as far as they are alike: an error
\* leaves the table as it was.
Write(h, r) ==
  /\ \/ Stored(h, r)
     \/ /\ Refused \/ Unheard(h, r)
        /\ UNCHANGED <<cfg, flipped, yaml, backups, written>>
  /\ UNCHANGED <<second, logged>>

AddRoute(h, u) ==
  /\ cfg[h] = NoRoute
  /\ Write(h, [upstream |-> u, enabled |-> TRUE])

RemoveRoute(h) ==
  /\ cfg[h] # NoRoute
  /\ Write(h, NoRoute)

\* The flag is kept, whatever the new route says.
UpdateRoute(h, u) ==
  /\ cfg[h] # NoRoute
  /\ Write(h, [upstream |-> u, enabled |-> cfg[h].enabled])

\* What a failed SetRouteEnabled leaves of Memogo and of the histories, if it
\* was to store r: a refused one that asked for the flag's own value flips it.
NotStored(h, r) ==
  \/ Refused /\ flipped' = IF cfg[h] = r THEN flipped \cup {h} ELSE flipped
  \/ Unheard(h, r) /\ UNCHANGED flipped

\* Faulty: the roll-back disables the route that Memogo was asked to store.
FaultySetRouteEnabledNoRollback(h, e) ==
  /\ cfg[h] # NoRoute
  /\ LET r == Enabled(cfg[h], e)
     IN  \/ Stored(h, r)
         \/ /\ NotStored(h, r)
            /\ cfg' = [cfg EXCEPT ![h] = r]
            /\ UNCHANGED <<yaml, backups, written>>
  /\ UNCHANGED <<second, logged>>

\* The flag is set before V2Store, and after an error set to the opposite: not
\* always what it was.
SetRouteEnabled(h, e) ==
  /\ cfg[h] # NoRoute
  /\ LET r == Enabled(cfg[h], e)
     IN  \/ Stored(h, r)
         \/ /\ NotStored(h, r)
            /\ cfg' = [cfg EXCEPT ![h] = Enabled(r, ~e)]
            /\ UNCHANGED <<yaml, backups, written>>
  /\ UNCHANGED <<second, logged>>

\* A listing of Memogo's rows, or an empty table without one.
Loaded ==
  /\ \/ cfg' = rows /\ doubt' = Outstanding
     \/ cfg' = NoRoutes /\ doubt' = Hosts
  /\ flipped' = {}
  /\ UNCHANGED <<memogo, disk>>

LoadConfig == Loaded /\ UNCHANGED logged

\* The process ends and starts again.
Restart == Loaded /\ accessLog' = <<>> /\ requests' = 0

\* Faulty: the file is taken for the routes without reading it as YAML.
FaultyRestoreUnparsed(offset) ==
  /\ \E s \in DOMAIN backups :
       /\ Cardinality({t \in DOMAIN backups : t > s}) = offset
       /\ yaml' = backups[s]
       /\ cfg' = backups[s]
  /\ doubt' = Hosts
  /\ flipped' = {}
  /\ UNCHANGED <<memogo, second, backups, written, logged>>

\* RestoreFromBackup counts from the newest file.  The mirror and the table go
\* back to it; Memogo, which the next LoadConfig reads, does not.  When the
\* mirror cannot be written, or what is written cannot be read, the table stays.
RestoreFromBackup(offset) ==
  /\ \E s \in DOMAIN backups :
       /\ Cardinality({t \in DOMAIN backups : t > s}) = offset
       /\ \/ /\ yaml' = backups[s]
             /\ cfg' = Parsed(backups[s])
             /\ doubt' = Hosts
             /\ flipped' = {}
          \/ yaml' = Torn /\ UNCHANGED <<cfg, doubt, flipped>>
  /\ UNCHANGED <<memogo, second, backups, written, logged>>

LateWriteLands(w) ==
  /\ w \in late
  /\ rows' = [rows EXCEPT ![w.host] = w.row]
  /\ late' = late \ {w}
  /\ UNCHANGED <<cfg, doubt, flipped, disk, logged>>

LateWriteLost(w) ==
  /\ w \in late
  /\ late' = late \ {w}
  /\ UNCHANGED <<rows, cfg, doubt, flipped, disk, logged>>

-----------------------------------------------------------------------------
(* The access log. *)

\* Faulty: what is cut off is the newest.
FaultyTrimmedNewest(log) ==
  IF Len(log) > LogCap THEN SubSeq(log, 1, Len(log) - LogCut) ELSE log

Trimmed(log) ==
  IF Len(log) > LogCap THEN SubSeq(log, LogCut + 1, Len(log)) ELSE log

LogAccess ==
  /\ requests < MaxRequests
  /\ requests' = requests + 1
  /\ accessLog' = Trimmed(Append(accessLog, requests'))
  /\ UNCHANGED <<memogo, cfg, doubt, flipped, disk>>

\* AccessLog: the newest n entries, the newest last; all of them for n = 0.
AccessLog(n) ==
  LET k == IF n = 0 \/ n > Len(accessLog) THEN Len(accessLog) ELSE n
  IN  SubSeq(accessLog, Len(accessLog) - k + 1, Len(accessLog))

-----------------------------------------------------------------------------

Next ==
  \/ Tick
  \/ \E h \in Hosts, u \in Upstreams : AddRoute(h, u) \/ UpdateRoute(h, u)
  \/ \E h \in Hosts : RemoveRoute(h)
  \/ \E h \in Hosts, e \in BOOLEAN : SetRouteEnabled(h, e)
  \/ LoadConfig
  \/ Restart
  \/ \E w \in late : LateWriteLands(w) \/ LateWriteLost(w)
  \/ \E offset \in 0 .. MaxSeconds : RestoreFromBackup(offset)
  \/ LogAccess

Spec == Init /\ [][Next]_vars

-----------------------------------------------------------------------------
(* Properties. *)

\* Every variable has its type; no backup is from the future.
TypeOK ==
  /\ rows \in Routes /\ cfg \in Routes /\ yaml \in Files
  /\ late \subseteq Late
  /\ second \in Seconds
  /\ DOMAIN backups \subseteq 0 .. second
  /\ \A s \in DOMAIN backups : backups[s] \in Files
  /\ requests \in 0 .. MaxRequests
  /\ accessLog \in Seq(1 .. requests)
  /\ doubt \subseteq Hosts /\ flipped \subseteq Hosts
  /\ DOMAIN written \subseteq 0 .. second

\* The table agrees with Memogo's rows on every host but those in doubt: one
\* with a write that was not answered, until it is written again with nothing
\* outstanding, and all after a RestoreFromBackup or a LoadConfig that could
\* not list Memogo.  The roll-back of a refused SetRouteEnabled may leave the
\* other flag (store.go:681), and nothing else: the host keeps its upstream,
\* and the next write that succeeds settles the flag as well.
MemoryFollowsMemogo ==
  \A h \in Hosts \ doubt : /\ cfg[h].upstream = rows[h].upstream
                           /\ h \notin flipped => cfg[h] = rows[h]

\* Each backup holds what was last written in its second, and one is gone only
\* when maxBackups newer ones are there, however many removals failed or were
\* cut off: RestoreFromBackup reaches the newest maxBackups states, each at the
\* offset its age gives it.
BackupsAreNewest ==
  /\ \A s \in DOMAIN backups : s \in DOMAIN written /\ backups[s] = written[s]
  /\ \A s \in DOMAIN written \ DOMAIN backups :
       Cardinality({t \in DOMAIN backups : t > s}) >= MaxBackups

\* Whatever has been cut off, AccessLog returns the newest requests in order,
\* as many as it is asked for unless the log has just been cut.
LogIsNewest ==
  /\ Len(accessLog) <= LogCap
  /\ requests <= Len(accessLog) \/ Len(accessLog) > LogCap - LogCut
  /\ \A n \in 1 .. Len(accessLog) : \A i \in 1 .. n : AccessLog(n)[i] = requests - n + i
=============================================================================
