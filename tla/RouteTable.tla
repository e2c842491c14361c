------------------------------ MODULE RouteTable ------------------------------
(***************************************************************************)
(* What the route store promises to its callers, with the mirror, the      *)
(* audit trail, the tombstones and the steps of an operation left out: a   *)
(* durable table, the copy of it the daemon knows, and the keys in doubt,  *)
(* those with a write nobody answered.  A route that is not in doubt is    *)
(* registered and removed in both tables at once.                          *)
(***************************************************************************)
CONSTANTS Keys, Bodies, IsGhost(_)

VARIABLES
  durable,  \* the routes a restart would find
  known,    \* the routes the daemon serves
  running,
  doubt

vars == <<durable, known, running, doubt>>

Route == [host : Keys, body : Bodies]

Without(routes, k) == {r \in routes : r.host # k}
Registered(routes, k) == \E r \in routes : r.host = k

Init ==
  /\ durable \in SUBSET Route
  /\ \A r, s \in durable : r.host = s.host => r = s
  /\ known = {}
  /\ running = FALSE
  /\ doubt = {}

\* Only a host the daemon does not know is registered, under a usable route.
Register(r) ==
  /\ running
  /\ ~Registered(known, r.host)
  /\ ~IsGhost(r)
  /\ durable' = Without(durable, r.host) \cup {r}
  /\ known' = known \cup {r}
  /\ doubt' \in {doubt, doubt \ {r.host}}
  /\ UNCHANGED running

Unregister(k) ==
  /\ Registered(known, k)
  /\ durable' = Without(durable, k)
  /\ known' = Without(known, k)
  /\ doubt' \in {doubt, doubt \ {k}}
  /\ UNCHANGED running

\* Ghosts leave the known table at once ...
ForgetGhosts ==
  /\ known' = {r \in known : ~IsGhost(r)}
  /\ UNCHANGED <<durable, running, doubt>>

\* ... and the durable one by one, where only a ghost is dropped.
DropGhost(k) ==
  /\ running
  /\ ~Registered(known, k)
  /\ \A r \in durable : r.host = k => IsGhost(r) \/ k \in doubt
  /\ durable' = Without(durable, k)
  /\ doubt' \in {doubt, doubt \ {k}}
  /\ UNCHANGED <<known, running>>

\* A write for k gets no answer: it has taken effect, or has not, or will.
Unanswered(k) ==
  /\ \/ durable' = durable
     \/ durable' = Without(durable, k)
     \/ /\ ~Registered(known, k)
        /\ \E r \in Route : r.host = k /\ durable' = Without(durable, k) \cup {r}
  /\ doubt' = doubt \cup {k}

Timeout(k) == running /\ Unanswered(k) /\ UNCHANGED <<known, running>>

\* A key in doubt may change under the daemon; no other key does.
Stray(k) ==
  /\ k \in doubt
  /\ durable' \in {Without(durable, k)}
                    \cup {Without(durable, k) \cup {r} : r \in {r \in Route : r.host = k}}
  /\ UNCHANGED <<known, running, doubt>>

\* The daemon learns the durable table, or nothing at all.
Load ==
  /\ running' = TRUE
  /\ \/ known' = durable /\ doubt' \in SUBSET doubt
     \/ known' = {} /\ doubt' = doubt
  /\ UNCHANGED durable

Stop ==
  /\ running
  /\ running' = FALSE
  /\ known' = {}
  /\ \/ UNCHANGED <<durable, doubt>>
     \/ \E k \in Keys : Unanswered(k)

Next ==
  \/ \E r \in Route : Register(r)
  \/ \E k \in Keys : Unregister(k) \/ DropGhost(k) \/ Timeout(k) \/ Stray(k)
  \/ ForgetGhosts
  \/ Load
  \/ Stop

Spec == Init /\ [][Next]_vars
=============================================================================
