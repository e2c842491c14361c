----------------------------- MODULE PortAllocator -----------------------------
(***************************************************************************)
(* The port allocator (internal/ports/ports.go).  It keeps nothing in      *)
(* memory: each call reads the row "port:<N>" from Memogo, decides, and    *)
(* writes or deletes the row.  Calls arrive over HTTP and MCP on as many   *)
(* goroutines as there are requests, and no lock is held between a call's  *)
(* reading and its writing.                                                *)
(***************************************************************************)
CONSTANTS
  Ports,
  Owners,
  Nobody,         \* the owner of a port that is not reserved
  Calls,          \* the requests that can be in progress at a time
  MemogoDeletes   \* whether Memogo's delete endpoint removes the row; the one
                  \* of Memogo v2 answers 404, which V2Delete reports as success

ASSUME NobodyAssumption == Nobody \notin Owners
ASSUME DeletesAssumption == MemogoDeletes \in BOOLEAN

VARIABLES
  row,    \* the owner in Memogo's row for each port
  call,   \* the requests in progress
  told    \* history: the owners who were told that a port is theirs

vars == <<row, call, told>>

\* "lost": the request has ended without an answer from Memogo, where its
\* write still is on its way.
Steps == {"get", "store", "delete", "lost"}
Call == [verb : {"claim", "release"}, port : Ports, owner : Owners, at : Steps]
None == [at |-> "none"]

Init ==
  /\ row = [p \in Ports |-> Nobody]
  /\ call = [c \in Calls |-> None]
  /\ told = [p \in Ports |-> {}]

Begin(c, v, p, o) ==
  /\ call[c] = None
  /\ call' = [call EXCEPT ![c] = [verb |-> v, port |-> p, owner |-> o, at |-> "get"]]
  /\ UNCHANGED <<row, told>>

Finish(c) == call' = [call EXCEPT ![c] = None]
Proceed(c, step) == call' = [call EXCEPT ![c].at = step]

Tell(p, o) == told' = [told EXCEPT ![p] = @ \cup {o}]
Untell(p, o) == told' = [told EXCEPT ![p] = @ \ {o}]

-----------------------------------------------------------------------------
(* Claim. *)

\* Faulty: a reservation of another owner is not looked at.
FaultyClaimGetIgnoresOwner(c) ==
  LET p == call[c].port  o == call[c].owner
  IN  /\ call[c].at = "get" /\ call[c].verb = "claim"
      /\ \/ row[p] # o /\ Proceed(c, "store") /\ UNCHANGED told
         \/ row[p] = o /\ Finish(c) /\ Tell(p, o)
      /\ UNCHANGED row

ClaimGet(c) ==
  LET p == call[c].port  o == call[c].owner
  IN  /\ call[c].at = "get" /\ call[c].verb = "claim"
      /\ \/ row[p] = Nobody /\ Proceed(c, "store") /\ UNCHANGED told
         \/ row[p] = o /\ Finish(c) /\ Tell(p, o)                     \* "owned"
         \/ row[p] \notin {o, Nobody} /\ Finish(c) /\ Untell(p, o)    \* "taken"
      /\ UNCHANGED row

ClaimStored(c) ==
  LET p == call[c].port  o == call[c].owner
  IN  /\ call[c].at = "store"
      /\ row' = [row EXCEPT ![p] = o]
      /\ Finish(c)
      /\ Tell(p, o)                                                   \* "ok"

-----------------------------------------------------------------------------
(* Release. *)

ReleaseGet(c) ==
  /\ call[c].at = "get" /\ call[c].verb = "release"
  /\ \/ row[call[c].port] = call[c].owner /\ Proceed(c, "delete")
     \/ row[call[c].port] # call[c].owner /\ Finish(c)                \* an error
  /\ UNCHANGED <<row, told>>

\* Faulty: a blank owner is left in the row.
FaultyAfterDeleteBlank(p) == [row EXCEPT ![p] = ""]

\* The row of a port after Memogo has answered a delete.
AfterDelete(p) == IF MemogoDeletes THEN [row EXCEPT ![p] = Nobody] ELSE row

ReleaseDeleted(c) ==
  /\ call[c].at = "delete"
  /\ row' = AfterDelete(call[c].port)
  /\ Finish(c)
  /\ Untell(call[c].port, call[c].owner)                              \* "released"

-----------------------------------------------------------------------------
(* Failures: the caller gets an error, whatever becomes of the write. *)

Refused(c) ==
  /\ call[c].at \in {"get", "store", "delete"}
  /\ Finish(c)
  /\ UNCHANGED <<row, told>>

\* The five seconds are over, or an HTTP client has gone away.
TimedOut(c) ==
  /\ call[c].at \in {"store", "delete"}
  /\ Proceed(c, "lost")
  /\ UNCHANGED <<row, told>>

LostWriteLands(c) ==
  /\ call[c].at = "lost"
  /\ row' = IF call[c].verb = "claim"
            THEN [row EXCEPT ![call[c].port] = call[c].owner]
            ELSE AfterDelete(call[c].port)
  /\ Finish(c)
  /\ UNCHANGED told

LostWriteVanishes(c) ==
  /\ call[c].at = "lost"
  /\ Finish(c)
  /\ UNCHANGED <<row, told>>

-----------------------------------------------------------------------------

Next ==
  \E c \in Calls :
    \/ \E v \in {"claim", "release"}, p \in Ports, o \in Owners : Begin(c, v, p, o)
    \/ ClaimGet(c)
    \/ ClaimStored(c)
    \/ ReleaseGet(c)
    \/ ReleaseDeleted(c)
    \/ Refused(c)
    \/ TimedOut(c)
    \/ LostWriteLands(c)
    \/ LostWriteVanishes(c)

Spec == Init /\ [][Next]_vars

\* Memogo's client gives every call five seconds.
FairSpec ==
  Spec /\ \A c \in Calls :
            WF_vars(ClaimGet(c) \/ ClaimStored(c) \/ ReleaseGet(c) \/ ReleaseDeleted(c)
                      \/ Refused(c) \/ TimedOut(c))

-----------------------------------------------------------------------------
(* Properties. *)

\* Every variable has its type.
TypeOK ==
  /\ row \in [Ports -> Owners \cup {Nobody}]
  /\ call \in [Calls -> Call \cup {None}]
  /\ told \in [Ports -> SUBSET Owners]

\* Call c has decided, on a row it read earlier, to write to port p.
Threatens(c, p) ==
  call[c].at \in {"store", "delete", "lost"} /\ call[c].port = p

\* Port p is o's, and no call is about to overwrite or delete its row.
Secure(p, o) == row[p] = o /\ \A c \in Calls : ~Threatens(c, p)

\* A secure reservation stays until its own owner asks to release it: the
\* races of the allocator are confined to ports that are being claimed for the
\* first time or released.
SecureReservationsStay ==
  [][\A p \in Ports, o \in Owners :
       Secure(p, o) =>
         \/ Secure(p, o)'
         \/ \E c \in Calls : /\ call[c].at = "get" /\ call[c].verb = "release"
                             /\ call[c].owner = o /\ Threatens(c, p)']_vars

\* ports.go:3: "The allocator enforces that no two aigoproxy-managed services
\* ... accidentally try to bind the same port": a port is never promised twice.
NoDoubleGrant == \A p \in Ports : \A o, q \in told[p] : o = q
=============================================================================
