------------------------- MODULE PortAllocator_proofs -------------------------
(***************************************************************************)
(* Theorems about PortAllocator, for every number of ports, owners and     *)
(* concurrent calls.  A secure reservation is not an invariant but it is   *)
(* stable: a call that would write over it has not read its row yet, and   *)
(* when it does it finds an owner, which stops a claim, and another one    *)
(* than its own, which stops a release.                                    *)
(***************************************************************************)
EXTENDS PortAllocator, TLAPS

USE NobodyAssumption, DeletesAssumption

\* A step of call c, as Next has it.
StepOf(c) ==
  \/ \E v \in {"claim", "release"}, p \in Ports, o \in Owners : Begin(c, v, p, o)
  \/ ClaimGet(c) \/ ClaimStored(c) \/ ReleaseGet(c) \/ ReleaseDeleted(c)
  \/ Refused(c) \/ TimedOut(c) \/ LostWriteLands(c) \/ LostWriteVanishes(c)

\* A call that is somewhere is a call, not None.
LEMMA InProgress ==
  ASSUME TypeOK, NEW c \in Calls, call[c].at \in Steps
  PROVE  /\ call[c] \in Call
         /\ call[c].port \in Ports /\ call[c].owner \in Owners
BY DEF TypeOK, Steps, None, Call

\* A call that ends or moves on is again None or a call.
LEMMA Moves ==
  ASSUME TypeOK, NEW c \in Calls
  PROVE  /\ Finish(c) => call' \in [Calls -> Call \cup {None}]
         /\ \A s \in Steps : call[c].at \in Steps /\ Proceed(c, s)
                               => call' \in [Calls -> Call \cup {None}]
<1>1. Finish(c) => call' \in [Calls -> Call \cup {None}]
  BY DEF TypeOK, Finish
<1>2. ASSUME NEW s \in Steps, call[c].at \in Steps, Proceed(c, s)
      PROVE  call' \in [Calls -> Call \cup {None}]
  <2>1. call[c] \in Call
    BY <1>2, InProgress
  <2>2. [call[c] EXCEPT !.at = s] \in Call
    BY <2>1 DEF Call
  <2>3. call' = [call EXCEPT ![c] = [call[c] EXCEPT !.at = s]]
    BY <1>2 DEF Proceed
  <2> QED BY <2>2, <2>3 DEF TypeOK
<1> QED BY <1>1, <1>2

\* Every step keeps the types.
LEMMA StepTypeOK ==
  ASSUME TypeOK, NEW c \in Calls, StepOf(c)
  PROVE  TypeOK'
<1>1. ASSUME NEW v \in {"claim", "release"}, NEW p \in Ports, NEW o \in Owners, Begin(c, v, p, o)
      PROVE  TypeOK'
  BY <1>1 DEF TypeOK, Begin, Call, Steps
<1>2. CASE ClaimGet(c)
  <2>1. call[c].owner \in Owners /\ call[c].port \in Ports /\ call[c].at \in Steps
    BY <1>2, InProgress DEF ClaimGet, Steps
  <2>2. call' \in [Calls -> Call \cup {None}]
    BY <1>2, <2>1, Moves DEF ClaimGet, Steps
  <2>3. told' \in [Ports -> SUBSET Owners]
    BY <1>2, <2>1 DEF ClaimGet, TypeOK, Tell, Untell
  <2> QED BY <1>2, <2>2, <2>3 DEF ClaimGet, TypeOK
<1>3. CASE ClaimStored(c)
  <2>1. call[c].owner \in Owners /\ call[c].port \in Ports
    BY <1>3, InProgress DEF ClaimStored, Steps
  <2>2. call' \in [Calls -> Call \cup {None}]
    BY <1>3, Moves DEF ClaimStored
  <2> QED BY <1>3, <2>1, <2>2 DEF ClaimStored, TypeOK, Tell
<1>4. CASE ReleaseGet(c)
  <2>1. call' \in [Calls -> Call \cup {None}]
    BY <1>4, Moves DEF ReleaseGet, Steps
  <2> QED BY <1>4, <2>1 DEF ReleaseGet, TypeOK
<1>5. CASE ReleaseDeleted(c)
  <2>1. call[c].owner \in Owners /\ call[c].port \in Ports
    BY <1>5, InProgress DEF ReleaseDeleted, Steps
  <2>2. call' \in [Calls -> Call \cup {None}]
    BY <1>5, Moves DEF ReleaseDeleted
  <2> QED BY <1>5, <2>1, <2>2 DEF ReleaseDeleted, TypeOK, AfterDelete, Untell
<1>6. CASE Refused(c) \/ LostWriteVanishes(c)
  BY <1>6, Moves DEF Refused, LostWriteVanishes, TypeOK
<1>7. CASE TimedOut(c)
  <2>1. call' \in [Calls -> Call \cup {None}]
    BY <1>7, Moves DEF TimedOut, Steps
  <2> QED BY <1>7, <2>1 DEF TimedOut, TypeOK
<1>8. CASE LostWriteLands(c)
  <2>1. call[c].owner \in Owners /\ call[c].port \in Ports
    BY <1>8, InProgress DEF LostWriteLands, Steps
  <2>2. call' \in [Calls -> Call \cup {None}]
    BY <1>8, Moves DEF LostWriteLands
  <2> QED BY <1>8, <2>1, <2>2 DEF LostWriteLands, TypeOK, AfterDelete
<1> QED BY <1>1, <1>2, <1>3, <1>4, <1>5, <1>6, <1>7, <1>8 DEF StepOf

\* Every reachable state of the allocator is well typed.
THEOREM TypeCorrect == Spec => []TypeOK
<1>1. Init => TypeOK
  BY DEF Init, TypeOK
<1>2. TypeOK /\ [Next]_vars => TypeOK'
  <2> SUFFICES ASSUME TypeOK, [Next]_vars PROVE TypeOK' OBVIOUS
  <2>1. CASE UNCHANGED vars
    BY <2>1 DEF vars, TypeOK
  <2>2. CASE Next
    <3>1. PICK c \in Calls : StepOf(c)
      BY <2>2 DEF Next, StepOf
    <3> QED BY <3>1, StepTypeOK
  <2> QED BY <2>1, <2>2
<1> QED BY <1>1, <1>2, PTL DEF Spec

-----------------------------------------------------------------------------
(* Secure reservations. *)

\* A call other than c is no nearer to writing after a step of c.
LEMMA OthersUntouched ==
  ASSUME TypeOK, NEW c \in Calls, StepOf(c), NEW d \in Calls, d # c
  PROVE  call'[d] = call[d]
BY DEF StepOf, TypeOK, Begin, ClaimGet, ClaimStored, ReleaseGet, ReleaseDeleted, Refused,
       TimedOut, LostWriteLands, LostWriteVanishes, Finish, Proceed

\* Call c itself threatens p after its step only if it threatened it before,
\* or has just read p's row: a claim that found it free, a release its own.
LEMMA WhoThreatens ==
  ASSUME TypeOK, NEW c \in Calls, StepOf(c), NEW p \in Ports, Threatens(c, p)'
  PROVE  \/ Threatens(c, p)
         \/ call[c].at = "get" /\ call[c].verb = "claim" /\ row[p] = Nobody
         \/ call[c].at = "get" /\ call[c].verb = "release" /\ row[p] = call[c].owner
<1>1. ~Finish(c)
  BY DEF Finish, Threatens, TypeOK, None
<1>2. ~\E v \in {"claim", "release"}, q \in Ports, o \in Owners : Begin(c, v, q, o)
  BY DEF Begin, Threatens, TypeOK
<1>3. CASE ClaimGet(c)
  <2>1. Proceed(c, "store") /\ row[call[c].port] = Nobody
    BY <1>1, <1>3 DEF ClaimGet
  <2>2. call'[c].port = call[c].port
    BY <2>1 DEF Proceed, TypeOK
  <2> QED BY <1>3, <2>1, <2>2 DEF ClaimGet, Threatens
<1>4. CASE ReleaseGet(c)
  <2>1. Proceed(c, "delete") /\ row[call[c].port] = call[c].owner
    BY <1>1, <1>4 DEF ReleaseGet
  <2>2. call'[c].port = call[c].port
    BY <2>1 DEF Proceed, TypeOK
  <2> QED BY <1>4, <2>1, <2>2 DEF ReleaseGet, Threatens
<1>5. CASE TimedOut(c)
  <2>1. call'[c].port = call[c].port
    BY <1>5 DEF TimedOut, Proceed, TypeOK
  <2> QED BY <1>5, <2>1 DEF TimedOut, Threatens
<1> QED BY <1>1, <1>2, <1>3, <1>4, <1>5
        DEF StepOf, ClaimStored, ReleaseDeleted, Refused, LostWriteLands, LostWriteVanishes

\* The row of a port that c does not threaten survives a step of c.
LEMMA RowSurvives ==
  ASSUME TypeOK, NEW c \in Calls, StepOf(c), NEW p \in Ports, ~Threatens(c, p)
  PROVE  row'[p] = row[p]
<1>1. CASE ClaimStored(c) \/ ReleaseDeleted(c) \/ LostWriteLands(c)
  <2>1. call[c].port # p
    BY <1>1 DEF Threatens, ClaimStored, ReleaseDeleted, LostWriteLands
  <2> QED BY <1>1, <2>1 DEF TypeOK, ClaimStored, ReleaseDeleted, LostWriteLands, AfterDelete
<1> QED BY <1>1 DEF StepOf, Begin, ClaimGet, ReleaseGet, Refused, TimedOut, LostWriteVanishes

\* What SecureReservationsStay says of one step.
LEMMA SecureStep ==
  ASSUME TypeOK, NEW c \in Calls, StepOf(c), NEW p \in Ports, NEW o \in Owners, Secure(p, o)
  PROVE  \/ Secure(p, o)'
         \/ \E d \in Calls : /\ call[d].at = "get" /\ call[d].verb = "release"
                             /\ call[d].owner = o /\ Threatens(d, p)'
<1>1. row[p] = o /\ o # Nobody /\ ~Threatens(c, p)
  BY DEF Secure
<1>2. row'[p] = o
  BY <1>1, RowSurvives
<1>3. \A d \in Calls : d # c => ~Threatens(d, p)'
  BY OthersUntouched DEF Secure, Threatens
<1>4. CASE ~Threatens(c, p)'
  BY <1>2, <1>3, <1>4 DEF Secure
<1>5. CASE Threatens(c, p)'
  <2>1. call[c].at = "get" /\ call[c].verb = "release" /\ call[c].owner = o
    BY <1>1, <1>5, WhoThreatens
  <2> QED BY <1>5, <2>1
<1> QED BY <1>4, <1>5

\* A port whose owner is recorded and whose row no call is about to write stays
\* with that owner until the owner itself asks for its release, however many
\* claims and releases overlap (ports.go:84-126).
THEOREM SecureReservationsAreStable == Spec => SecureReservationsStay
<1>1. ASSUME TypeOK, [Next]_vars
      PROVE  [\A p \in Ports, o \in Owners :
                Secure(p, o) =>
                  \/ Secure(p, o)'
                  \/ \E c \in Calls : /\ call[c].at = "get" /\ call[c].verb = "release"
                                      /\ call[c].owner = o /\ Threatens(c, p)']_vars
  <2>1. CASE UNCHANGED vars
    BY <2>1
  <2>2. CASE Next
    <3>1. PICK c \in Calls : StepOf(c)
      BY <2>2 DEF Next, StepOf
    <3> QED BY <1>1, <3>1, SecureStep
  <2> QED BY <1>1, <2>1, <2>2
<1> QED BY <1>1, TypeCorrect, PTL DEF Spec, SecureReservationsStay
=============================================================================
