------------------------------ MODULE Acme_proofs ------------------------------
(***************************************************************************)
(* Proofs about Acme: its types, that certificates and keys belong         *)
(* together where one goroutine at a time uses a host's files, that the    *)
(* response to an HTTP challenge is up when the CA asks for it, and that a *)
(* restart finds the certificate that was served, for any hosts,           *)
(* handshakes, serials and lifetimes.                                      *)
(***************************************************************************)
EXTENDS Acme, TLAPS

Using == Loading \cup Saving

\* Outside `mixed' a host's files are used by one goroutine at a time.
OneUser ==
  \A h \in Hosts \ mixed : \A f, g \in Goroutines :
    At(f, Using, h) /\ At(g, Using, h) => f = g

\* Both files are of one certificate, but where a save is between them.
FilesMatch ==
  \A h \in Hosts \ mixed :
    Readable(h) /\ (\A g \in Goroutines : ~At(g, {"cut key"}, h)) => pem[h].serial = key[h]

\* Memory holds what is on disk, but where a save is between the two.
Between == {"cut key", "keep"}
MemoryIsDisk ==
  \A h \in Hosts \ mixed :
    mem[h] # Absent /\ Readable(h) /\ (\A g \in Goroutines : ~At(g, Between, h))
      => mem[h].cert.serial = pem[h].serial

MemoryMatches == \A h \in Hosts \ mixed : mem[h].cert.serial = mem[h].key

\* What a goroutine has read or written of a host's files is still there.
Held(g) ==
  LET h == proc[g].host
  IN  /\ proc[g].at \in {"key", "cache", "cut key", "fill key", "keep"} => pem[h] = proc[g].cert
      /\ proc[g].at = "cache" => proc[g].cert.serial = proc[g].key
HeldMatches == \A g \in Goroutines : proc[g] # Idle /\ proc[g].host \notin mixed => Held(g)

\* Only solveDNS01 cleans up after itself.
CleanedOnlyDNS == \A g \in Goroutines : proc[g].at = "clean" => dns

PairsInv == OneUser /\ FilesMatch /\ MemoryMatches /\ MemoryIsDisk /\ HeldMatches

IInv == TypeOK /\ PairsInv /\ CleanedOnlyDNS /\ ResponseUpWhenAsked

-----------------------------------------------------------------------------
(* The places a goroutine can be at, and what it holds there. *)

Bare == [at : {"pem"} \cup Ordering, host : Hosts]
WithCert == [at : {"key"} \cup Saving, host : Hosts, cert : Cert]
Caching == [at : {"cache"}, host : Hosts, cert : Cert, key : Serials]
Place == {Idle} \cup Bare \cup WithCert \cup Caching

FilesTyped ==
  /\ mem \in [Hosts -> {Absent} \cup [cert : Cert, key : Serials]]
  /\ pem \in [Hosts -> {Unreadable} \cup Cert]
  /\ key \in [Hosts -> {NoKey} \cup Serials]
RestTyped ==
  /\ up \in BOOLEAN /\ dns \in BOOLEAN
  /\ due \subseteq Hosts /\ web \subseteq Goroutines
  /\ txt \subseteq Goroutines /\ mixed \subseteq Hosts
ProcTyped == proc \in [Goroutines -> Place]

LEMMA TypeParts == TypeOK <=> FilesTyped /\ RestTyped /\ ProcTyped
  BY Zenon DEF TypeOK, FilesTyped, RestTyped, ProcTyped, Place, Bare, WithCert, Caching

LEMMA TypePartsAfter == TypeOK' <=> FilesTyped' /\ RestTyped' /\ ProcTyped'
  BY Zenon DEF TypeOK, FilesTyped, RestTyped, ProcTyped, Place, Bare, WithCert, Caching

LEMMA PlaceFields ==
  ASSUME NEW r \in Place
  PROVE  /\ r.at \in {"idle"} \cup Using \cup Ordering
         /\ r.at = "idle" <=> r = Idle
         /\ r # Idle => r.host \in Hosts
         /\ r.at \in {"pem"} \cup Ordering => r \in Bare
         /\ r.at \in {"key"} \cup Saving => r \in WithCert /\ r.cert \in Cert
         /\ r.at = "cache" => r \in Caching /\ r.cert \in Cert /\ r.key \in Serials
<1>1. CASE r = Idle
  BY <1>1 DEF Idle, Using, Loading, Ordering, Saving
<1>2. CASE r \in Bare
  <2>1. r.at \in {"pem"} \cup Ordering /\ r.host \in Hosts
    BY <1>2 DEF Bare
  <2>2. r # Idle
    BY <2>1 DEF Idle, Ordering
  <2> QED
    BY <1>2, <2>1, <2>2 DEF Using, Loading, Ordering, Saving
<1>3. CASE r \in WithCert
  <2>1. r.at \in {"key"} \cup Saving /\ r.host \in Hosts /\ r.cert \in Cert
    BY <1>3 DEF WithCert
  <2> r.at # "idle"
    BY <2>1 DEF Saving
  <2>2. r # Idle
    BY DEF Idle
  <2> QED
    BY <1>3, <2>1, <2>2 DEF Using, Loading, Ordering, Saving
<1>4. CASE r \in Caching
  <2>1. r.at = "cache" /\ r.host \in Hosts /\ r.cert \in Cert /\ r.key \in Serials
    BY <1>4 DEF Caching
  <2>2. r # Idle
    BY <2>1 DEF Idle
  <2> QED
    BY <1>4, <2>1, <2>2 DEF Using, Loading, Ordering, Saving
<1> QED
  BY <1>1, <1>2, <1>3, <1>4 DEF Place

\* Goto changes where a goroutine is and not what it knows.
LEMMA GotoBare ==
  ASSUME ProcTyped, NEW g \in Goroutines, NEW step, Goto(g, step),
         proc[g].at \in Ordering, step \in Ordering
  PROVE  \E r \in Place : proc' = [proc EXCEPT ![g] = r] /\ r.at = step
<1> DEFINE r == [proc[g] EXCEPT !.at = step]
<1>1. proc[g] \in Bare
  BY PlaceFields DEF ProcTyped
<1>2. r \in Bare /\ r.at = step
  BY <1>1 DEF Bare
<1>3. proc' = [proc EXCEPT ![g] = r]
  BY DEF Goto
<1> QED
  BY <1>2, <1>3 DEF Place

LEMMA GotoHolding ==
  ASSUME ProcTyped, NEW g \in Goroutines, NEW step, Goto(g, step),
         proc[g].at \in Saving, step \in Saving
  PROVE  \E r \in Place : /\ proc' = [proc EXCEPT ![g] = r] /\ r.at = step
                          /\ r.host = proc[g].host /\ r.cert = proc[g].cert
<1> DEFINE r == [proc[g] EXCEPT !.at = step]
<1>1. proc[g] \in WithCert
  BY PlaceFields DEF ProcTyped
<1>2. r \in WithCert /\ r.at = step /\ r.host = proc[g].host /\ r.cert = proc[g].cert
  BY <1>1 DEF WithCert
<1>3. proc' = [proc EXCEPT ![g] = r]
  BY DEF Goto
<1> QED
  BY <1>2, <1>3 DEF Place

LEMMA SetTyped ==
  ASSUME ProcTyped, NEW g \in Goroutines, NEW r \in Place, proc' = [proc EXCEPT ![g] = r]
  PROVE  ProcTyped'
  BY DEF ProcTyped

\* What happens to where the goroutines are, as far as the invariants tell.
LEMMA Moved ==
  ASSUME ProcTyped, NEW g \in Goroutines, NEW r, proc' = [proc EXCEPT ![g] = r]
  PROVE  /\ proc'[g] = r
         /\ \A f \in Goroutines \ {g} : proc'[f] = proc[f]
  BY DEF ProcTyped

-----------------------------------------------------------------------------
(* Which steps keep the pairs together. *)

LEMMA OneUserAfter ==
  ASSUME \A h \in Hosts \ mixed' : \A e \in Goroutines : \A f \in Goroutines :
           /\ proc'[e].at \in Using /\ proc'[e].host = h
           /\ proc'[f].at \in Using /\ proc'[f].host = h
           => e = f
  PROVE  OneUser'
  BY Zenon DEF OneUser, At, Using, Loading, Saving

\* A step of one goroutine that touches neither the files nor the map.
LEMMA QuietStep ==
  ASSUME PairsInv, ProcTyped, NEW g \in Goroutines, NEW r, proc' = [proc EXCEPT ![g] = r],
         UNCHANGED <<mem, pem, key>>, mixed \subseteq mixed',
         \A h \in Hosts \ mixed' : ~At(g, Between, h),
         \A h \in Hosts \ mixed' :
           r.at \in Using /\ r.host = h =>
             At(g, Using, h) \/ \A f \in Goroutines \ {g} : ~At(f, Using, h),
         r # Idle /\ r.host \notin mixed' => Held(g)'
  PROVE  PairsInv'
<1>1. proc'[g] = r /\ \A f \in Goroutines \ {g} : proc'[f] = proc[f]
  BY Moved
<1>2. OneUser'
  <2> SUFFICES ASSUME NEW h \in Hosts \ mixed', NEW e \in Goroutines, NEW f \in Goroutines,
                      proc'[e].at \in Using, proc'[e].host = h,
                      proc'[f].at \in Using, proc'[f].host = h, e # f
               PROVE  FALSE
    BY OneUserAfter
  <2>1. h \in Hosts \ mixed
    OBVIOUS
  <2>0. \A d \in Goroutines \ {g} : proc'[d] = proc[d]
    BY <1>1
  <2>a. \A d \in Goroutines \ {g} :
          proc'[d].at \in Using /\ proc'[d].host = h => At(d, Using, h)
    BY <2>0 DEF At
  <2>b. \A d \in Goroutines \ {g} : At(d, Using, h) /\ At(g, Using, h) => d = g
    BY <2>1 DEF PairsInv, OneUser
  <2>2. CASE e # g /\ f # g
    BY <2>a, <2>1, <2>2 DEF PairsInv, OneUser
  <2>3. CASE e = g
    BY <1>1, <2>a, <2>b, <2>3
  <2>4. CASE f = g
    BY <1>1, <2>a, <2>b, <2>4
  <2> QED
    BY <2>2, <2>3, <2>4
<1>3. FilesMatch'
  <2> SUFFICES ASSUME NEW h \in Hosts \ mixed', Readable(h)',
                      \A f \in Goroutines : ~At(f, {"cut key"}, h)'
               PROVE  pem[h].serial = key[h]
    BY DEF FilesMatch
  <2>1. \A f \in Goroutines : ~At(f, {"cut key"}, h)
    BY <1>1 DEF At, Between
  <2> QED
    BY <2>1 DEF PairsInv, FilesMatch, Readable
<1>4. MemoryMatches'
  BY DEF PairsInv, MemoryMatches
<1>6. MemoryIsDisk'
  <2> SUFFICES ASSUME NEW h \in Hosts \ mixed', mem[h] # Absent, Readable(h)',
                      \A f \in Goroutines : ~At(f, Between, h)'
               PROVE  mem[h].cert.serial = pem[h].serial
    BY DEF MemoryIsDisk
  <2>1. \A f \in Goroutines : ~At(f, Between, h)
    BY <1>1 DEF At
  <2> QED
    BY <2>1 DEF PairsInv, MemoryIsDisk, Readable
<1>5. HeldMatches'
  <2> SUFFICES ASSUME NEW f \in Goroutines, proc'[f] # Idle, proc'[f].host \notin mixed'
               PROVE  Held(f)'
    BY DEF HeldMatches
  <2>1. CASE f = g
    BY <1>1, <2>1
  <2>2. CASE f # g
    BY <1>1, <2>2 DEF PairsInv, HeldMatches, Held
  <2> QED
    BY <2>1, <2>2
<1> QED
  BY <1>2, <1>3, <1>4, <1>5, <1>6 DEF PairsInv

\* A step of one goroutine that uses the files of no other host than before.
LEMMA OneUserKept ==
  ASSUME OneUser, ProcTyped, NEW g \in Goroutines, NEW r, proc' = [proc EXCEPT ![g] = r],
         mixed \subseteq mixed', r.at \in Using => At(g, Using, r.host)
  PROVE  OneUser'
<1>1. proc'[g] = r /\ \A f \in Goroutines \ {g} : proc'[f] = proc[f]
  BY Moved
<1>2. ASSUME NEW h \in Hosts, NEW d \in Goroutines,
             proc'[d].at \in Using, proc'[d].host = h
      PROVE  At(d, Using, h)
  <2>1. CASE d = g
    BY <1>1, <1>2, <2>1
  <2>2. CASE d # g
    BY <1>1, <1>2, <2>2 DEF At
  <2> QED
    BY <2>1, <2>2
<1>3. ASSUME NEW h \in Hosts \ mixed', NEW e \in Goroutines, NEW f \in Goroutines,
             proc'[e].at \in Using, proc'[e].host = h,
             proc'[f].at \in Using, proc'[f].host = h
      PROVE  e = f
  <2>1. h \in Hosts /\ h \notin mixed
    BY <1>3
  <2>2. At(e, Using, h) /\ At(f, Using, h)
    BY <1>2, <1>3, <2>1
  <2> QED
    BY <2>1, <2>2 DEF OneUser
<1> QED
  BY <1>3, OneUserAfter

-----------------------------------------------------------------------------
(* The steps of the process and of time. *)

LEMMA InitOK == Init => IInv
<1> SUFFICES ASSUME Init PROVE IInv
  OBVIOUS
<1>1. TypeOK
  <2>1. FilesTyped /\ RestTyped
    BY DEF Init, FilesTyped, RestTyped
  <2>2. ProcTyped
    BY DEF Init, ProcTyped, Place
  <2> QED
    BY <2>1, <2>2, TypeParts
<1>2. PairsInv
  <2>1. OneUser
    BY DEF Init, OneUser, At, Idle, Using, Loading, Saving
  <2>2. FilesMatch
    BY DEF Init, FilesMatch, Readable
  <2>3. MemoryMatches
    BY DEF Init, MemoryMatches, Absent, Unreadable
  <2>4. HeldMatches
    BY DEF Init, HeldMatches
  <2>5. MemoryIsDisk
    BY DEF Init, MemoryIsDisk
  <2> QED
    BY <2>1, <2>2, <2>3, <2>4, <2>5 DEF PairsInv
<1>3. CleanedOnlyDNS /\ ResponseUpWhenAsked
  BY DEF Init, CleanedOnlyDNS, ResponseUpWhenAsked, Idle
<1> QED
  BY <1>1, <1>2, <1>3 DEF IInv

LEMMA CrashOK == ASSUME IInv, Crash PROVE IInv'
<1> USE DEF Crash
<1>1. TypeOK'
  <2>1. FilesTyped' /\ RestTyped'
    BY TypeParts DEF IInv, FilesTyped, RestTyped
  <2>2. ProcTyped'
    BY DEF ProcTyped, Place
  <2> QED
    BY <2>1, <2>2, TypePartsAfter
<1>2. PairsInv'
  <2>1. OneUser'
    BY OneUserAfter DEF Idle, Using, Loading, Saving
  <2>2. FilesMatch'
    BY DEF IInv, PairsInv, FilesMatch, Readable
  <2>3. MemoryMatches'
    BY DEF MemoryMatches, Absent, Unreadable
  <2>4. HeldMatches'
    BY DEF HeldMatches
  <2>5. MemoryIsDisk'
    BY DEF MemoryIsDisk
  <2> QED
    BY <2>1, <2>2, <2>3, <2>4, <2>5 DEF PairsInv
<1>3. CleanedOnlyDNS' /\ ResponseUpWhenAsked'
  BY DEF CleanedOnlyDNS, ResponseUpWhenAsked, Idle
<1> QED
  BY <1>1, <1>2, <1>3 DEF IInv

\* A certificate that grows older stays the certificate it was.
LEMMA OlderSame ==
  ASSUME NEW c \in {Unreadable} \cup Cert
  PROVE  /\ Older(c) \in {Unreadable} \cup Cert
         /\ Older(c).serial = c.serial
         /\ Older(c) = Unreadable \/ c # Unreadable
<1>1. c.left \in Nat /\ c = [serial |-> c.serial, left |-> c.left]
  BY DEF Unreadable, Cert
<1>2. Older(c) = [serial |-> c.serial, left |-> IF c.left = 0 THEN 0 ELSE c.left - 1]
  BY <1>1 DEF Older
<1>3. CASE c = Unreadable
  BY <1>2, <1>3 DEF Unreadable
<1>4. CASE c \in Cert
  BY <1>1, <1>2, <1>4, TimesAssumption DEF Cert, Unreadable
<1> QED
  BY <1>3, <1>4

LEMMA OlderInCert == ASSUME NEW c \in Cert PROVE Older(c) \in Cert
  BY TimesAssumption DEF Older, Cert

\* A goroutine at work stays where it is while time passes.
LEMMA OlderPlace ==
  ASSUME NEW r \in Place, NEW q,
         q = IF r.at \in Holding THEN [r EXCEPT !.cert = Older(@)] ELSE r
  PROVE  /\ q \in Place /\ q.at = r.at
         /\ q # Idle => r # Idle /\ q.host = r.host
         /\ r.at \in Holding => r.cert \in Cert /\ q.cert = Older(r.cert)
         /\ r.at = "cache" => q.key = r.key
<1>1. ASSUME NEW c \in Cert PROVE Older(c) \in Cert
  BY OlderInCert
<1>2. CASE r.at \notin Holding
  BY <1>2 DEF Holding
<1>3. CASE r.at \in {"key"} \cup Saving
  <2>1. r \in WithCert /\ r.cert \in Cert /\ r # Idle
    BY <1>3, PlaceFields DEF Idle, Saving
  <2>2. q = [at |-> r.at, host |-> r.host, cert |-> Older(r.cert)]
    BY <1>3, <2>1 DEF WithCert, Holding
  <2> QED
    BY <1>1, <1>3, <2>1, <2>2 DEF Place, WithCert, Saving
<1>4. CASE r.at = "cache"
  <2>1. r \in Caching /\ r.cert \in Cert /\ r # Idle
    BY <1>4, PlaceFields DEF Idle
  <2>2. q = [at |-> r.at, host |-> r.host, cert |-> Older(r.cert), key |-> r.key]
    BY <1>4, <2>1 DEF Caching, Holding
  <2> QED
    BY <1>1, <1>4, <2>1, <2>2 DEF Place, Caching
<1> QED
  BY <1>2, <1>3, <1>4 DEF Holding

LEMMA TickOK == ASSUME IInv, Tick PROVE IInv'
<1> USE DEF Tick
<1>0. FilesTyped /\ RestTyped /\ ProcTyped
  BY TypeParts DEF IInv
<1>a. ASSUME NEW g \in Goroutines
      PROVE  /\ proc'[g] \in Place /\ proc'[g].at = proc[g].at
             /\ proc'[g] # Idle => proc[g] # Idle /\ proc'[g].host = proc[g].host
             /\ proc[g].at \in Holding => proc[g].cert \in Cert /\ proc'[g].cert = Older(proc[g].cert)
             /\ proc[g].at = "cache" => proc'[g].key = proc[g].key
  <2>1. proc[g] \in Place
    BY <1>0 DEF ProcTyped
  <2>2. proc'[g] = IF proc[g].at \in Holding THEN [proc[g] EXCEPT !.cert = Older(@)] ELSE proc[g]
    OBVIOUS
  <2> QED
    BY <2>1, <2>2, OlderPlace
<1>b. ASSUME NEW g \in Goroutines, proc[g].at \in Using
      PROVE  proc'[g].at = proc[g].at /\ proc'[g].host = proc[g].host
  <2>1. proc'[g].at # "idle"
    BY <1>a, <1>b DEF Using, Loading, Saving
  <2> QED
    BY <1>a, <2>1 DEF Idle
<1>c. ASSUME NEW h \in Hosts, Readable(h)'
      PROVE  Readable(h) /\ pem'[h].serial = pem[h].serial
  <2>1. pem[h] \in {Unreadable} \cup Cert /\ pem'[h] = Older(pem[h]) /\ key' = key
    BY <1>0 DEF FilesTyped
  <2> QED
    BY <1>c, <2>1, OlderSame DEF Readable
<1>d. ASSUME NEW h \in Hosts
      PROVE  /\ mem'[h].cert.serial = mem[h].cert.serial /\ mem'[h].key = mem[h].key
             /\ mem'[h] # Absent => mem[h] # Absent
  <2>1. mem[h] \in {Absent} \cup [cert : Cert, key : Serials]
    BY <1>0 DEF FilesTyped
  <2>2. mem'[h] = [mem[h] EXCEPT !.cert = Older(@)]
    OBVIOUS
  <2>3. CASE mem[h] = Absent
    BY <2>2, <2>3 DEF Absent, Unreadable, Older
  <2>4. CASE mem[h] \in [cert : Cert, key : Serials]
    <3>1. mem'[h].cert = Older(mem[h].cert) /\ mem'[h].key = mem[h].key /\ mem[h].cert \in Cert
      BY <2>2, <2>4
    <3>2. mem[h].key # NoKey
      BY <2>4, SerialsAssumption
    <3> QED
      BY <3>1, <3>2, OlderSame DEF Absent
  <2> QED
    BY <2>1, <2>3, <2>4
<1>1. TypeOK'
  <2>1. mem' \in [Hosts -> {Absent} \cup [cert : Cert, key : Serials]]
    <3> SUFFICES ASSUME NEW h \in Hosts
                 PROVE  [mem[h] EXCEPT !.cert = Older(@)] \in {Absent} \cup [cert : Cert, key : Serials]
      OBVIOUS
    <3>1. CASE mem[h] = Absent
      BY <3>1 DEF Absent, Unreadable, Older
    <3>2. CASE mem[h] \in [cert : Cert, key : Serials]
      <4>1. Older(mem[h].cert) \in Cert
        BY <3>2, OlderInCert
      <4> QED
        BY <3>2, <4>1
    <3> QED
      BY <1>0, <3>1, <3>2 DEF FilesTyped
  <2>2. pem' \in [Hosts -> {Unreadable} \cup Cert]
    BY <1>0, OlderSame DEF FilesTyped
  <2>3. FilesTyped' /\ RestTyped'
    BY <1>0, <2>1, <2>2 DEF FilesTyped, RestTyped
  <2>4. ProcTyped'
    BY <1>a DEF ProcTyped
  <2> QED
    BY <2>3, <2>4, TypePartsAfter
<1>2. PairsInv'
  <2>0. ASSUME NEW e \in Goroutines, NEW h, proc'[e].at \in Using, proc'[e].host = h
        PROVE  At(e, Using, h)
    BY <1>a, <1>b, <2>0 DEF At
  <2>1. OneUser'
    <3> SUFFICES ASSUME NEW h \in Hosts \ mixed', NEW e \in Goroutines, NEW f \in Goroutines,
                        proc'[e].at \in Using, proc'[e].host = h,
                        proc'[f].at \in Using, proc'[f].host = h
                 PROVE  e = f
      BY OneUserAfter
    <3> QED
      BY <2>0 DEF IInv, PairsInv, OneUser
  <2>2. FilesMatch'
    <3> SUFFICES ASSUME NEW h \in Hosts \ mixed, Readable(h)',
                        \A g \in Goroutines : ~At(g, {"cut key"}, h)'
                 PROVE  pem'[h].serial = key'[h]
      BY DEF FilesMatch
    <3>1. \A g \in Goroutines : ~At(g, {"cut key"}, h)
      BY <1>b DEF At, Using, Saving
    <3> QED
      BY <1>c, <3>1 DEF IInv, PairsInv, FilesMatch
  <2>3. MemoryMatches'
    BY <1>d DEF IInv, PairsInv, MemoryMatches
  <2>4. HeldMatches'
    <3> SUFFICES ASSUME NEW g \in Goroutines, proc'[g] # Idle, proc'[g].host \notin mixed
                 PROVE  Held(g)'
      BY DEF HeldMatches
    <3>1. /\ proc[g] # Idle /\ proc'[g].host = proc[g].host /\ proc'[g].at = proc[g].at
          /\ proc[g].host \in Hosts
      BY <1>0, <1>a, PlaceFields DEF ProcTyped
    <3>2. Held(g)
      BY <3>1 DEF IInv, PairsInv, HeldMatches
    <3>3. ASSUME proc[g].at \in {"key", "cache", "cut key", "fill key", "keep"}
          PROVE  pem'[proc'[g].host] = proc'[g].cert
      <4>1. pem[proc[g].host] = proc[g].cert /\ proc[g].at \in Holding
        BY <3>2, <3>3 DEF Held, Holding, Saving
      <4>2. pem'[proc[g].host] = Older(pem[proc[g].host])
        BY <3>1
      <4> QED
        BY <1>a, <3>1, <4>1, <4>2
    <3>4. ASSUME proc[g].at = "cache" PROVE proc'[g].cert.serial = proc'[g].key
      <4>1. /\ proc[g].cert \in Cert /\ proc'[g].cert = Older(proc[g].cert)
            /\ proc'[g].key = proc[g].key
        BY <1>a, <3>4 DEF Holding
      <4> QED
        BY <3>2, <3>4, <4>1, OlderSame DEF Held
    <3> QED
      BY <3>1, <3>3, <3>4 DEF Held
  <2>5. MemoryIsDisk'
    <3> SUFFICES ASSUME NEW h \in Hosts \ mixed, mem'[h] # Absent, Readable(h)',
                        \A g \in Goroutines : ~At(g, Between, h)'
                 PROVE  mem'[h].cert.serial = pem'[h].serial
      BY DEF MemoryIsDisk
    <3>1. \A g \in Goroutines : ~At(g, Between, h)
      BY <1>b DEF At, Using, Saving, Between
    <3> QED
      BY <1>c, <1>d, <3>1 DEF IInv, PairsInv, MemoryIsDisk
  <2> QED
    BY <2>1, <2>2, <2>3, <2>4, <2>5 DEF PairsInv
<1>3. CleanedOnlyDNS' /\ ResponseUpWhenAsked'
  BY <1>a DEF IInv, CleanedOnlyDNS, ResponseUpWhenAsked
<1> QED
  BY <1>1, <1>2, <1>3 DEF IInv

\* A step that moves no goroutine and touches no certificate.
LEMMA StillOK ==
  ASSUME IInv, UNCHANGED <<dns, mem, pem, key, proc, web, txt, mixed>>,
         up' \in BOOLEAN, due' \subseteq Hosts
  PROVE  IInv'
<1>1. TypeOK'
  BY TypeParts, TypePartsAfter DEF IInv, FilesTyped, RestTyped, ProcTyped
<1>2. OneUser' /\ FilesMatch' /\ MemoryMatches' /\ MemoryIsDisk' /\ HeldMatches'
  <2>1. OneUser'
    BY OneUserAfter DEF IInv, PairsInv, OneUser, At
  <2>2. FilesMatch' /\ MemoryMatches'
    BY DEF IInv, PairsInv, FilesMatch, MemoryMatches, Readable, At
  <2>3. HeldMatches'
    BY DEF IInv, PairsInv, HeldMatches, Held
  <2>4. MemoryIsDisk'
    BY DEF IInv, PairsInv, MemoryIsDisk, Readable, At
  <2> QED
    BY <2>1, <2>2, <2>3, <2>4
<1>3. CleanedOnlyDNS' /\ ResponseUpWhenAsked'
  BY DEF IInv, CleanedOnlyDNS, ResponseUpWhenAsked
<1> QED
  BY <1>1, <1>2, <1>3 DEF IInv, PairsInv

\* A step of one goroutine that leaves the responses of the others where they are.
LEMMA AnswersKept ==
  ASSUME IInv, NEW g \in Goroutines, NEW r, proc' = [proc EXCEPT ![g] = r],
         dns' = dns, web \ {g} \subseteq web',
         r.at = "clean" => dns, r.at = "accept" /\ ~dns => g \in web'
  PROVE  CleanedOnlyDNS' /\ ResponseUpWhenAsked'
<1>1. ProcTyped
  BY TypeParts DEF IInv
<1>2. proc'[g] = r /\ \A f \in Goroutines \ {g} : proc'[f] = proc[f]
  BY <1>1, Moved
<1> QED
  BY <1>2 DEF IInv, CleanedOnlyDNS, ResponseUpWhenAsked

\* Who starts to use the files of a host is alone with them, or the host is mixed.
LEMMA ShareFacts ==
  ASSUME RestTyped, NEW g \in Goroutines, NEW h \in Hosts, Share(g, h)
  PROVE  /\ mixed \subseteq mixed' /\ mixed' \subseteq Hosts
         /\ h \notin mixed' => \A f \in Goroutines \ {g} : ~At(f, Using, h)
  BY Zenon DEF RestTyped, Share, Using

\* A step of one goroutine that touches no certificate.
LEMMA QuietOK ==
  ASSUME IInv, NEW g \in Goroutines, NEW r \in Place, proc' = [proc EXCEPT ![g] = r],
         UNCHANGED <<up, dns, mem, pem, key>>, due' \subseteq Hosts,
         web' \subseteq Goroutines, txt' \subseteq Goroutines,
         mixed \subseteq mixed', mixed' \subseteq Hosts,
         \A h \in Hosts \ mixed' : ~At(g, Between, h),
         \A h \in Hosts \ mixed' :
           r.at \in Using /\ r.host = h =>
             At(g, Using, h) \/ \A f \in Goroutines \ {g} : ~At(f, Using, h),
         r # Idle /\ r.host \notin mixed' => Held(g)',
         web \ {g} \subseteq web',
         r.at = "clean" => dns, r.at = "accept" /\ ~dns => g \in web'
  PROVE  IInv'
<1>1. FilesTyped /\ RestTyped /\ ProcTyped
  BY TypeParts DEF IInv
<1>2. TypeOK'
  <2>1. ProcTyped'
    BY <1>1, SetTyped
  <2>2. FilesTyped' /\ RestTyped'
    BY <1>1 DEF FilesTyped, RestTyped
  <2> QED
    BY <2>1, <2>2, TypePartsAfter
<1>3. PairsInv'
  BY <1>1, QuietStep DEF IInv
<1>4. CleanedOnlyDNS' /\ ResponseUpWhenAsked'
  BY AnswersKept
<1> QED
  BY <1>2, <1>3, <1>4 DEF IInv

\* A goroutine is done with what it did, and was not between the two files.
LEMMA EndOK ==
  ASSUME IInv, NEW g \in Goroutines, End(g), UNCHANGED <<up, dns, mem, pem, key, due>>,
         web' \in {web, web \ {g}}, txt' \in {txt, txt \ {g}},
         mixed \subseteq mixed', mixed' \subseteq Hosts,
         \A h \in Hosts \ mixed' : ~At(g, Between, h)
  PROVE  IInv'
<1>1. RestTyped
  BY TypeParts DEF IInv
<1>2. Idle \in Place /\ Idle.at = "idle" /\ "idle" \notin Using
  BY DEF Place, Idle, Using, Loading, Saving
<1>3. /\ due' \subseteq Hosts /\ web' \subseteq Goroutines /\ txt' \subseteq Goroutines
      /\ web \ {g} \subseteq web'
  BY <1>1 DEF RestTyped
<1>4. proc' = [proc EXCEPT ![g] = Idle]
  BY DEF End
<1> QED
  BY <1>2, <1>3, <1>4, QuietOK

\* A goroutine that is now ordering a certificate, and holds nothing.
LEMMA BareOK ==
  ASSUME IInv, NEW g \in Goroutines, NEW r \in Place, proc' = [proc EXCEPT ![g] = r],
         r.at \in Ordering, proc[g].at \notin Between,
         UNCHANGED <<up, dns, mem, pem, key, due, mixed>>,
         web' \in {web, web \cup {g}}, txt' \subseteq Goroutines,
         r.at = "clean" => dns, r.at = "accept" /\ ~dns => g \in web'
  PROVE  IInv'
<1>1. RestTyped /\ ProcTyped
  BY TypeParts DEF IInv
<1>2. /\ due' \subseteq Hosts /\ web' \subseteq Goroutines /\ web \ {g} \subseteq web'
      /\ mixed \subseteq mixed' /\ mixed' \subseteq Hosts
  BY <1>1 DEF RestTyped
<1>3. r.at \notin Using
  BY DEF Ordering, Using, Loading, Saving
<1>4. Held(g)'
  <2>1. proc'[g] = r
    BY <1>1, Moved
  <2>2. proc'[g].at \in Ordering
    BY <2>1
  <2>3. proc'[g].at \notin {"key", "cut key", "fill key", "keep", "cache"}
    BY <2>2 DEF Ordering
  <2> QED
    BY <2>3 DEF Held
<1>5. \A h \in Hosts \ mixed' : ~At(g, Between, h)
  BY DEF At
<1> QED
  BY <1>2, <1>3, <1>4, <1>5, QuietOK

-----------------------------------------------------------------------------
(* The steps of loadFromDisk. *)

LEMMA OpenOK ==
  ASSUME IInv, NEW g \in Goroutines, NEW h \in Hosts, proc[g] = Idle, due' \subseteq Hosts,
         proc' = [proc EXCEPT ![g] = [at |-> "pem", host |-> h]], Share(g, h),
         UNCHANGED <<up, dns, mem, pem, key, web, txt>>
  PROVE  IInv'
<1> DEFINE r == [at |-> "pem", host |-> h]
<1>0. FilesTyped /\ RestTyped /\ ProcTyped
  BY TypeParts DEF IInv
<1>1. /\ mixed \subseteq mixed' /\ mixed' \subseteq Hosts
      /\ h \notin mixed' => \A f \in Goroutines \ {g} : ~At(f, Using, h)
  BY <1>0, ShareFacts
<1>2. r \in Place
  BY DEF Place, Bare
<1>3. \A k \in Hosts \ mixed' : ~At(g, Between, k)
  BY DEF At, Idle, Between
<1>4. \A k \in Hosts \ mixed' :
        r.at \in Using /\ r.host = k =>
          At(g, Using, k) \/ \A f \in Goroutines \ {g} : ~At(f, Using, k)
  BY <1>1
<1>5. Held(g)'
  <2>1. proc'[g] = r
    BY <1>0, Moved
  <2>2. proc'[g].at = "pem"
    BY <2>1
  <2> QED
    BY <2>2, Zenon DEF Held
<1>6. /\ web' \subseteq Goroutines /\ txt' \subseteq Goroutines /\ web \ {g} \subseteq web'
      /\ r.at # "clean" /\ r.at # "accept"
  BY <1>0 DEF RestTyped
<1> HIDE DEF r
<1> QED
  BY <1>1, <1>2, <1>3, <1>4, <1>5, <1>6, QuietOK DEF r

LEMMA HelloOK ==
  ASSUME IInv, NEW g \in Handshakes, NEW h \in Hosts, Hello(g, h) PROVE IInv'
<1>1. g \in Goroutines /\ due' \subseteq Hosts
  BY TypeParts DEF Goroutines, IInv, RestTyped, Hello
<1> QED
  BY <1>1, OpenOK DEF Hello

LEMMA VisitOK ==
  ASSUME IInv, NEW h \in Hosts, Visit(h) PROVE IInv'
<1>1. Renewer \in Goroutines /\ due' \subseteq Hosts
  BY TypeParts DEF Goroutines, IInv, RestTyped, Visit
<1> QED
  BY <1>1, OpenOK DEF Visit

LEMMA LoadFailedOK ==
  ASSUME IInv, NEW g \in Goroutines, proc[g].at \in {"pem", "key"}, LoadFailed(g),
         UNCHANGED <<up, dns, mem, pem, key, due, web, txt, mixed>>
  PROVE  IInv'
<1>0. RestTyped /\ ProcTyped
  BY TypeParts DEF IInv
<1>1. CASE g = Renewer
  <2>1. mixed \subseteq mixed' /\ mixed' \subseteq Hosts
    BY <1>0 DEF RestTyped
  <2> QED
    BY <1>1, <2>1, EndOK DEF LoadFailed, At, Between
<1>2. CASE g # Renewer
  <2> DEFINE r == [at |-> "solve", host |-> proc[g].host]
  <2>1. proc[g].host \in Hosts
    BY <1>0, PlaceFields DEF ProcTyped, Idle
  <2>2. r \in Place /\ r.at \in Ordering /\ r.at # "clean" /\ r.at # "accept"
    BY <2>1 DEF Place, Bare, Ordering
  <2>3. proc' = [proc EXCEPT ![g] = r]
    BY <1>2 DEF LoadFailed
  <2>4. txt' \subseteq Goroutines
    BY <1>0 DEF RestTyped
  <2> HIDE DEF r
  <2> QED
    BY <2>2, <2>3, <2>4, BareOK DEF Between
<1> QED
  BY <1>1, <1>2

LEMMA ReadPemOK == ASSUME IInv, NEW g \in Goroutines, ReadPem(g) PROVE IInv'
<1> DEFINE h == proc[g].host
<1>0. FilesTyped /\ RestTyped /\ ProcTyped
  BY TypeParts DEF IInv
<1>1. CASE LoadFailed(g)
  BY <1>1, LoadFailedOK DEF ReadPem
<1>2. ASSUME pem[h] # Unreadable,
             proc' = [proc EXCEPT ![g] = [at |-> "key", host |-> h, cert |-> pem[h]]]
      PROVE  IInv'
  <2> DEFINE r == [at |-> "key", host |-> h, cert |-> pem[h]]
  <2>1. proc[g].at = "pem" /\ h \in Hosts
    BY <1>0, PlaceFields DEF ReadPem, ProcTyped, Idle
  <2>2. r \in Place /\ r.at = "key" /\ r.host = h /\ r.cert = pem[h]
    BY <1>0, <1>2, <2>1 DEF FilesTyped, Place, WithCert
  <2> HIDE DEF r
  <2>3. proc' = [proc EXCEPT ![g] = r]
    BY <1>2 DEF r
  <2>4. \A k \in Hosts \ mixed' : ~At(g, Between, k)
    BY <2>1 DEF At, Between
  <2>5. \A k \in Hosts \ mixed' : r.at \in Using /\ r.host = k => At(g, Using, k)
    BY <2>1, <2>2 DEF At, Using, Loading
  <2>6. Held(g)'
    <3>1. proc'[g] = r /\ pem' = pem
      BY <1>0, <2>3, Moved DEF ReadPem
    <3> QED
      BY <1>2, <2>2, <3>1 DEF Held
  <2>7. /\ UNCHANGED <<up, dns, mem, pem, key>> /\ due' \subseteq Hosts
        /\ web' \subseteq Goroutines /\ txt' \subseteq Goroutines
        /\ mixed \subseteq mixed' /\ mixed' \subseteq Hosts /\ web \ {g} \subseteq web'
    BY <1>0 DEF ReadPem, RestTyped
  <2> QED
    BY <2>2, <2>3, <2>4, <2>5, <2>6, <2>7, QuietOK
<1> QED
  BY <1>1, <1>2 DEF ReadPem

LEMMA ReadKeyOK == ASSUME IInv, NEW g \in Goroutines, ReadKey(g) PROVE IInv'
<1> DEFINE h == proc[g].host
<1>0. FilesTyped /\ RestTyped /\ ProcTyped
  BY TypeParts DEF IInv
<1>a. proc[g].at = "key" /\ proc[g] # Idle /\ h \in Hosts /\ proc[g].cert \in Cert
  BY <1>0, PlaceFields DEF ReadKey, ProcTyped, Idle
<1>b. /\ UNCHANGED <<up, dns, mem, pem, key, due, web, txt, mixed>> /\ due' \subseteq Hosts
      /\ web' \subseteq Goroutines /\ txt' \subseteq Goroutines
      /\ mixed \subseteq mixed' /\ mixed' \subseteq Hosts /\ web \ {g} \subseteq web'
  BY <1>0 DEF ReadKey, RestTyped
<1>c. \A k \in Hosts \ mixed' : ~At(g, Between, k)
  BY <1>a DEF At, Between
<1>1. CASE LoadFailed(g)
  BY <1>1, <1>a, <1>b, LoadFailedOK
<1>2. ASSUME key[h] # NoKey,
             proc' = [proc EXCEPT ![g] =
                        [at |-> "cache", host |-> h, cert |-> proc[g].cert, key |-> key[h]]]
      PROVE  IInv'
  <2> DEFINE r == [at |-> "cache", host |-> h, cert |-> proc[g].cert, key |-> key[h]]
  <2>1. /\ r \in Place /\ r.at = "cache" /\ r.host = h
        /\ r.cert = proc[g].cert /\ r.key = key[h]
    BY <1>0, <1>2, <1>a DEF FilesTyped, Place, Caching
  <2> HIDE DEF r
  <2>2. proc' = [proc EXCEPT ![g] = r]
    BY <1>2 DEF r
  <2>3. \A k \in Hosts \ mixed' : r.at \in Using /\ r.host = k => At(g, Using, k)
    BY <1>a, <2>1 DEF At, Using, Loading
  <2>4. ASSUME h \notin mixed PROVE Held(g)'
    <3>1. pem[h] = proc[g].cert
      BY <1>a, <2>4 DEF IInv, PairsInv, HeldMatches, Held
    <3>2. pem[h] # Unreadable
      BY <1>a, <3>1, SerialsAssumption DEF Unreadable, Cert
    <3>3. \A f \in Goroutines : ~At(f, {"cut key"}, h)
      <4> SUFFICES ASSUME NEW f \in Goroutines, At(f, {"cut key"}, h) PROVE FALSE
        OBVIOUS
      <4>1. At(f, Using, h) /\ At(g, Using, h) /\ f # g
        BY <1>a DEF At, Using, Loading, Saving
      <4> QED
        BY <1>a, <2>4, <4>1 DEF IInv, PairsInv, OneUser
    <3>4. pem[h].serial = key[h]
      BY <1>2, <1>a, <2>4, <3>2, <3>3 DEF IInv, PairsInv, FilesMatch, Readable
    <3>5. proc'[g] = r
      BY <1>0, <2>2, Moved
    <3> QED
      BY <1>b, <2>1, <3>1, <3>4, <3>5 DEF Held
  <2> QED
    BY <1>b, <1>c, <2>1, <2>2, <2>3, <2>4, QuietOK
<1>3. ASSUME proc' = [proc EXCEPT ![g] = [at |-> "solve", host |-> h]] PROVE IInv'
  <2> DEFINE r == [at |-> "solve", host |-> h]
  <2>1. r \in Place /\ r.at \in Ordering /\ r.at # "clean" /\ r.at # "accept"
    BY <1>a DEF Place, Bare, Ordering
  <2> HIDE DEF r
  <2>2. proc' = [proc EXCEPT ![g] = r]
    BY <1>3 DEF r
  <2> QED
    BY <1>a, <1>b, <2>1, <2>2, BareOK DEF Between
<1>4. CASE End(g)
  BY <1>4, <1>b, <1>c, EndOK
<1> QED
  BY <1>1, <1>2, <1>3, <1>4 DEF ReadKey

-----------------------------------------------------------------------------
(* The steps that write: the files of a host, and the map. *)

\* A step of a goroutine that uses the files of a host, on the certificates of
\* that host.
LEMMA FileOK ==
  ASSUME IInv, NEW g \in Goroutines, NEW r \in Place, proc' = [proc EXCEPT ![g] = r],
         NEW h0 \in Hosts, h0 = proc[g].host, proc[g].at \in Using,
         r = Idle \/ (r.at \in Using /\ r.host = h0),
         UNCHANGED <<up, dns, due, web, txt, mixed>>, FilesTyped',
         \A k \in Hosts \ {h0} : mem'[k] = mem[k] /\ pem'[k] = pem[k] /\ key'[k] = key[k],
         h0 \notin mixed =>
           /\ mem'[h0].cert.serial = mem'[h0].key
           /\ pem'[h0] # Unreadable /\ key'[h0] # NoKey /\ r.at # "cut key" =>
                pem'[h0].serial = key'[h0]
           /\ mem'[h0] # Absent /\ pem'[h0] # Unreadable /\ key'[h0] # NoKey /\ r.at \notin Between =>
                mem'[h0].cert.serial = pem'[h0].serial
           /\ r # Idle => Held(g)'
  PROVE  IInv'
<1>1. RestTyped /\ ProcTyped
  BY TypeParts DEF IInv
<1>2. TypeOK'
  <2>1. ProcTyped'
    BY <1>1, SetTyped
  <2>2. RestTyped'
    BY <1>1 DEF RestTyped
  <2> QED
    BY <2>1, <2>2, TypePartsAfter
<1>a. Idle.at = "idle" /\ "idle" \notin Using /\ "clean" \notin Using /\ "accept" \notin Using
  BY DEF Idle, Using, Loading, Saving
<1>3. r.at \in Using => r.host = h0
  BY <1>a
<1>4. PairsInv'
  <2>1. proc'[g] = r /\ \A f \in Goroutines \ {g} : proc'[f] = proc[f]
    BY <1>1, Moved
  <2>2. OneUser'
    <3>1. mixed \subseteq mixed' /\ (r.at \in Using => At(g, Using, r.host))
      BY <1>3 DEF At
    <3> QED
      BY <1>1, <3>1, OneUserKept DEF IInv, PairsInv
  <2>3. FilesMatch'
    <3> SUFFICES ASSUME NEW h \in Hosts \ mixed, Readable(h)',
                        \A f \in Goroutines : ~At(f, {"cut key"}, h)'
                 PROVE  pem'[h].serial = key'[h]
      BY DEF FilesMatch
    <3>1. CASE h = h0
      <4>1. r.at # "cut key"
        BY <2>1, <3>1, <1>3 DEF At, Using, Saving
      <4> QED
        BY <3>1, <4>1 DEF Readable
    <3>2. CASE h # h0
      <4>1. \A f \in Goroutines : ~At(f, {"cut key"}, h)
        BY <2>1, <3>2 DEF At
      <4> QED
        BY <3>2, <4>1 DEF IInv, PairsInv, FilesMatch, Readable
    <3> QED
      BY <3>1, <3>2
  <2>4. MemoryMatches'
    BY DEF IInv, PairsInv, MemoryMatches
  <2>6. MemoryIsDisk'
    <3> SUFFICES ASSUME NEW h \in Hosts \ mixed, mem'[h] # Absent, Readable(h)',
                        \A f \in Goroutines : ~At(f, Between, h)'
                 PROVE  mem'[h].cert.serial = pem'[h].serial
      BY DEF MemoryIsDisk
    <3>1. CASE h = h0
      <4>1. r.at \notin Between
        BY <2>1, <3>1, <1>3 DEF At, Using, Saving, Between
      <4> QED
        BY <3>1, <4>1 DEF Readable
    <3>2. CASE h # h0
      <4>1. \A f \in Goroutines : ~At(f, Between, h)
        BY <2>1, <3>2 DEF At
      <4> QED
        BY <3>2, <4>1 DEF IInv, PairsInv, MemoryIsDisk, Readable
    <3> QED
      BY <3>1, <3>2
  <2>5. HeldMatches'
    <3> SUFFICES ASSUME NEW f \in Goroutines, proc'[f] # Idle, proc'[f].host \notin mixed
                 PROVE  Held(f)'
      BY DEF HeldMatches
    <3>1. CASE f = g
      <4>1. CASE r.at \in Using
        <5>1. h0 \notin mixed /\ r # Idle
          BY <2>1, <3>1, <4>1
        <5>2. Held(g)'
          BY <5>1
        <5> QED
          BY <3>1, <5>2
      <4>2. CASE r.at \notin Using
        BY <2>1, <3>1, <4>2 DEF Held, Using, Loading, Saving
      <4> QED
        BY <4>1, <4>2
    <3>2. CASE f # g
      <4>1. Held(f)
        BY <2>1, <3>2 DEF IInv, PairsInv, HeldMatches
      <4>2. CASE proc[f].at \in Using
        <5>1. proc[f].host # h0
          BY <1>1, <2>1, <3>2, <4>2 DEF IInv, PairsInv, OneUser, At
        <5>2. proc[f].host \in Hosts
          BY <1>1, <2>1, <3>2, PlaceFields DEF ProcTyped
        <5>3. proc'[f] = proc[f] /\ pem'[proc[f].host] = pem[proc[f].host]
          BY <2>1, <3>2, <5>1, <5>2
        <5> QED
          BY <4>1, <5>3 DEF Held
      <4>3. CASE proc[f].at \notin Using
        BY <2>1, <3>2, <4>3 DEF Held, Using, Loading, Saving
      <4> QED
        BY <4>2, <4>3
    <3> QED
      BY <3>1, <3>2
  <2> QED
    BY <2>2, <2>3, <2>4, <2>5, <2>6 DEF PairsInv
<1>5. r.at # "clean" /\ r.at # "accept"
  BY <1>a
<1>6. CleanedOnlyDNS' /\ ResponseUpWhenAsked'
  BY <1>5, AnswersKept
<1> QED
  BY <1>2, <1>4, <1>6 DEF IInv

\* What a goroutine in the middle of a host's files knows of them.
LEMMA Alone ==
  ASSUME IInv, NEW g \in Goroutines, proc[g].at \in Using, NEW h, h = proc[g].host
  PROVE  /\ proc[g] # Idle /\ h \in Hosts
         /\ h \notin mixed =>
              /\ Held(g) /\ mem[h].cert.serial = mem[h].key
              /\ proc[g].at # "cut key" /\ Readable(h) => pem[h].serial = key[h]
<1>1. ProcTyped
  BY TypeParts DEF IInv
<1>2. proc[g] # Idle /\ h \in Hosts
  BY <1>1, PlaceFields DEF ProcTyped, Using, Loading, Saving, Idle
<1>3. ASSUME h \notin mixed PROVE Held(g) /\ mem[h].cert.serial = mem[h].key
  BY <1>2, <1>3 DEF IInv, PairsInv, HeldMatches, MemoryMatches
<1>4. ASSUME h \notin mixed, proc[g].at # "cut key", Readable(h)
      PROVE  pem[h].serial = key[h]
  <2>1. \A f \in Goroutines : ~At(f, {"cut key"}, h)
    <3> SUFFICES ASSUME NEW f \in Goroutines, At(f, {"cut key"}, h) PROVE FALSE
      OBVIOUS
    <3>1. At(f, Using, h) /\ At(g, Using, h) /\ f # g
      BY <1>4 DEF At, Using, Saving
    <3> QED
      BY <1>2, <1>4, <3>1 DEF IInv, PairsInv, OneUser
  <2> QED
    BY <1>2, <1>4, <2>1 DEF IInv, PairsInv, FilesMatch
<1> QED
  BY <1>2, <1>3, <1>4

LEMMA CacheOK == ASSUME IInv, NEW g \in Goroutines, Cache(g) PROVE IInv'
<1> SUFFICES ASSUME NEW h, h = proc[g].host PROVE IInv'
  OBVIOUS
<1>0. FilesTyped /\ RestTyped /\ ProcTyped
  BY TypeParts DEF IInv
<1>1. proc[g].at = "cache" /\ proc[g].at \in Using
  BY DEF Cache, Using, Loading
<1>2. /\ h \in Hosts
      /\ h \notin mixed => Held(g) /\ (Readable(h) => pem[h].serial = key[h])
  BY <1>1, Alone
<1>3. mem'[h] = [cert |-> proc[g].cert, key |-> proc[g].key] /\ pem' = pem /\ key' = key
  BY <1>0, <1>2 DEF Cache, FilesTyped
<1>4. FilesTyped'
  <2>1. proc[g].cert \in Cert /\ proc[g].key \in Serials
    BY <1>0, <1>1, PlaceFields DEF ProcTyped
  <2> QED
    BY <1>0, <2>1 DEF Cache, FilesTyped
<1>5. \A k \in Hosts \ {h} : mem'[k] = mem[k] /\ pem'[k] = pem[k] /\ key'[k] = key[k]
  BY <1>0 DEF Cache, FilesTyped
<1>6. h \notin mixed => /\ mem'[h].cert.serial = mem'[h].key
                        /\ pem'[h] # Unreadable /\ key'[h] # NoKey => pem'[h].serial = key'[h]
                        /\ mem'[h].cert.serial = pem'[h].serial
  BY <1>1, <1>2, <1>3 DEF Held, Readable
<1>7. Idle \in Place /\ proc' = [proc EXCEPT ![g] = Idle]
      /\ UNCHANGED <<up, dns, due, web, txt, mixed>>
  BY DEF Place, Cache, End
<1> QED
  BY <1>1, <1>2, <1>4, <1>5, <1>6, <1>7, FileOK

LEMMA KeepOK == ASSUME IInv, NEW g \in Goroutines, Keep(g) PROVE IInv'
<1> SUFFICES ASSUME NEW h, h = proc[g].host PROVE IInv'
  OBVIOUS
<1>0. FilesTyped /\ RestTyped /\ ProcTyped
  BY TypeParts DEF IInv
<1>1. proc[g].at = "keep" /\ proc[g].at \in Using
  BY DEF Keep, Using, Saving
<1>2. /\ h \in Hosts
      /\ h \notin mixed => Held(g) /\ (Readable(h) => pem[h].serial = key[h])
  BY <1>1, Alone
<1>3. mem'[h] = [cert |-> proc[g].cert, key |-> proc[g].cert.serial] /\ pem' = pem /\ key' = key
  BY <1>0, <1>2 DEF Keep, FilesTyped
<1>4. FilesTyped'
  <2>1. proc[g].cert \in Cert
    BY <1>0, <1>1, PlaceFields DEF ProcTyped, Saving
  <2> QED
    BY <1>0, <2>1 DEF Keep, FilesTyped, Cert
<1>5. \A k \in Hosts \ {h} : mem'[k] = mem[k] /\ pem'[k] = pem[k] /\ key'[k] = key[k]
  BY <1>0 DEF Keep, FilesTyped
<1>6. h \notin mixed => /\ mem'[h].cert.serial = mem'[h].key
                        /\ pem'[h] # Unreadable /\ key'[h] # NoKey => pem'[h].serial = key'[h]
                        /\ mem'[h].cert.serial = pem'[h].serial
  BY <1>1, <1>2, <1>3 DEF Held, Readable
<1>7. Idle \in Place /\ proc' = [proc EXCEPT ![g] = Idle]
      /\ UNCHANGED <<up, dns, due, web, txt, mixed>>
  BY DEF Place, Keep, End
<1> QED
  BY <1>1, <1>2, <1>4, <1>5, <1>6, <1>7, FileOK

LEMMA CutPemOK == ASSUME IInv, NEW g \in Goroutines, CutPem(g) PROVE IInv'
<1> SUFFICES ASSUME NEW h, h = proc[g].host PROVE IInv'
  OBVIOUS
<1>0. FilesTyped /\ ProcTyped
  BY TypeParts DEF IInv
<1>1. proc[g].at = "cut pem" /\ proc[g].at \in Using /\ proc[g].at \in Saving
  BY DEF CutPem, Using, Saving
<1>2. /\ h \in Hosts
      /\ h \notin mixed => Held(g) /\ mem[h].cert.serial = mem[h].key
  BY <1>1, Alone
<1>3. PICK r \in Place : /\ proc' = [proc EXCEPT ![g] = r]
                         /\ r.at = "fill pem" /\ r.host = h /\ r.cert = proc[g].cert
  <2>1. Goto(g, "fill pem") /\ "fill pem" \in Saving
    BY DEF CutPem, Saving
  <2>2. \E r \in Place : /\ proc' = [proc EXCEPT ![g] = r] /\ r.at = "fill pem"
                         /\ r.host = proc[g].host /\ r.cert = proc[g].cert
    BY <1>0, <1>1, <2>1, GotoHolding
  <2> QED
    BY <2>2
<1>4. pem'[h] = Unreadable /\ key' = key /\ mem' = mem
  BY <1>0, <1>2 DEF CutPem, FilesTyped
<1>5. FilesTyped'
  <2>1. proc[g].cert \in Cert
    BY <1>0, <1>1, PlaceFields DEF ProcTyped
  <2> QED
    BY <1>0, <2>1 DEF CutPem, FilesTyped, Cert
<1>6. \A k \in Hosts \ {h} : mem'[k] = mem[k] /\ pem'[k] = pem[k] /\ key'[k] = key[k]
  BY <1>0 DEF CutPem, FilesTyped
<1>7. h \notin mixed => /\ mem'[h].cert.serial = mem'[h].key
                        /\ pem'[h] # Unreadable /\ key'[h] # NoKey /\ r.at # "cut key" =>
                             pem'[h].serial = key'[h]
                        /\ mem'[h] # Absent /\ pem'[h] # Unreadable /\ key'[h] # NoKey /\ r.at \notin Between =>
                             mem'[h].cert.serial = pem'[h].serial
                        /\ Held(g)'
  <2>1. proc'[g] = r
    BY <1>0, <1>3, Moved
  <2> QED
    BY <1>1, <1>2, <1>3, <1>4, <2>1 DEF Held, Between
<1>8. UNCHANGED <<up, dns, due, web, txt, mixed>> /\ r.at \in Using
  BY <1>3 DEF CutPem, Using, Saving
<1> QED
  BY <1>1, <1>2, <1>3, <1>5, <1>6, <1>7, <1>8, FileOK

LEMMA FillPemOK == ASSUME IInv, NEW g \in Goroutines, FillPem(g) PROVE IInv'
<1> SUFFICES ASSUME NEW h, h = proc[g].host PROVE IInv'
  OBVIOUS
<1>0. FilesTyped /\ ProcTyped
  BY TypeParts DEF IInv
<1>1. proc[g].at = "fill pem" /\ proc[g].at \in Using /\ proc[g].at \in Saving
  BY DEF FillPem, Using, Saving
<1>2. /\ h \in Hosts
      /\ h \notin mixed => Held(g) /\ mem[h].cert.serial = mem[h].key
  BY <1>1, Alone
<1>3. PICK r \in Place : /\ proc' = [proc EXCEPT ![g] = r]
                         /\ r.at = "cut key" /\ r.host = h /\ r.cert = proc[g].cert
  <2>1. Goto(g, "cut key") /\ "cut key" \in Saving
    BY DEF FillPem, Saving
  <2>2. \E r \in Place : /\ proc' = [proc EXCEPT ![g] = r] /\ r.at = "cut key"
                         /\ r.host = proc[g].host /\ r.cert = proc[g].cert
    BY <1>0, <1>1, <2>1, GotoHolding
  <2> QED
    BY <2>2
<1>4. pem'[h] = proc[g].cert /\ key' = key /\ mem' = mem
  BY <1>0, <1>2 DEF FillPem, FilesTyped
<1>5. FilesTyped'
  <2>1. proc[g].cert \in Cert
    BY <1>0, <1>1, PlaceFields DEF ProcTyped
  <2> QED
    BY <1>0, <2>1 DEF FillPem, FilesTyped, Cert
<1>6. \A k \in Hosts \ {h} : mem'[k] = mem[k] /\ pem'[k] = pem[k] /\ key'[k] = key[k]
  BY <1>0 DEF FillPem, FilesTyped
<1>7. h \notin mixed => /\ mem'[h].cert.serial = mem'[h].key
                        /\ pem'[h] # Unreadable /\ key'[h] # NoKey /\ r.at # "cut key" =>
                             pem'[h].serial = key'[h]
                        /\ mem'[h] # Absent /\ pem'[h] # Unreadable /\ key'[h] # NoKey /\ r.at \notin Between =>
                             mem'[h].cert.serial = pem'[h].serial
                        /\ Held(g)'
  <2>1. proc'[g] = r
    BY <1>0, <1>3, Moved
  <2> QED
    BY <1>1, <1>2, <1>3, <1>4, <2>1 DEF Held, Between
<1>8. UNCHANGED <<up, dns, due, web, txt, mixed>> /\ r.at \in Using
  BY <1>3 DEF FillPem, Using, Saving
<1> QED
  BY <1>1, <1>2, <1>3, <1>5, <1>6, <1>7, <1>8, FileOK

LEMMA CutKeyOK == ASSUME IInv, NEW g \in Goroutines, CutKey(g) PROVE IInv'
<1> SUFFICES ASSUME NEW h, h = proc[g].host PROVE IInv'
  OBVIOUS
<1>0. FilesTyped /\ ProcTyped
  BY TypeParts DEF IInv
<1>1. proc[g].at = "cut key" /\ proc[g].at \in Using /\ proc[g].at \in Saving
  BY DEF CutKey, Using, Saving
<1>2. /\ h \in Hosts
      /\ h \notin mixed => Held(g) /\ mem[h].cert.serial = mem[h].key
  BY <1>1, Alone
<1>3. PICK r \in Place : /\ proc' = [proc EXCEPT ![g] = r]
                         /\ r.at = "fill key" /\ r.host = h /\ r.cert = proc[g].cert
  <2>1. Goto(g, "fill key") /\ "fill key" \in Saving
    BY DEF CutKey, Saving
  <2>2. \E r \in Place : /\ proc' = [proc EXCEPT ![g] = r] /\ r.at = "fill key"
                         /\ r.host = proc[g].host /\ r.cert = proc[g].cert
    BY <1>0, <1>1, <2>1, GotoHolding
  <2> QED
    BY <2>2
<1>4. key'[h] = NoKey /\ pem' = pem /\ mem' = mem
  BY <1>0, <1>2 DEF CutKey, FilesTyped
<1>5. FilesTyped'
  <2>1. proc[g].cert \in Cert
    BY <1>0, <1>1, PlaceFields DEF ProcTyped
  <2> QED
    BY <1>0, <2>1 DEF CutKey, FilesTyped, Cert
<1>6. \A k \in Hosts \ {h} : mem'[k] = mem[k] /\ pem'[k] = pem[k] /\ key'[k] = key[k]
  BY <1>0 DEF CutKey, FilesTyped
<1>7. h \notin mixed => /\ mem'[h].cert.serial = mem'[h].key
                        /\ pem'[h] # Unreadable /\ key'[h] # NoKey /\ r.at # "cut key" =>
                             pem'[h].serial = key'[h]
                        /\ mem'[h] # Absent /\ pem'[h] # Unreadable /\ key'[h] # NoKey /\ r.at \notin Between =>
                             mem'[h].cert.serial = pem'[h].serial
                        /\ Held(g)'
  <2>1. proc'[g] = r
    BY <1>0, <1>3, Moved
  <2> QED
    BY <1>1, <1>2, <1>3, <1>4, <2>1 DEF Held, Between
<1>8. UNCHANGED <<up, dns, due, web, txt, mixed>> /\ r.at \in Using
  BY <1>3 DEF CutKey, Using, Saving
<1> QED
  BY <1>1, <1>2, <1>3, <1>5, <1>6, <1>7, <1>8, FileOK

LEMMA FillKeyOK == ASSUME IInv, NEW g \in Goroutines, FillKey(g) PROVE IInv'
<1> SUFFICES ASSUME NEW h, h = proc[g].host PROVE IInv'
  OBVIOUS
<1>0. FilesTyped /\ ProcTyped
  BY TypeParts DEF IInv
<1>1. proc[g].at = "fill key" /\ proc[g].at \in Using /\ proc[g].at \in Saving
  BY DEF FillKey, Using, Saving
<1>2. /\ h \in Hosts
      /\ h \notin mixed => Held(g) /\ mem[h].cert.serial = mem[h].key
  BY <1>1, Alone
<1>3. PICK r \in Place : /\ proc' = [proc EXCEPT ![g] = r]
                         /\ r.at = "keep" /\ r.host = h /\ r.cert = proc[g].cert
  <2>1. Goto(g, "keep") /\ "keep" \in Saving
    BY DEF FillKey, Saving
  <2>2. \E r \in Place : /\ proc' = [proc EXCEPT ![g] = r] /\ r.at = "keep"
                         /\ r.host = proc[g].host /\ r.cert = proc[g].cert
    BY <1>0, <1>1, <2>1, GotoHolding
  <2> QED
    BY <2>2
<1>4. key'[h] = proc[g].cert.serial /\ pem' = pem /\ mem' = mem
  BY <1>0, <1>2 DEF FillKey, FilesTyped
<1>5. FilesTyped'
  <2>1. proc[g].cert \in Cert
    BY <1>0, <1>1, PlaceFields DEF ProcTyped
  <2> QED
    BY <1>0, <2>1 DEF FillKey, FilesTyped, Cert
<1>6. \A k \in Hosts \ {h} : mem'[k] = mem[k] /\ pem'[k] = pem[k] /\ key'[k] = key[k]
  BY <1>0 DEF FillKey, FilesTyped
<1>7. h \notin mixed => /\ mem'[h].cert.serial = mem'[h].key
                        /\ pem'[h] # Unreadable /\ key'[h] # NoKey /\ r.at # "cut key" =>
                             pem'[h].serial = key'[h]
                        /\ mem'[h] # Absent /\ pem'[h] # Unreadable /\ key'[h] # NoKey /\ r.at \notin Between =>
                             mem'[h].cert.serial = pem'[h].serial
                        /\ Held(g)'
  <2>1. proc'[g] = r
    BY <1>0, <1>3, Moved
  <2> QED
    BY <1>1, <1>2, <1>3, <1>4, <2>1 DEF Held, Between
<1>8. UNCHANGED <<up, dns, due, web, txt, mixed>> /\ r.at \in Using
  BY <1>3 DEF FillKey, Using, Saving
<1> QED
  BY <1>1, <1>2, <1>3, <1>5, <1>6, <1>7, <1>8, FileOK

LEMMA SaveFailedOK == ASSUME IInv, NEW g \in Goroutines, SaveFailed(g) PROVE IInv'
<1>1. mixed \subseteq mixed' /\ mixed' \subseteq Hosts
  BY TypeParts DEF IInv, RestTyped, SaveFailed
<1>2. \A h \in Hosts \ mixed' : ~At(g, Between, h)
  BY DEF SaveFailed, Between, At
<1> QED
  BY <1>1, <1>2, EndOK DEF SaveFailed

-----------------------------------------------------------------------------
(* The steps of an order. *)

LEMMA SolveHTTP01OK == ASSUME IInv, NEW g \in Goroutines, SolveHTTP01(g) PROVE IInv'
<1>0. RestTyped /\ ProcTyped
  BY TypeParts DEF IInv
<1>1. proc[g].at \in Ordering /\ proc[g].at \notin Between /\ "accept" \in Ordering
  BY DEF SolveHTTP01, Ordering, Between
<1>2. PICK r \in Place : proc' = [proc EXCEPT ![g] = r] /\ r.at = "accept"
  BY <1>0, <1>1, GotoBare DEF SolveHTTP01
<1> QED
  BY <1>0, <1>1, <1>2, BareOK DEF SolveHTTP01, RestTyped

LEMMA SetTXTOK == ASSUME IInv, NEW g \in Goroutines, SetTXT(g) PROVE IInv'
<1>0. RestTyped /\ ProcTyped
  BY TypeParts DEF IInv
<1>1. proc[g].at \in Ordering /\ proc[g].at \notin Between /\ "clean" \in Ordering
  BY DEF SetTXT, Ordering, Between
<1>2. PICK r \in Place : proc' = [proc EXCEPT ![g] = r] /\ r.at = "clean"
  BY <1>0, <1>1, GotoBare DEF SetTXT
<1>3. txt' \subseteq Goroutines /\ dns
  BY <1>0 DEF SetTXT, RestTyped
<1> QED
  BY <1>0, <1>1, <1>2, <1>3, BareOK DEF SetTXT

LEMMA DeleteTXTOK == ASSUME IInv, NEW g \in Goroutines, DeleteTXT(g) PROVE IInv'
<1>0. RestTyped /\ ProcTyped
  BY TypeParts DEF IInv
<1>1. proc[g].at \in Ordering /\ proc[g].at \notin Between /\ "accept" \in Ordering
  BY DEF DeleteTXT, Ordering, Between
<1>2. PICK r \in Place : proc' = [proc EXCEPT ![g] = r] /\ r.at = "accept"
  BY <1>0, <1>1, GotoBare DEF DeleteTXT
<1>3. txt' \subseteq Goroutines
  BY <1>0 DEF DeleteTXT, RestTyped, RemoveRRset
<1>4. dns
  BY DEF DeleteTXT, IInv, CleanedOnlyDNS
<1> QED
  BY <1>0, <1>1, <1>2, <1>3, <1>4, BareOK DEF DeleteTXT

LEMMA CreateCertOK == ASSUME IInv, NEW g \in Goroutines, CreateCert(g) PROVE IInv'
<1> DEFINE h == proc[g].host
           r == [at |-> "cut pem", host |-> h, cert |->
                  [serial |-> CHOOSE s \in Serials \ InUse : TRUE, left |-> Lifetime]]
<1>0. RestTyped /\ ProcTyped
  BY TypeParts DEF IInv
<1>1. proc[g].at = "accept" /\ h \in Hosts
  BY <1>0, PlaceFields DEF CreateCert, ProcTyped, Idle
<1>2. r \in Place /\ r.at = "cut pem" /\ r.host = h
  <2>1. (CHOOSE s \in Serials \ InUse : TRUE) \in Serials
    BY DEF CreateCert
  <2>2. Lifetime \in 0..Lifetime
    BY TimesAssumption
  <2> QED
    BY <1>1, <2>1, <2>2 DEF Place, WithCert, Cert, Saving
<1>3. proc' = [proc EXCEPT ![g] = r]
  BY DEF CreateCert
<1> HIDE DEF r
<1>4. /\ mixed \subseteq mixed' /\ mixed' \subseteq Hosts
      /\ h \notin mixed' => \A f \in Goroutines \ {g} : ~At(f, Using, h)
  BY <1>0, <1>1, ShareFacts DEF CreateCert
<1>5. \A k \in Hosts \ mixed' : ~At(g, Between, k)
  BY <1>1 DEF At, Between
<1>6. \A k \in Hosts \ mixed' :
        r.at \in Using /\ r.host = k =>
          At(g, Using, k) \/ \A f \in Goroutines \ {g} : ~At(f, Using, k)
  BY <1>2, <1>4
<1>7. Held(g)'
  <2>1. proc'[g].at = "cut pem"
    BY <1>0, <1>2, <1>3, Moved
  <2> QED
    BY <2>1 DEF Held
<1>8. /\ UNCHANGED <<up, dns, mem, pem, key>> /\ due' \subseteq Hosts
      /\ web' \subseteq Goroutines /\ txt' \subseteq Goroutines /\ web \ {g} \subseteq web'
  BY <1>0 DEF CreateCert, RestTyped
<1> QED
  BY <1>2, <1>3, <1>4, <1>5, <1>6, <1>7, <1>8, QuietOK

LEMMA GiveUpOK == ASSUME IInv, NEW g \in Goroutines, GiveUp(g) PROVE IInv'
<1>1. mixed \subseteq mixed' /\ mixed' \subseteq Hosts
  BY TypeParts DEF IInv, RestTyped, GiveUp
<1>2. \A h \in Hosts \ mixed' : ~At(g, Between, h)
  BY DEF GiveUp, At, Ordering, Between
<1> QED
  BY <1>1, <1>2, EndOK DEF GiveUp

-----------------------------------------------------------------------------
(* Every step, and the theorems about pairs and challenges. *)

LEMMA NextOK == IInv /\ [Next]_vars => IInv'
<1> SUFFICES ASSUME IInv, [Next]_vars PROVE IInv'
  OBVIOUS
<1>0. RestTyped
  BY TypeParts DEF IInv
<1>1. CASE Start
  BY <1>0, <1>1, StillOK DEF Start, RestTyped
<1>2. CASE Crash
  BY <1>2, CrashOK
<1>3. CASE Tick
  BY <1>3, TickOK
<1>4. ASSUME NEW g \in Handshakes, NEW h \in Hosts, Hello(g, h) PROVE IInv'
  BY <1>4, HelloOK
<1>5. CASE RenewAll
  BY <1>0, <1>5, StillOK DEF RenewAll, RestTyped
<1>6. ASSUME NEW h \in Hosts, Visit(h) PROVE IInv'
  BY <1>6, VisitOK
<1>7. ASSUME NEW g \in Goroutines, Load(g) PROVE IInv'
  BY <1>7, ReadPemOK, ReadKeyOK, CacheOK DEF Load
<1>8. ASSUME NEW g \in Goroutines, Solve(g) \/ CreateCert(g) \/ GiveUp(g)
      PROVE  IInv'
  BY <1>8, SolveHTTP01OK, SetTXTOK, DeleteTXTOK, CreateCertOK, GiveUpOK DEF Solve
<1>9. ASSUME NEW g \in Goroutines, Save(g) \/ Keep(g) \/ SaveFailed(g) PROVE IInv'
  BY <1>9, CutPemOK, FillPemOK, CutKeyOK, FillKeyOK, KeepOK, SaveFailedOK DEF Save
<1>10. CASE UNCHANGED vars
  BY <1>0, <1>10, StillOK DEF vars, RestTyped
<1> QED
  BY <1>1, <1>2, <1>3, <1>4, <1>5, <1>6, <1>7, <1>8, <1>9, <1>10 DEF Next

\* The inductive invariant: who uses the files of a host, what its two files and
\* its entry in the map hold, and what a goroutine knows of them.
THEOREM Invariance == Spec => []IInv
  BY InitOK, NextOK, PTL DEF Spec

\* Every variable keeps its type through every order, load, save and crash.
THEOREM TypeCorrect == Spec => []TypeOK
<1>1. IInv => TypeOK
  BY DEF IInv
<1> QED
  BY <1>1, Invariance, PTL

\* manager.go:85: outside the hosts whose files two goroutines used at a time,
\* the certificate and the key in memory belong together, and so do the two
\* files while no goroutine saves them.
THEOREM PairsBelongTogether == Spec => []PairsMatch
<1>1. IInv => PairsMatch
  <2> SUFFICES ASSUME IInv PROVE PairsMatch
    OBVIOUS
  <2>1. ASSUME NEW h \in Hosts \ mixed PROVE mem[h].cert.serial = mem[h].key
    BY DEF IInv, PairsInv, MemoryMatches
  <2>2. ASSUME NEW h \in Hosts \ mixed, Readable(h), \A g \in Goroutines : ~At(g, Saving, h)
        PROVE  pem[h].serial = key[h]
    <3>1. \A g \in Goroutines : ~At(g, {"cut key"}, h)
      BY <2>2 DEF At, Saving
    <3> QED
      BY <2>2, <3>1 DEF IInv, PairsInv, FilesMatch
  <2> QED
    BY <2>1, <2>2 DEF PairsMatch
<1> QED
  BY <1>1, Invariance, PTL

\* manager.go:335-347: the response to an HTTP challenge stays where combinedHandler
\* finds it until the CA has validated it, whatever becomes of other orders.
THEOREM ResponseIsUp == Spec => []ResponseUpWhenAsked
<1>1. IInv => ResponseUpWhenAsked
  BY DEF IInv
<1> QED
  BY <1>1, Invariance, PTL

\* manager.go:319-328: outside those hosts, and while nobody saves, memory holds
\* the certificate that is on disk, so a restart goes on with the same one.
THEOREM RestartIsQuiet == Spec => []RestartServesSame
<1>1. IInv => RestartServesSame
  <2> SUFFICES ASSUME IInv, NEW h \in Hosts \ mixed, mem[h] # Absent, Readable(h),
                      \A g \in Goroutines : ~At(g, Saving, h)
               PROVE  mem[h].cert.serial = pem[h].serial
    BY DEF RestartServesSame
  <2>1. \A g \in Goroutines : ~At(g, Between, h)
    BY DEF At, Saving, Between
  <2> QED
    BY <2>1 DEF IInv, PairsInv, MemoryIsDisk
<1> QED
  BY <1>1, Invariance, PTL
=============================================================================
