---------------------------------- MODULE Acme ----------------------------------
(***************************************************************************)
(* The certificate manager (internal/acme/manager.go).  A host's           *)
(* certificate is in memory, for TLS handshakes, and in two files, one for *)
(* the chain and one for the key, which are written one after the other    *)
(* and read one after the other.  Handshakes run on goroutines of their    *)
(* own and the renewal loop on another.  Each of them may order a          *)
(* certificate for a host another one is ordering, loading or saving:      *)
(* Manager.mu covers the map of certificates and neither the files nor an  *)
(* order.                                                                  *)
(*                                                                         *)
(* Time passes in ticks of days, in the middle of an order too: a          *)
(* certificate a goroutine has read, or was given by the CA, gets older    *)
(* while it is worked with.  Four file operations take no two days, so one *)
(* that is being saved sees one tick at most.                              *)
(***************************************************************************)
EXTENDS Naturals

CONSTANTS
  Hosts,
  Serials,     \* the certificates the CA can issue; the number of one that
               \* is gone is used again
  Lifetime,    \* of a new certificate, in ticks
  RenewBefore, \* a certificate with fewer ticks left is due: 30 days
  TrustFor,    \* one in memory with no more left is looked for on disk: 7 days
  Handshakes,  \* the goroutines of TLS handshakes
  Renewer      \* the goroutine of RenewalLoop

ASSUME RenewerAssumption == Renewer \notin Handshakes
ASSUME TimesAssumption == /\ {Lifetime, RenewBefore, TrustFor} \subseteq Nat
                          /\ TrustFor < RenewBefore /\ RenewBefore <= Lifetime

VARIABLES
  up,
  dns,    \* whether SetDNSProvider has been called
  mem,    \* Manager.certs
  pem,    \* the file of each host's chain
  key,    \* the file of each host's key
  proc,   \* where each goroutine is
  due,    \* the hosts the renewal loop still has to visit
  web,    \* the orders whose response is in `challenges'
  txt,    \* the orders whose value is in the TXT record set of their host
  mixed   \* history: hosts whose files were used by two goroutines at a time,
          \* or were left with a new chain and an old key

vars == <<up, dns, mem, pem, key, proc, due, web, txt, mixed>>

Goroutines == Handshakes \cup {Renewer}

Cert == [serial : Serials, left : 0..Lifetime]

\* A file that is not there, or does not parse.
NoKey == "unreadable"
Unreadable == [serial |-> NoKey, left |-> 0]

ASSUME SerialsAssumption == NoKey \notin Serials

Absent == [cert |-> Unreadable, key |-> NoKey]
Idle == [at |-> "idle"]

Readable(h) == pem[h] # Unreadable /\ key[h] # NoKey


Due(cert) == cert.left < RenewBefore

Loading == {"pem", "key", "cache"}
Ordering == {"solve", "clean", "accept"}
Saving == {"cut pem", "fill pem", "cut key", "fill key", "keep"}
Holding == {"key", "cache"} \cup Saving

At(g, steps, h) == proc[g].at \in steps /\ proc[g].host = h

Goto(g, step) == proc' = [proc EXCEPT ![g].at = step]
End(g) == proc' = [proc EXCEPT ![g] = Idle]

\* History: g starts to use the files of host h.
Share(g, h) ==
  mixed' = IF \E f \in Goroutines \ {g} : At(f, Loading \cup Saving, h)
             THEN mixed \cup {h} ELSE mixed

-----------------------------------------------------------------------------
(* The process and the passing of time. *)

Init ==
  /\ up = FALSE
  /\ dns \in BOOLEAN
  /\ mem = [h \in Hosts |-> Absent]
  /\ pem = [h \in Hosts |-> Unreadable]
  /\ key = [h \in Hosts |-> NoKey]
  /\ proc = [g \in Goroutines |-> Idle]
  /\ due = {}
  /\ web = {}
  /\ txt = {}
  /\ mixed = {}

Start == ~up /\ up' = TRUE /\ UNCHANGED <<dns, mem, pem, key, proc, due, web, txt, mixed>>

Crash ==
  /\ up
  /\ up' = FALSE
  /\ mem' = [h \in Hosts |-> Absent]
  /\ proc' = [g \in Goroutines |-> Idle]
  /\ due' = {}
  /\ web' = {} /\ txt' = {}
  /\ mixed' = mixed \cup {h \in Hosts : \E g \in Goroutines : At(g, {"cut key"}, h)}
  /\ UNCHANGED <<dns, pem, key>>

Older(cert) == [cert EXCEPT !.left = IF @ = 0 THEN 0 ELSE @ - 1]

Tick ==
  /\ \A g \in Goroutines : proc[g].at \in Saving => proc[g].cert.left = Lifetime
  /\ mem' = [h \in Hosts |-> [mem[h] EXCEPT !.cert = Older(@)]]
  /\ pem' = [h \in Hosts |-> Older(pem[h])]
  /\ proc' = [g \in Goroutines |-> IF proc[g].at \in Holding
                                    THEN [proc[g] EXCEPT !.cert = Older(@)] ELSE proc[g]]
  /\ UNCHANGED <<up, dns, key, due, web, txt, mixed>>

-----------------------------------------------------------------------------
(* loadFromDisk, for a handshake and for the renewal loop. *)

\* certFor, where memory has nothing good enough.
Hello(g, h) ==
  /\ up /\ g \in Handshakes
  /\ proc[g] = Idle
  /\ mem[h].cert.left <= TrustFor
  /\ proc' = [proc EXCEPT ![g] = [at |-> "pem", host |-> h]]
  /\ Share(g, h)
  /\ UNCHANGED <<up, dns, mem, pem, key, due, web, txt>>

RenewAll ==
  /\ up
  /\ proc[Renewer] = Idle /\ due = {}
  /\ due' = {h \in Hosts : mem[h] # Absent}
  /\ UNCHANGED <<up, dns, mem, pem, key, proc, web, txt, mixed>>

Visit(h) ==
  /\ proc[Renewer] = Idle /\ h \in due
  /\ due' = due \ {h}
  /\ proc' = [proc EXCEPT ![Renewer] = [at |-> "pem", host |-> h]]
  /\ Share(Renewer, h)
  /\ UNCHANGED <<up, dns, mem, pem, key, web, txt>>

\* Faulty: what the goroutine has read stays around.
FaultyLoadFailedKeeps(g) == IF g = Renewer THEN End(g) ELSE Goto(g, "solve")

\* After an error a handshake orders a certificate, and the loop goes on.
LoadFailed(g) ==
  IF g = Renewer THEN End(g)
                 ELSE proc' = [proc EXCEPT ![g] = [at |-> "solve", host |-> @.host]]

ReadPem(g) ==
  LET h == proc[g].host
  IN  /\ proc[g].at = "pem"
      /\ \/ pem[h] = Unreadable /\ LoadFailed(g)
         \/ /\ pem[h] # Unreadable
            /\ proc' = [proc EXCEPT ![g] = [at |-> "key", host |-> h, cert |-> pem[h]]]
      /\ UNCHANGED <<up, dns, mem, pem, key, due, web, txt, mixed>>

ReadKey(g) ==
  LET h == proc[g].host
  IN  /\ proc[g].at = "key"
      /\ \/ key[h] = NoKey /\ LoadFailed(g)
         \/ /\ key[h] # NoKey /\ g # Renewer
            /\ proc' = [proc EXCEPT ![g] =
                          [at |-> "cache", host |-> h, cert |-> @.cert, key |-> key[h]]]
         \/ /\ key[h] # NoKey /\ g = Renewer /\ Due(proc[g].cert)
            /\ proc' = [proc EXCEPT ![g] = [at |-> "solve", host |-> h]]
         \/ key[h] # NoKey /\ g = Renewer /\ ~Due(proc[g].cert) /\ End(g)
      /\ UNCHANGED <<up, dns, mem, pem, key, due, web, txt, mixed>>

\* certFor: m.certs[host] = c, whatever the map holds by now.
Cache(g) ==
  /\ proc[g].at = "cache"
  /\ mem' = [mem EXCEPT ![proc[g].host] = [cert |-> proc[g].cert, key |-> proc[g].key]]
  /\ End(g)
  /\ UNCHANGED <<up, dns, pem, key, due, web, txt, mixed>>

-----------------------------------------------------------------------------
(* ObtainForHost: the order.  A goroutine has one at a time; what finished
   orders have left in `challenges' and in the DNS is not looked at again, for
   a new order has a new token, and is left out. *)

\* Faulty: the response is removed when solveHTTP01 returns.
FaultySolveHTTP01Unregisters(g) ==
  /\ proc[g].at = "solve" /\ ~dns
  /\ Goto(g, "accept")
  /\ UNCHANGED <<up, dns, mem, pem, key, due, web, txt, mixed>>

\* The account is registered, the CA has opened an authorization, and the
\* response to its challenge is there to be asked for.
SolveHTTP01(g) ==
  /\ proc[g].at = "solve" /\ ~dns
  /\ web' = web \cup {g}
  /\ Goto(g, "accept")
  /\ UNCHANGED <<up, dns, mem, pem, key, due, txt, mixed>>

SetTXT(g) ==
  /\ proc[g].at = "solve" /\ dns
  /\ txt' = txt \cup {g}
  /\ Goto(g, "clean")
  /\ UNCHANGED <<up, dns, mem, pem, key, due, web, mixed>>

\* What is left of the TXT records after RemoveRRset: it takes the values of all
\* orders for the host.
RemoveRRset(h) == {f \in txt : ~At(f, Ordering, h)}

\* solveDNS01's deferred DeleteTXT, whose error is ignored.
DeleteTXT(g) ==
  /\ proc[g].at = "clean"
  /\ txt' \in {txt, RemoveRRset(proc[g].host)}
  /\ Goto(g, "accept")
  /\ UNCHANGED <<up, dns, mem, pem, key, due, web, mixed>>

InUse == {mem[h].cert.serial : h \in Hosts} \cup {mem[h].key : h \in Hosts}
           \cup {pem[h].serial : h \in Hosts} \cup {key[h] : h \in Hosts}
           \cup {proc[g].cert.serial : g \in {f \in Goroutines : proc[f].at \in Holding}}
           \cup {proc[g].key : g \in {f \in Goroutines : proc[f].at = "cache"}}

\* The CA can find the response to the challenge: ChallengeHandler serves it, or
\* a TXT record does, which may have lingered on a secondary server.
Answered(g) == g \in web \/ dns

\* Faulty: the map has the certificate before saveToDisk.
FaultyCreateCertKeeps(g) ==
  LET new == CHOOSE s \in Serials \ InUse : TRUE
  IN  /\ proc[g].at = "accept"
      /\ Answered(g)
      /\ Serials \ InUse # {}
      /\ proc' = [proc EXCEPT ![g] = [at |-> "cut pem", host |-> @.host,
                                     cert |-> [serial |-> new, left |-> Lifetime]]]
      /\ mem' = [mem EXCEPT ![proc[g].host] =
                   [cert |-> [serial |-> new, left |-> Lifetime], key |-> new]]
      /\ web' = web \ {g} /\ txt' = txt \ {g}
      /\ Share(g, proc[g].host)
      /\ UNCHANGED <<up, dns, pem, key, due>>

\* Accept, WaitAuthorization and CreateCert, with a key of its own.
CreateCert(g) ==
  /\ proc[g].at = "accept"
  /\ Answered(g)
  /\ Serials \ InUse # {}
  /\ proc' = [proc EXCEPT ![g] = [at |-> "cut pem", host |-> @.host, cert |->
                [serial |-> CHOOSE s \in Serials \ InUse : TRUE, left |-> Lifetime]]]
  /\ web' = web \ {g} /\ txt' = txt \ {g}
  /\ Share(g, proc[g].host)
  /\ UNCHANGED <<up, dns, mem, pem, key, due>>

\* An error of the CA or of the DNS provider, or the two minutes are over.
GiveUp(g) ==
  /\ proc[g].at \in Ordering \ {"clean"}
  /\ End(g)
  /\ web' = web \ {g} /\ txt' = txt \ {g}
  /\ UNCHANGED <<up, dns, mem, pem, key, due, mixed>>

-----------------------------------------------------------------------------
(* ObtainForHost: saveToDisk, and the map. *)

CutPem(g) ==
  /\ proc[g].at = "cut pem"
  /\ pem' = [pem EXCEPT ![proc[g].host] = Unreadable]
  /\ Goto(g, "fill pem")
  /\ UNCHANGED <<up, dns, mem, key, due, web, txt, mixed>>

FillPem(g) ==
  /\ proc[g].at = "fill pem"
  /\ pem' = [pem EXCEPT ![proc[g].host] = proc[g].cert]
  /\ Goto(g, "cut key")
  /\ UNCHANGED <<up, dns, mem, key, due, web, txt, mixed>>

CutKey(g) ==
  /\ proc[g].at = "cut key"
  /\ key' = [key EXCEPT ![proc[g].host] = NoKey]
  /\ Goto(g, "fill key")
  /\ UNCHANGED <<up, dns, mem, pem, due, web, txt, mixed>>

FillKey(g) ==
  /\ proc[g].at = "fill key"
  /\ key' = [key EXCEPT ![proc[g].host] = proc[g].cert.serial]
  /\ Goto(g, "keep")
  /\ UNCHANGED <<up, dns, mem, pem, due, web, txt, mixed>>

\* os.WriteFile fails, before or after it has truncated the file.
SaveFailed(g) ==
  /\ proc[g].at \in Saving \ {"keep"}
  /\ mixed' = mixed \cup {h \in Hosts : At(g, {"cut key"}, h)}
  /\ End(g)
  /\ UNCHANGED <<up, dns, mem, pem, key, due, web, txt>>

\* Faulty: the key is the one last read from disk.
FaultyKeepOldKey(g) ==
  /\ proc[g].at = "keep"
  /\ mem' = [mem EXCEPT ![proc[g].host] =
               [cert |-> proc[g].cert, key |-> IF @ = Absent THEN proc[g].cert.serial ELSE @.key]]
  /\ End(g)
  /\ UNCHANGED <<up, dns, pem, key, due, web, txt, mixed>>

\* m.certs[host] = cert.  A handshake loads the files once more, for itself.
Keep(g) ==
  /\ proc[g].at = "keep"
  /\ mem' = [mem EXCEPT ![proc[g].host] = [cert |-> proc[g].cert, key |-> proc[g].cert.serial]]
  /\ End(g)
  /\ UNCHANGED <<up, dns, pem, key, due, web, txt, mixed>>

-----------------------------------------------------------------------------

Load(g) == ReadPem(g) \/ ReadKey(g) \/ Cache(g)
Solve(g) == SolveHTTP01(g) \/ SetTXT(g) \/ DeleteTXT(g)
Save(g) == CutPem(g) \/ FillPem(g) \/ CutKey(g) \/ FillKey(g)

Next ==
  \/ Start \/ Crash \/ Tick
  \/ \E g \in Handshakes, h \in Hosts : Hello(g, h)
  \/ RenewAll
  \/ \E h \in Hosts : Visit(h)
  \/ \E g \in Goroutines :
       \/ Load(g) \/ Solve(g) \/ CreateCert(g)
       \/ Save(g) \/ Keep(g) \/ GiveUp(g) \/ SaveFailed(g)

Spec == Init /\ [][Next]_vars

\* The ticker of RenewalLoop ticks once a day, and every call in it returns.
\* What the loop asks of the CA and of the disk may fail, but not for ever, and a
\* handshake that has begun to save comes to an end of it.
FairSpec ==
  /\ Spec
  /\ WF_vars(RenewAll \/ (\E h \in Hosts : Visit(h)) \/ Load(Renewer) \/ Keep(Renewer))
  /\ SF_vars(Solve(Renewer)) /\ SF_vars(CreateCert(Renewer)) /\ SF_vars(Save(Renewer))
  /\ \A g \in Handshakes : WF_vars(Save(g) \/ Keep(g) \/ SaveFailed(g))

-----------------------------------------------------------------------------
(* Properties. *)

\* Every variable has its type; what a goroutine knows goes with where it is.
TypeOK ==
  /\ up \in BOOLEAN /\ dns \in BOOLEAN
  /\ mem \in [Hosts -> {Absent} \cup [cert : Cert, key : Serials]]
  /\ pem \in [Hosts -> {Unreadable} \cup Cert]
  /\ key \in [Hosts -> {NoKey} \cup Serials]
  /\ proc \in [Goroutines -> {Idle} \cup [at : {"pem"} \cup Ordering, host : Hosts]
                   \cup [at : {"key"} \cup Saving, host : Hosts, cert : Cert]
                   \cup [at : {"cache"}, host : Hosts, cert : Cert, key : Serials]]
  /\ due \subseteq Hosts /\ web \subseteq Goroutines
  /\ txt \subseteq Goroutines /\ mixed \subseteq Hosts

\* manager.go:85: a Cert is "a leaf certificate + matching private key".  It is,
\* in memory and on disk, for every host whose files no two goroutines have
\* used at a time, through errors, restarts and renewals; and a save cut short
\* does harm only between its two files.
PairsMatch ==
  \A h \in Hosts \ mixed :
    /\ mem[h].cert.serial = mem[h].key
    /\ Readable(h) /\ (\A g \in Goroutines : ~At(g, Saving, h)) => pem[h].serial = key[h]

\* The pair of a host in use is the one a restart finds, whenever nobody is
\* saving: memory is set after the files (manager.go:319-328), and a save that
\* failed leaves files that cannot be read or, between its two files, a host
\* that counts as mixed.  So a restart does not bring back what was replaced.
RestartServesSame ==
  \A h \in Hosts \ mixed :
    mem[h] # Absent /\ Readable(h) /\ (\A g \in Goroutines : ~At(g, Saving, h))
      => mem[h].cert.serial = pem[h].serial

\* From the moment the CA is asked to validate an HTTP challenge until it has
\* done so combinedHandler would answer it, whatever other orders come and go meanwhile.
ResponseUpWhenAsked ==
  \A g \in Goroutines : proc[g].at = "accept" /\ ~dns => g \in web

\* What a failed save leaves: files that cannot be read, or do not match, and
\* nobody at work on them.
Broken(h) ==
  /\ \A g \in Goroutines : ~At(g, Saving, h)
  /\ Readable(h) => pem[h].serial # key[h]
SavesKeepFailing == []<><<\E g \in Goroutines : SaveFailed(g)>>_vars

PairDue(h) == Readable(h) /\ pem[h].serial = key[h] /\ pem[h].left < RenewBefore

=============================================================================
