------------------------------ MODULE CliCert ------------------------------
(***************************************************************************)
(* The client `minica cert' (cli/main.go).  A run is a sequence of HTTP    *)
(* requests about one common name,                                         *)
(*                                                                         *)
(*   idle -> getting -> [expiring -> renewing] -> downloading -> fetching  *)
(*        -> saving -> idle                                                *)
(*   idle -> absent -> creating -> fetching -> saving -> idle              *)
(*                                                                         *)
(* and other runs and admins change the certificates between any two of    *)
(* them.  A request that changes something is a job of the server: it is   *)
(* checked, and committed or not some time later, whether or not the client *)
(* still waits for the answer (it gives up after 60 seconds).              *)
(*                                                                         *)
(* All runs save under one name into one directory.  The days a leaf loses *)
(* to signing, and the lock and the openssl state of the CA are modelled   *)
(* in Validity and CaSigning.                                              *)
(***************************************************************************)
EXTENDS Integers, FiniteSets

CONSTANTS
  Clients,      \* processes that run `minica cert'
  Ids,          \* ids of certificates
  DayLen,       \* msPerDay, in ticks
  RenewWithin,  \* renewWithinDays
  RenewDays,    \* renewDays
  AskedDays,    \* days that a user or an admin asks for
  CaEnds,       \* when the CA certificate may expire
  Horizon,      \* bound on the clock
  MaxJobs,      \* bound on the jobs at once
  LastFile,     \* the files of saveBundle: .pem, .key, .p12, .p12.password
  None          \* no client, no certificate

ASSUME CliAssumption ==
  /\ DayLen \in Nat \ {0}
  /\ RenewWithin \in Nat
  /\ RenewDays \in Nat /\ RenewWithin <= RenewDays
  /\ AskedDays \subseteq Nat \ {0}
  /\ CaEnds \subseteq Nat
  /\ Horizon \in Nat
  /\ MaxJobs \in Nat
  /\ LastFile \in Nat \ {0, 1}
  /\ None \notin Clients \union Ids

VARIABLES
  now,     \* the clock
  caEnd,   \* notAfter of the CA certificate
  rows,    \* the certificates of the common name
  jobs,    \* what the server is working on
  pc,      \* where each run is
  mem,     \* what it knows
  disk,    \* whose each file in the directory is
  torn     \* audit: a save was cut short or disturbed, and no whole one came after

server == <<caEnd, rows, jobs>>
vars == <<now, server, pc, mem, disk, torn>>

(* A certificate row.  Audit: a renewal that was checked against an older   *)
(* row has moved the expiry back.                                           *)
Row == [deleted : BOOLEAN, revoked : BOOLEAN, issue : Nat, days : Nat, fell : BOOLEAN]

NoRow == [days |-> 0]

Exists(i) == rows[i] # NoRow
Active(i) == Exists(i) /\ ~rows[i].deleted
Expiry(row) == row.issue + row.days * DayLen

(* The server has checked create_cert or renew_cert for `client' (None when *)
(* nobody waits), and is before the commit.  A renewal stores the time of   *)
(* its check.                                                               *)
Job == [op : {"create", "renew"}, client : Clients \union {None}, cert : Ids,
        at : Nat, days : Nat]

(* What a run knows: the id, and how many files it has saved.  Audit: the   *)
(* .pem is to last until `due' (0 for no promise); no other run was saving. *)
Mem == [id : Ids \union {None}, saved : 0..LastFile, due : Nat, alone : BOOLEAN]

NoMem == [id |-> None, saved |-> 0, due |-> 0, alone |-> FALSE]

Pc == {"idle", "absent", "creating", "getting", "expiring", "renewing",
       "downloading", "fetching", "saving"}

\* saveBundle writes them in this order; CA.pem, the last, is the same for all.
File == 1..LastFile

Init ==
  /\ now = 0
  /\ caEnd \in CaEnds
  /\ rows = [i \in Ids |-> NoRow]
  /\ jobs = {}
  /\ pc = [c \in Clients |-> "idle"]
  /\ mem = [c \in Clients |-> NoMem]
  /\ disk = [f \in File |-> None]
  /\ torn = FALSE

----------------------------------------------------------------------------
(* The server.                                                              *)

(* clamp_to_ca_validity: whole days left of the CA, at least one.           *)
DaysLeft == (caEnd - now) \div DayLen
CanIssue == now <= caEnd /\ DaysLeft >= 1
Clamp(days) == IF days > DaysLeft THEN DaysLeft ELSE days

(* renew_cert: the row is active and not revoked, and the renewal would     *)
(* extend it.                                                               *)
Extends(i, days) == now + Clamp(days) * DayLen > Expiry(rows[i])

Renewable(i) == Active(i) /\ ~rows[i].revoked /\ CanIssue

RenewJob(i, days, client) ==
  [op |-> "renew", client |-> client, cert |-> i, at |-> now,
   days |-> Clamp(days)]

AddJob(j) ==
  /\ Cardinality(jobs) < MaxJobs
  /\ jobs' = jobs \union {j}

\* A new id (short_id).
Fresh(i) == ~Exists(i) /\ \A j \in jobs : j.cert # i

\* Nobody waits for the answers to c any more.
Abandoned(c) == {[j EXCEPT !.client = IF @ = c THEN None ELSE @] : j \in jobs}

NewRow(j) ==
  [deleted |-> FALSE, revoked |-> FALSE, issue |-> now, days |-> j.days,
   fell |-> FALSE]

RenewedRow(j) ==
  [rows[j.cert] EXCEPT
     !.issue = j.at, !.days = j.days,
     !.fell = @ \/ j.at + j.days * DayLen < Expiry(rows[j.cert])]

(* insert_cert_with_state; update_cert_with_state, which refuses rows that  *)
(* were deleted or revoked meanwhile.                                       *)
Stored(j) ==
  IF j.op = "create" THEN [rows EXCEPT ![j.cert] = NewRow(j)]
  ELSE [rows EXCEPT ![j.cert] = RenewedRow(j)]

CanCommit(j) == j.op = "renew" => Active(j.cert) /\ ~rows[j.cert].revoked

Goto(c, to) == pc' = [pc EXCEPT ![c] = to]

(* The answer to a create has the certificate and the key.                  *)
Answer(j) ==
  IF j.client = None THEN UNCHANGED <<pc, mem>>
  ELSE /\ Goto(j.client, IF j.op = "create" THEN "fetching" ELSE "downloading")
       /\ mem' = [mem EXCEPT ![j.client].id = j.cert]

Commit(j) ==
  /\ j \in jobs
  /\ CanCommit(j)
  /\ rows' = Stored(j)
  /\ jobs' = jobs \ {j}
  /\ Answer(j)
  /\ UNCHANGED <<now, caEnd, disk, torn>>

(* The lock, openssl or the commit fails, or the server dies.  A failed     *)
(* renewal is only a warning; the present certificate is downloaded.        *)
Refused(c) ==
  /\ Goto(c, "downloading")
  /\ mem' = [mem EXCEPT ![c].due = 0]

Drop(j) ==
  /\ j \in jobs
  /\ jobs' = jobs \ {j}
  /\ IF j.client = None THEN UNCHANGED <<pc, mem>>
     ELSE IF j.op = "renew" THEN Refused(j.client)
     ELSE /\ Goto(j.client, "idle")
          /\ mem' = [mem EXCEPT ![j.client] = NoMem]
  /\ UNCHANGED <<now, caEnd, rows, disk, torn>>

(* Admins, in the web UI or through the API.                                *)
Revoke(i) ==
  /\ Active(i) /\ ~rows[i].revoked
  /\ rows' = [rows EXCEPT ![i].revoked = TRUE]
  /\ UNCHANGED <<now, caEnd, jobs, pc, mem, disk, torn>>

Delete(i) ==
  /\ Active(i)
  /\ rows' = [rows EXCEPT ![i].deleted = TRUE]
  /\ UNCHANGED <<now, caEnd, jobs, pc, mem, disk, torn>>

Restore(i) ==
  /\ Exists(i) /\ rows[i].deleted
  /\ \A k \in Ids : ~Active(k)
  /\ rows' = [rows EXCEPT ![i].deleted = FALSE]
  /\ UNCHANGED <<now, caEnd, jobs, pc, mem, disk, torn>>

AdminRenews(i, days) ==
  /\ Renewable(i) /\ Extends(i, days)
  /\ AddJob(RenewJob(i, days, None))
  /\ UNCHANGED <<now, caEnd, rows, pc, mem, disk, torn>>

----------------------------------------------------------------------------
(* The client (runCert).                                                    *)
(* findCertIDByCN: any certificate of the name, or none.                    *)
Probe(c) ==
  /\ pc[c] = "idle"
  /\ \/ \E i \in Ids :
           /\ Active(i)
           /\ mem' = [mem EXCEPT ![c].id = i]
           /\ Goto(c, "getting")
     \/ /\ \A i \in Ids : ~Active(i)
        /\ Goto(c, "absent")
        /\ UNCHANGED mem
  /\ UNCHANGED <<now, server, disk, torn>>

(* needsRenew                                                               *)
NeedsRenewLate(row) == Expiry(row) < now   \* mutant: only after it has expired

NeedsRenew(row) == Expiry(row) - now < RenewWithin * DayLen

(* getCert: a revoked certificate ends the run (Stop).                      *)
Inspect(c) ==
  /\ pc[c] = "getting"
  /\ Active(mem[c].id) /\ ~rows[mem[c].id].revoked
  /\ mem' = [mem EXCEPT ![c].due = now + RenewWithin * DayLen]
  /\ Goto(c, IF NeedsRenew(rows[mem[c].id]) THEN "expiring" ELSE "downloading")
  /\ UNCHANGED <<now, server, disk, torn>>

(* renewCert: the server accepts.                                           *)
SendRenew(c) ==
  /\ pc[c] = "expiring"
  /\ Renewable(mem[c].id) /\ Extends(mem[c].id, RenewDays)
  /\ AddJob(RenewJob(mem[c].id, RenewDays, c))
  /\ Goto(c, "renewing")
  /\ UNCHANGED <<now, caEnd, rows, mem, disk, torn>>

(* The server refuses what would not extend the certificate, because        *)
(* another run has renewed it or the CA expires first.                      *)
RenewPointless(c) ==
  /\ pc[c] = "expiring"
  /\ Renewable(mem[c].id) /\ ~Extends(mem[c].id, RenewDays)
  /\ Goto(c, "downloading")
  /\ UNCHANGED <<now, server, mem, disk, torn>>

(* Any other error, or no answer for 60 seconds.                            *)
RenewFails(c) ==
  /\ pc[c] \in {"expiring", "renewing"}
  /\ Refused(c)
  /\ jobs' = Abandoned(c)
  /\ UNCHANGED <<now, caEnd, rows, disk, torn>>

(* createCert, when the server finds the name free.                         *)
SendCreate(c, i, days) ==
  /\ pc[c] = "absent"
  /\ \A k \in Ids : ~Active(k)
  /\ CanIssue
  /\ Fresh(i)
  /\ AddJob([op |-> "create", client |-> c, cert |-> i, at |-> now, days |-> Clamp(days)])
  /\ Goto(c, "creating")
  /\ UNCHANGED <<now, caEnd, rows, mem, disk, torn>>

(* download: the .pem is the first, as it is now.                           *)
Download(c) ==
  /\ pc[c] = "downloading"
  /\ Active(mem[c].id)
  /\ mem' = [mem EXCEPT ![c].due = 0]
  /\ Goto(c, "fetching")
  /\ UNCHANGED <<now, server, disk, torn>>

(* saveBundle, after the other parts were downloaded by the id: key and     *)
(* password, which renewals keep, and the bundle.  Each file is replaced by *)
(* a rename (writeFileAtomic).                                              *)
WriteMissing(c, f) == [disk EXCEPT ![f] = IF @ = None THEN mem[c].id ELSE @]   \* mutant

Write(c, f) == [disk EXCEPT ![f] = mem[c].id]

Saving(c) == pc[c] = "saving"

BeginSave(c) ==
  LET alone == \A d \in Clients \ {c} : ~Saving(d)
  IN /\ pc[c] = "fetching"
     /\ Active(mem[c].id)
     /\ disk' = Write(c, 1)
     /\ mem' = [d \in Clients |->
                  IF d = c THEN [mem[c] EXCEPT !.saved = 1, !.alone = alone]
                  ELSE [mem[d] EXCEPT !.alone = FALSE]]
     /\ torn' = (torn \/ ~alone)
     /\ Goto(c, "saving")
     /\ UNCHANGED <<now, server>>

Save(c) ==
  /\ Saving(c) /\ mem[c].saved < LastFile - 1
  /\ disk' = Write(c, mem[c].saved + 1)
  /\ mem' = [mem EXCEPT ![c].saved = @ + 1]
  /\ UNCHANGED <<now, server, pc, torn>>

SaveLast(c) ==
  /\ Saving(c) /\ mem[c].saved = LastFile - 1
  /\ disk' = Write(c, LastFile)
  /\ mem' = [mem EXCEPT ![c] = NoMem]
  /\ torn' = (torn /\ ~mem[c].alone)
  /\ Goto(c, "idle")
  /\ UNCHANGED <<now, server>>

(* An error ends the run, or it is killed, at any point.                    *)
Stop(c) ==
  /\ pc[c] # "idle"
  /\ Goto(c, "idle")
  /\ mem' = [mem EXCEPT ![c] = NoMem]
  /\ jobs' = Abandoned(c)
  /\ torn' = (torn \/ Saving(c))
  /\ UNCHANGED <<now, caEnd, rows, disk>>

Tick ==
  /\ now < Horizon
  /\ now' = now + 1
  /\ UNCHANGED <<server, pc, mem, disk, torn>>

Admin ==
  \E i \in Ids :
     \/ Revoke(i) \/ Delete(i) \/ Restore(i)
     \/ \E days \in AskedDays : AdminRenews(i, days)

Run(c) ==
  \/ Probe(c) \/ Inspect(c)
  \/ SendRenew(c) \/ RenewPointless(c) \/ RenewFails(c)
  \/ \E i \in Ids, days \in AskedDays : SendCreate(c, i, days)
  \/ Download(c) \/ BeginSave(c) \/ Save(c) \/ SaveLast(c) \/ Stop(c)

Next ==
  \/ \E c \in Clients : Run(c)
  \/ \E j \in jobs : Commit(j) \/ Drop(j)
  \/ Admin
  \/ Tick

Spec == Init /\ [][Next]_vars

----------------------------------------------------------------------------
(* Properties.                                                              *)

(* The variables have their types; a run that waits has its job, and a job  *)
(* answers a run that waits for it (http.Client).                           *)
TypeOK ==
  /\ now \in Nat /\ caEnd \in Nat
  /\ rows \in [Ids -> Row \union {NoRow}]
  /\ jobs \subseteq Job
  /\ pc \in [Clients -> Pc]
  /\ mem \in [Clients -> Mem]
  /\ disk \in [File -> Ids \union {None}]
  /\ torn \in BOOLEAN
  /\ \A c \in Clients :
        /\ pc[c] = "creating" <=> \E j \in jobs : j.client = c /\ j.op = "create"
        /\ pc[c] = "renewing" <=> \E j \in jobs : j.client = c /\ j.op = "renew"
        /\ pc[c] \in {"getting", "expiring", "renewing", "downloading", "fetching", "saving"}
             => mem[c].id # None

(* "Renew before downloading if the existing certificate is close to        *)
(* expiry, so the downloaded artifacts carry the renewed validity": what is *)
(* downloaded lasts renewWithinDays, or to within a day of the CA's end, unless *)
(* the renewal failed or an overlapping one moved the expiry back (runCert). *)
LastsAWhile ==
  [][\A c \in Clients : pc[c] = "downloading" /\ pc'[c] = "fetching" =>
       LET row == rows[mem[c].id]
       IN \/ Expiry(row) >= mem[c].due
          \/ Expiry(row) > caEnd - DayLen
          \/ row.fell]_vars

(* The files in the directory are of one certificate, so the key fits the   *)
(* certificate and the password opens the bundle, unless a run is saving,   *)
(* or one was cut short or disturbed and no whole save came after it        *)
(* (saveBundle).                                                            *)
FilesFit ==
  ~torn /\ (\A c \in Clients : ~Saving(c)) => \A f, g \in File : disk[f] = disk[g]
=============================================================================
