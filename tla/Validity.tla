------------------------------ MODULE Validity ------------------------------
(***************************************************************************)
(* How long certificates are valid (service.rs): days are counted, clamped *)
(* to the life of the CA and compared with the life of the certificate to  *)
(* replace; openssl then counts the days again from the moment it signs;   *)
(* the database keeps issue_time and valid_days beside the PEM.  All this  *)
(* happens at different moments, and other requests come in between.       *)
(*                                                                         *)
(* One CA, its leaf certificates, the clock, the signing lock, the         *)
(* requests that issue, import and renew, and repair_stale_metadata, which *)
(* rewrites rows from certificates.  CAs do not share certificates or      *)
(* locks, so one CA shows what there is to see.                            *)
(***************************************************************************)
EXTENDS Integers

CONSTANTS
  Requests,   \* requests; also the ids of the certificates they create
  DayLen,     \* the 86_400_000 ms of a day, in ticks
  MaxDays,    \* the most days validate_days accepts (7350)
  LockTtl,    \* the 120_000 ms of acquire_ca_lock, in ticks
  CaDays,     \* the days the CA certificate was made for
  Horizon,    \* bound on the clock
  Stored,     \* ids of the certificates imported before
  Imports,    \* certificates of this CA's key that may be imported
  NoOwner     \* the lock is free

ASSUME ConstantsAssumption ==
  /\ DayLen \in Nat \ {0}
  /\ MaxDays \in Nat \ {0}
  /\ LockTtl \in Nat
  /\ CaDays \in Nat \ {0}
  /\ Horizon \in Nat
  /\ NoOwner \notin Requests
  /\ Stored \intersect Requests = {}

VARIABLES
  now,     \* the clock
  ca,      \* the CA row: its certificate, issue_time and valid_days, meta_version
  certs,   \* the certificate rows
  lock,    \* the row of ca_locks: owner and expires_at
  pc,      \* where each request is
  mem      \* what it has read and computed

vars == <<now, ca, certs, lock, pc, mem>>

Ids == Requests \union Stored

Days == 1..MaxDays

\* notBefore and notAfter of a certificate.
Pem == [from : Int, to : Int]

ASSUME ImportsAssumption == Imports \subseteq {p \in Pem : p.from < p.to}

\* issue_time and valid_days of a row.
Row == [issue : Int, days : Nat]

Expiry(row) == row.issue + row.days * DayLen

Ca == [pem : Pem, row : Row, checked : BOOLEAN]

(* A certificate row.  `lag' is an audit variable: the time from the check  *)
(* of its days to the end of the request that signed it, 0 for an import.   *)
Cert == [pem : Pem, row : Row, lag : Nat]

NoCert == [lag |-> -1]

Exists(i) == certs[i] # NoCert

(* A request: what it is asked, the row and the CA certificate it has read, *)
(* when it checked, and the certificate openssl made for it.                *)
Mem == [op : {"create_cert", "import_cert", "renew_cert", "renew_ca", "repair"},
        cert : Ids, days : Days, row : Row, ca : Pem, at : Nat, pem : Pem]

NoMem == [op |-> "none"]

Pc == {"idle", "asked", "read", "checked", "locked", "signing", "signed",
       "listed", "ended"}

----------------------------------------------------------------------------
(* validity_from_info: the dates of the certificate, its life rounded up to *)
(* whole days.                                                              *)
ValidityFromInfo(pem) ==
  LET days == (pem.to - pem.from + DayLen - 1) \div DayLen
  IN [issue |-> pem.from, days |-> IF days < 1 THEN 1 ELSE days]

(* `openssl ... -days'                                                      *)
Signed(days) == [from |-> now, to |-> now + days * DayLen]

(* clamp_to_ca_validity: whole days left of the CA.                         *)
DaysLeftUp(pem) == (pem.to - now + DayLen - 1) \div DayLen   \* mutant: rounds up

DaysLeft(pem) == (pem.to - now) \div DayLen

Clamp(pem, days) == IF days > DaysLeft(pem) THEN DaysLeft(pem) ELSE days

(* "the CA certificate expires within a day; it can no longer issue"        *)
CanIssue(pem) == DaysLeft(pem) >= 1

(* The proposed expiry must be later than that of the row.                  *)
ExtendsOrEquals(days, expiry) == now + days * DayLen >= expiry   \* mutant

Extends(days, expiry) == now + days * DayLen > expiry

ImportedCert(pem) == [pem |-> pem, row |-> ValidityFromInfo(pem), lag |-> 0]

(* A CA row whose certificate an earlier version imported says it was       *)
(* issued at the import, for 3650 days; a restored row is right but         *)
(* unchecked.                                                               *)
FabricatedRow == [issue |-> 0, days |-> 2 * CaDays]

Init ==
  /\ now = 0
  /\ ca \in [pem : {[from |-> 0, to |-> CaDays * DayLen]},
             row : {[issue |-> 0, days |-> CaDays], FabricatedRow},
             checked : BOOLEAN]
  /\ ca.checked => ca.row # FabricatedRow
  /\ certs \in [Ids -> {ImportedCert(pem) : pem \in Imports} \union {NoCert}]
  /\ \A i \in Ids : Exists(i) <=> i \in Stored
  /\ lock = [owner |-> NoOwner, until |-> 0]
  /\ pc = [r \in Requests |-> "idle"]
  /\ mem = [r \in Requests |-> NoMem]

----------------------------------------------------------------------------
(* Steps common to the requests.                                            *)
Goto(r, to) == pc' = [pc EXCEPT ![r] = to]

End(r) == Goto(r, "ended") /\ mem' = [mem EXCEPT ![r] = NoMem]

Start(r, op, i, days, row, to) ==
  /\ pc[r] = "idle"
  /\ Goto(r, to)
  /\ mem' = [mem EXCEPT ![r] =
               [op |-> op, cert |-> i, days |-> days, row |-> row, ca |-> ca.pem,
                at |-> now, pem |-> ca.pem]]
  /\ UNCHANGED <<now, ca, certs, lock>>

(* create_cert reads the CA certificate.                                    *)
BeginCreateCert(r, days) == Start(r, "create_cert", r, days, ca.row, "read")

(* renew_cert reads the row of the certificate, then the CA certificate.    *)
BeginRenewCert(r, i, days) ==
  /\ Exists(i)
  /\ Start(r, "renew_cert", i, days, certs[i].row, "asked")

ReadCa(r) ==
  /\ pc[r] = "asked"
  /\ mem' = [mem EXCEPT ![r].ca = ca.pem]
  /\ Goto(r, "read")
  /\ UNCHANGED <<now, ca, certs, lock>>

(* renew_ca reads nothing that matters before it has the lock.              *)
BeginRenewCa(r, days) == Start(r, "renew_ca", r, days, ca.row, "checked")

(* import_cert_with                                                         *)
BeginImportCert(r, pem) ==
  /\ pc[r] = "idle"
  /\ Goto(r, "checked")
  /\ mem' = [mem EXCEPT ![r] =
               [op |-> "import_cert", cert |-> r, days |-> 1,
                row |-> ca.row, ca |-> ca.pem, at |-> now, pem |-> pem]]
  /\ UNCHANGED <<now, ca, certs, lock>>

(* Without the lock: the days are clamped, which fails in the last day of   *)
(* the CA, and a renewal must extend the row that was read.                 *)
Check(r) ==
  LET days == Clamp(mem[r].ca, mem[r].days)
  IN /\ pc[r] = "read"
     /\ CanIssue(mem[r].ca)
     /\ mem[r].op = "renew_cert" => Extends(days, Expiry(mem[r].row))
     /\ mem' = [mem EXCEPT ![r].days = days, ![r].at = now]
     /\ Goto(r, "checked")
     /\ UNCHANGED <<now, ca, certs, lock>>

(* acquire_ca_lock: the row is free or has expired.                         *)
Acquire(r) ==
  /\ pc[r] = "checked"
  /\ lock.owner = NoOwner \/ lock.until < now
  /\ lock' = [owner |-> r, until |-> now + LockTtl]
  /\ Goto(r, "locked")
  /\ UNCHANGED <<now, ca, certs, mem>>

(* openssl signs a leaf for the days that were checked.                     *)
SignLeaf(r) ==
  /\ pc[r] = "locked"
  /\ mem[r].op \in {"create_cert", "renew_cert"}
  /\ mem' = [mem EXCEPT ![r].pem = Signed(mem[r].days)]
  /\ Goto(r, "signed")
  /\ UNCHANGED <<now, ca, certs, lock>>

(* `openssl verify' accepts an import: it and the CA are valid now.         *)
VerifyImport(r) ==
  /\ pc[r] = "locked"
  /\ mem[r].op = "import_cert"
  /\ mem[r].pem.from <= now /\ now <= mem[r].pem.to /\ now <= ca.pem.to
  /\ Goto(r, "signed")
  /\ UNCHANGED <<now, ca, certs, lock, mem>>

(* renew_ca reads the CA certificate under the lock and must extend it.     *)
CheckCa(r) ==
  /\ pc[r] = "locked"
  /\ mem[r].op = "renew_ca"
  /\ Extends(mem[r].days, ca.pem.to)
  /\ mem' = [mem EXCEPT ![r].ca = ca.pem, ![r].at = now]
  /\ Goto(r, "signing")
  /\ UNCHANGED <<now, ca, certs, lock>>

SignCa(r) ==
  /\ pc[r] = "signing"
  /\ mem' = [mem EXCEPT ![r].pem = Signed(mem[r].days)]
  /\ Goto(r, "signed")
  /\ UNCHANGED <<now, ca, certs, lock>>

(* The commits verify the lock and release it.                              *)
VerifyNothing(r) == TRUE   \* mutant: a commit without verify_lock_tx

VerifyLock(r) == lock.owner = r

ReleaseLock(r) ==
  IF lock.owner = r THEN [lock EXCEPT !.owner = NoOwner] ELSE lock

Committing(r, ops) ==
  /\ pc[r] = "signed"
  /\ mem[r].op \in ops
  /\ VerifyLock(r)
  /\ lock' = ReleaseLock(r)
  /\ End(r)
  /\ UNCHANGED now

(* issue_time of a new certificate is read after openssl has signed it.     *)
CommitCreateCert(r) ==
  /\ Committing(r, {"create_cert"})
  /\ \E t \in mem[r].pem.from..now :
        certs' = [certs EXCEPT ![r] =
                    [pem |-> mem[r].pem, row |-> [issue |-> t, days |-> mem[r].days],
                     lag |-> now - mem[r].at]]
  /\ UNCHANGED ca

CommitImportCert(r) ==
  /\ Committing(r, {"import_cert"})
  /\ certs' = [certs EXCEPT ![r] = ImportedCert(mem[r].pem)]
  /\ UNCHANGED ca

(* A renewal stores the time of its check as issue_time.                    *)
KeepIssueTime(r) ==   \* mutant: issue_time stays that of the first certificate
  [issue |-> mem[r].row.issue, days |-> mem[r].days]

RenewedRow(r) == [issue |-> mem[r].at, days |-> mem[r].days]

CommitRenewCert(r) ==
  /\ Committing(r, {"renew_cert"})
  /\ certs' = [certs EXCEPT ![mem[r].cert] =
                 [pem |-> mem[r].pem, row |-> RenewedRow(r), lag |-> now - mem[r].at]]
  /\ UNCHANGED ca

CommitRenewCa(r) ==
  /\ Committing(r, {"renew_ca"})
  /\ ca' = [ca EXCEPT !.pem = mem[r].pem, !.row = RenewedRow(r)]
  /\ UNCHANGED certs

(* A check, openssl or the lock refuses; the lock is released.              *)
Fail(r) ==
  /\ pc[r] \in {"asked", "read", "checked", "locked", "signing", "signed"}
  /\ lock' = ReleaseLock(r)
  /\ End(r)
  /\ UNCHANGED <<now, ca, certs>>

----------------------------------------------------------------------------
(* repair_stale_metadata: list_cas_for_repair reads the unchecked rows,     *)
(* openssl inspects the certificate, update_ca_meta_repaired writes the row *)
(* and marks it checked.  No step takes the lock.  It runs at the start and *)
(* once after a restore, while the server answers requests.                 *)
BeginRepair(r) ==
  /\ ~ca.checked
  /\ \A q \in Requests : pc[q] # "listed"
  /\ Start(r, "repair", r, 1, ca.row, "listed")

Distance(a, b) == IF a < b THEN b - a ELSE a - b

RepairedRow(row, pem) ==
  LET derived == ValidityFromInfo(pem)
  IN IF Distance(derived.issue, row.issue) > DayLen \/ derived.days # row.days
     THEN derived ELSE row

Repair(r) ==
  /\ pc[r] = "listed"
  /\ ca' = [ca EXCEPT !.row = RepairedRow(mem[r].row, mem[r].ca), !.checked = TRUE]
  /\ End(r)
  /\ UNCHANGED <<now, certs, lock>>

(* mark_ca_meta_checked: the certificate cannot be inspected.               *)
RepairSkips(r) ==
  /\ pc[r] = "listed"
  /\ ca' = [ca EXCEPT !.checked = TRUE]
  /\ End(r)
  /\ UNCHANGED <<now, certs, lock>>

Tick ==
  /\ now < Horizon
  /\ now' = now + 1
  /\ UNCHANGED <<ca, certs, lock, pc, mem>>

Begin(r) ==
  \/ \E days \in Days : \/ BeginCreateCert(r, days)
                        \/ \E i \in Ids : BeginRenewCert(r, i, days)
                        \/ BeginRenewCa(r, days)
  \/ \E pem \in Imports : BeginImportCert(r, pem)
  \/ BeginRepair(r)

Commit(r) ==
  CommitCreateCert(r) \/ CommitImportCert(r) \/ CommitRenewCert(r) \/ CommitRenewCa(r)

Next ==
  \/ \E r \in Requests :
        \/ Begin(r) \/ ReadCa(r) \/ Check(r) \/ Acquire(r)
        \/ SignLeaf(r) \/ VerifyImport(r) \/ CheckCa(r) \/ SignCa(r)
        \/ Commit(r) \/ Fail(r)
        \/ Repair(r) \/ RepairSkips(r)
  \/ Tick

Spec == Init /\ [][Next]_vars

----------------------------------------------------------------------------
(* Properties.                                                              *)

(* Every value has its type: the days of a request stay in 1..MaxDays after *)
(* clamping, and the audited lags are not negative.                         *)
TypeOK ==
  /\ now \in 0..Horizon
  /\ ca \in Ca
  /\ certs \in [Ids -> Cert \union {NoCert}]
  /\ lock \in [owner : Requests \union {NoOwner}, until : Int]
  /\ pc \in [Requests -> Pc]
  /\ mem \in [Requests -> Mem \union {NoMem}]

(* A leaf the server signed ends after its CA by no more than the request   *)
(* took (clamp_to_ca_validity, then signing), also when the CA was renewed  *)
(* meanwhile.                                                               *)
LeafCapped ==
  \A i \in Ids : Exists(i) /\ certs[i].lag > 0 =>
     certs[i].pem.to <= ca.pem.to + certs[i].lag

(* Renewing the CA always extends it: the check is made under the lock on   *)
(* the certificate that is replaced (renew_ca).                             *)
CaExtends ==
  [][ca'.pem # ca.pem => ca'.pem.to > ca.pem.to]_vars

(* A renewal that replaces the row it checked extends the certificate, up   *)
(* to the time the request that signed the old one took (renew_cert).       *)
RenewalExtendsAlone ==
  [][\A r \in Requests :
       CommitRenewCert(r) /\ mem[r].row = certs[mem[r].cert].row =>
          certs'[mem[r].cert].pem.to
            > certs[mem[r].cert].pem.to - certs[mem[r].cert].lag]_vars

(* What the row of a certificate says of its expiry is right up to the time *)
(* its request took, or up to the rounding of an import to whole days.      *)
CertRowAgrees ==
  \A i \in Ids : Exists(i) =>
     LET slack == IF certs[i].lag = 0 THEN DayLen - 1 ELSE certs[i].lag
     IN Distance(Expiry(certs[i].row), certs[i].pem.to) <= slack

----------------------------------------------------------------------------
(* What the code says and does not do.                                      *)

(* "re-derivation of stored metadata from the certificates themselves"      *)
(* (repair_stale_metadata): after it, the expiry the row states is that of  *)
(* the CA certificate within a day, also when the CA is renewed meanwhile.  *)
(* TLC refutes it: see the README.                                          *)
RepairRederives ==
  [][\A r \in Requests :
       Repair(r) => Distance(Expiry(ca'.row), ca'.pem.to) <= DayLen]_vars
=============================================================================
