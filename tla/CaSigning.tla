----------------------------- MODULE CaSigning -----------------------------
(***************************************************************************)
(* The signing subsystem as the program runs it (service.rs over db.rs and *)
(* openssl.rs).  The web layer runs each request on its own blocking       *)
(* thread; the database is one connection behind a mutex, so every method  *)
(* of Db is one atomic step and everything between two of them interleaves *)
(* with the other requests.  The operations that rewrite a CA's openssl    *)
(* state bracket it with a row of the table ca_locks that has an owner and *)
(* an expiry:                                                              *)
(*                                                                         *)
(*    idle -> locking -> locked -> [rechecked] -> read -> ready -> reply   *)
(*                                                                         *)
(* A request looks at the database without the lock (Begin...), takes the  *)
(* lock row or is told the CA is busy, reads the openssl state, runs       *)
(* openssl on a private copy (ready) and commits the result in one         *)
(* transaction that first verifies the lock row still names it as owner.   *)
(* Any failure on the way ends in `failing', where the lock is released.   *)
(*                                                                         *)
(* A request serves one operation and is never reused, so the request      *)
(* stands for the fresh UUID it uses as lock owner and for the fresh id of *)
(* the certificate it creates.                                             *)
(***************************************************************************)
EXTENDS OpensslCa, Integers

CONSTANTS
  Cas,          \* ids of certificate authorities
  Requests,     \* requests; also the ids of the certificates they create
  SeedCas,      \* the authorities that exist when the behaviour starts
  CrlEnabled,   \* config crl.enabled
  CaName,       \* the common name of each CA
  CnOf,         \* the (normalised) common name in each subject
  LockTtl,      \* the 120_000 ms of acquire_ca_lock, in ticks
  MaxLag,       \* bound on how old acquire_ca_lock's `now' gets, in ticks
  NoOwner       \* no row of ca_locks for this CA

ASSUME CaAssumption == SeedCas \subseteq Cas /\ CrlEnabled \in BOOLEAN

ASSUME NameAssumption ==
  /\ DOMAIN CaName = Cas
  /\ DOMAIN CnOf = Subjects

ASSUME LockAssumption ==
  /\ LockTtl \in Nat
  /\ MaxLag \in Nat
  /\ NoOwner \notin Requests

VARIABLES
  caSt,        \* state of each row of certificate_authorities
  secrets,     \* its openssl state
  certs,       \* the rows of certificates
  truststore,  \* generation of the CA certificate in the truststore column,
               \* 0 while it is empty
  locks,       \* ca_locks: owner and expires_at - now, in ticks
  pc,          \* where each request is
  arg,         \* what each request asks for
  age,         \* ticks since a request in `locking' finished its prechecks
  snap,        \* the CaSecrets a request has read
  seen         \* the cert_pem blobs a request has read, by certificate id

ledgerVars == <<caSt, secrets, certs>>
reqVars == <<pc, arg, age, snap, seen>>
vars == <<caSt, secrets, certs, truststore, locks, reqVars>>

CertIds == Requests

Ledger == INSTANCE CaLedger

Ops == {"create_cert", "import_cert", "renew_cert", "revoke_cert", "renew_ca",
        "create_ca", "truststore"}

NoPem == <<>>

NoSubject == ""

Arg == [op : Ops, ca : Cas, cert : CertIds, subject : Subjects \union {NoSubject},
        pem : Pem \union {NoPem}]

NoArg == [op |-> "none"]

Pc == {"idle", "locking", "locked", "rechecked", "read", "ready", "reply",
       "inserting", "fetching", "building", "failing", "done", "failed", "dead"}

Ended == {"done", "failed", "dead"}

NotSeen == [i \in CertIds |-> NoPem]

NoLock == [owner |-> NoOwner, left |-> 0]

Lock == [owner : Requests \union {NoOwner}, left : Int]

Init ==
  /\ Ledger!Init
  /\ truststore = [c \in Cas |-> IF c \in SeedCas THEN 1 ELSE 0]
  /\ locks = [c \in Cas |-> NoLock]
  /\ pc = [r \in Requests |-> "idle"]
  /\ arg = [r \in Requests |-> NoArg]
  /\ age = [r \in Requests |-> 0]
  /\ snap = [r \in Requests |-> FinishCaFiles]
  /\ seen = [r \in Requests |-> NotSeen]

----------------------------------------------------------------------------
(* Queries.                                                                 *)

(* get_cert, get_cert_secrets: neither the certificate nor its CA deleted.  *)
CertVisible(i) == certs[i].st = "active" /\ caSt[certs[i].ca] = "active"

(* cert_common_name_exists: the name of a certificate of c that is not      *)
(* deleted; names compare trimmed and case-insensitively (CnOf normalises). *)
CertNameTaken(c, subject) ==
  \E i \in CertIds : /\ certs[i].st = "active"
                     /\ certs[i].ca = c
                     /\ CnOf[certs[i].pem[2]] = CnOf[subject]

(* ca_common_name_exists *)
CaNameTaken(c) == \E d \in Cas : caSt[d] = "active" /\ CaName[d] = CaName[c]

(* verify_lock_tx: the row names this owner; its expiry is not looked at.   *)
VerifyNothing(r, c) == TRUE   \* mutant: a commit without verify_lock_tx

VerifyLock(r, c) == locks[c].owner = r

(* `DELETE FROM ca_locks WHERE expires_at < now', with now read lag ticks   *)
(* ago.                                                                     *)
KeepExpired(lag) == locks   \* mutant: expired rows are never purged

PurgeExpired(lag) ==
  [c \in Cas |-> IF locks[c].owner # NoOwner /\ locks[c].left < -lag
                 THEN NoLock ELSE locks[c]]

----------------------------------------------------------------------------
(* Steps common to the requests.                                            *)

Goto(r, to) == pc' = [pc EXCEPT ![r] = to]

(* The request answers; its memory is gone.                                 *)
End(r, to) ==
  /\ Goto(r, to)
  /\ arg' = [arg EXCEPT ![r] = NoArg]
  /\ snap' = [snap EXCEPT ![r] = FinishCaFiles]
  /\ seen' = [seen EXCEPT ![r] = NotSeen]
  /\ age' = [age EXCEPT ![r] = 0]

(* A request starts: its checks have passed and it goes on to `to'.         *)
Start(r, a, to) ==
  /\ pc[r] = "idle"
  /\ Goto(r, to)
  /\ arg' = [arg EXCEPT ![r] = a]
  /\ UNCHANGED <<ledgerVars, truststore, locks, age, snap, seen>>

(* create_cert: the name is checked, and the CA found, before the lock.     *)
BeginCreateCert(r, c, subject) ==
  /\ ~CertNameTaken(c, subject)
  /\ caSt[c] = "active"
  /\ Start(r, [op |-> "create_cert", ca |-> c, cert |-> r, subject |-> subject,
               pem |-> NoPem], "locking")

(* import_cert_with: the PEM is one this CA's key signed, here or elsewhere. *)
BeginImportCert(r, c, pem) ==
  /\ caSt[c] = "active"
  /\ Start(r, [op |-> "import_cert", ca |-> c, cert |-> r, subject |-> pem[2],
               pem |-> pem], "locking")

(* renew_cert: the certificate must not be revoked; its subject is read.    *)
BeginRenewCert(r, i) ==
  /\ CertVisible(i)
  /\ ~certs[i].revoked
  /\ Start(r, [op |-> "renew_cert", ca |-> certs[i].ca, cert |-> i,
               subject |-> certs[i].pem[2], pem |-> NoPem], "locking")

(* revoke_cert: CRLs must be enabled, the certificate not revoked yet.      *)
BeginRevokeCert(r, i) ==
  /\ CrlEnabled
  /\ CertVisible(i)
  /\ ~certs[i].revoked
  /\ Start(r, [op |-> "revoke_cert", ca |-> certs[i].ca, cert |-> i,
               subject |-> NoSubject, pem |-> NoPem], "locking")

BeginRenewCa(r, c) ==
  /\ caSt[c] = "active"
  /\ Start(r, [op |-> "renew_ca", ca |-> c, cert |-> r, subject |-> NoSubject,
               pem |-> NoPem], "locking")

Begin(r) ==
  \/ \E c \in Cas : \/ \E s \in Subjects : BeginCreateCert(r, c, s)
                    \/ \E pem \in ExternalCerts \union Index(secrets[c]) :
                          BeginImportCert(r, c, pem)
                    \/ BeginRenewCa(r, c)
  \/ \E i \in CertIds : BeginRenewCert(r, i) \/ BeginRevokeCert(r, i)

----------------------------------------------------------------------------
(* The signing lock.                                                        *)

(* acquire_ca_lock, one transaction.  `now' was read before the wait for    *)
(* the database mutex, so it may be up to age ticks old.  The row needs a   *)
(* CA row to refer to (a foreign key), deleted or not.                      *)
Acquire(r) ==
  /\ pc[r] = "locking"
  /\ \E lag \in 0..age[r] :
        /\ PurgeExpired(lag)[arg[r].ca].owner = NoOwner
        /\ locks' = [PurgeExpired(lag) EXCEPT ![arg[r].ca] =
                       [owner |-> r, left |-> LockTtl - lag]]
  /\ caSt[arg[r].ca] \in {"active", "deleted"}
  /\ Goto(r, "locked")
  /\ age' = [age EXCEPT ![r] = 0]
  /\ UNCHANGED <<ledgerVars, truststore, arg, snap, seen>>

(* "CA is busy; retry shortly": the transaction rolls back, the purge too.  *)
AcquireBusy(r) ==
  /\ pc[r] = "locking"
  /\ \/ \E lag \in 0..age[r] : PurgeExpired(lag)[arg[r].ca].owner # NoOwner
     \/ caSt[arg[r].ca] \notin {"active", "deleted"}
  /\ End(r, "failed")
  /\ UNCHANGED <<ledgerVars, truststore, locks>>

(* Any step under the lock fails: a work directory, an openssl command      *)
(* (exit code or timeout), a row that is gone, a lost lock.                 *)
Fail(r) ==
  /\ pc[r] \in {"locked", "rechecked", "read", "ready"}
  /\ Goto(r, "failing")
  /\ UNCHANGED <<ledgerVars, truststore, locks, arg, age, snap, seen>>

(* release_ca_lock on the error path: only this owner's row is deleted.     *)
ReleaseLock(r, c) ==
  IF locks[c].owner = r THEN [locks EXCEPT ![c] = NoLock] ELSE locks

ReleaseHeld(r) ==   \* mutant: a lock that is lost fails the release as well
  /\ pc[r] = "failing"
  /\ VerifyLock(r, arg[r].ca)
  /\ locks' = ReleaseLock(r, arg[r].ca)
  /\ End(r, "failed")
  /\ UNCHANGED <<ledgerVars, truststore>>

Release(r) ==
  /\ pc[r] = "failing"
  /\ locks' = ReleaseLock(r, arg[r].ca)
  /\ End(r, "failed")
  /\ UNCHANGED <<ledgerVars, truststore>>

----------------------------------------------------------------------------
(* Under the lock: the reads, one database call each.                       *)

(* revoke_cert looks again whether the certificate is revoked.              *)
Recheck(r) ==
  /\ pc[r] = "locked"
  /\ arg[r].op = "revoke_cert"
  /\ CertVisible(arg[r].cert)
  /\ ~certs[arg[r].cert].revoked
  /\ Goto(r, "rechecked")
  /\ UNCHANGED <<ledgerVars, truststore, locks, arg, age, snap, seen>>

(* get_ca_secrets *)
ReadCa(r) ==
  /\ pc[r] = IF arg[r].op = "revoke_cert" THEN "rechecked" ELSE "locked"
  /\ caSt[arg[r].ca] = "active"
  /\ snap' = [snap EXCEPT ![r] = secrets[arg[r].ca]]
  /\ Goto(r, IF arg[r].op = "create_cert" THEN "ready" ELSE "read")
  /\ UNCHANGED <<ledgerVars, truststore, locks, arg, age, seen>>

(* import_cert_with checks the name under the lock.                         *)
CheckImportName(r) ==
  /\ pc[r] = "read"
  /\ arg[r].op = "import_cert"
  /\ ~CertNameTaken(arg[r].ca, arg[r].subject)
  /\ Goto(r, "ready")
  /\ UNCHANGED <<ledgerVars, truststore, locks, arg, age, snap, seen>>

(* get_cert_secrets (renew_cert, revoke_cert)                               *)
ReadCert(r) ==
  /\ pc[r] = "read"
  /\ arg[r].op \in {"renew_cert", "revoke_cert"}
  /\ CertVisible(arg[r].cert)
  /\ seen' = [seen EXCEPT ![r][arg[r].cert] = certs[arg[r].cert].pem]
  /\ Goto(r, "ready")
  /\ UNCHANGED <<ledgerVars, truststore, locks, arg, age, snap>>

(* list_cert_secrets_for_ca (renew_ca): the soft-deleted ones too.          *)
OnlyActive(c) == {i \in CertIds : certs[i].st = "active" /\ certs[i].ca = c}  \* mutant

CertsOf(c) == {i \in CertIds : Ledger!Stored(certs[i]) /\ certs[i].ca = c}

ReadCerts(r) ==
  /\ pc[r] = "read"
  /\ arg[r].op = "renew_ca"
  /\ seen' = [seen EXCEPT ![r] = [i \in CertIds |->
                IF i \in CertsOf(arg[r].ca) THEN certs[i].pem ELSE NoPem]]
  /\ Goto(r, "ready")
  /\ UNCHANGED <<ledgerVars, truststore, locks, arg, age, snap>>

----------------------------------------------------------------------------
(* The commits, each one transaction that verifies the lock and gives it    *)
(* up.  They write what openssl made of the state the request had read.     *)

Committing(r, op) ==
  /\ pc[r] = "ready"
  /\ arg[r].op = op
  /\ VerifyLock(r, arg[r].ca)
  /\ caSt[arg[r].ca] = "active"
  /\ locks' = ReleaseLock(r, arg[r].ca)
  /\ Goto(r, "reply")
  /\ UNCHANGED <<caSt, arg, age, snap, seen>>

SetSecrets(c, files) == secrets' = [secrets EXCEPT ![c] = files]

(* create_cert_files, then insert_cert_with_state with the new index and    *)
(* serial.                                                                  *)
CommitCreateCert(r) ==
  /\ Committing(r, "create_cert")
  /\ SetSecrets(arg[r].ca, Sign(snap[r], arg[r].subject))
  /\ certs' = [certs EXCEPT ![r] =
                 Ledger!NewRow(arg[r].ca, NextCert(snap[r], arg[r].subject), snap[r].pem)]
  /\ UNCHANGED truststore

(* import_cert_files, then insert_cert_with_state without CA state.         *)
CommitImportCert(r) ==
  /\ Committing(r, "import_cert")
  /\ certs' = [certs EXCEPT ![r] = Ledger!NewRow(arg[r].ca, arg[r].pem, snap[r].pem)]
  /\ UNCHANGED <<secrets, truststore>>

(* renew_cert_files, then update_cert_with_state: only a row that is neither *)
(* deleted nor revoked is updated.                                          *)
RenewAnything(i) == certs[i].st = "active"   \* mutant: no revoked_at IS NULL

Renewable(i) == certs[i].st = "active" /\ ~certs[i].revoked

CommitRenewCert(r) ==
  LET i == arg[r].cert
      pem == NextCert(snap[r], arg[r].subject)
  IN /\ Committing(r, "renew_cert")
     /\ Renewable(i)
     /\ SetSecrets(arg[r].ca, Sign(snap[r], arg[r].subject))
     /\ certs' = [certs EXCEPT ![i].pem = pem,
                               ![i].bundle = BuildBundle(pem, snap[r].pem),
                               ![i].carried = @ \union {pem}]
     /\ UNCHANGED truststore

(* revoke_cert_files, then revoke_cert_with_state: index, serial, CRL and   *)
(* CRL number together with revoked_at.                                     *)
CommitRevokeCert(r) ==
  LET i == arg[r].cert
  IN /\ Committing(r, "revoke_cert")
     /\ certs[i].st = "active"
     /\ CanRevoke(snap[r], seen[r][i])
     /\ SetSecrets(arg[r].ca, RevokeCertFiles(snap[r], seen[r][i]))
     /\ certs' = [certs EXCEPT ![i].revoked = TRUE]
     /\ UNCHANGED truststore

(* renew_ca_files, generate_crl and build_bundle for every certificate,     *)
(* then renew_ca_with_state, which leaves index.txt and serial.txt alone    *)
(* and empties the truststore.                                              *)
KeepTruststore(c) == truststore   \* mutant: the old truststore stays

ClearTruststore(c) == [truststore EXCEPT ![c] = 0]

CommitRenewCa(r) ==
  LET c == arg[r].ca
      files == RenewCaFiles(snap[r], CrlEnabled)
  IN /\ Committing(r, "renew_ca")
     /\ SetSecrets(c, [secrets[c] EXCEPT !.pem = files.pem, !.crl = files.crl,
                                         !.crlnumber = files.crlnumber])
     /\ truststore' = ClearTruststore(c)
     /\ certs' = [i \in CertIds |->
                    IF seen[r][i] # NoPem /\ i \in CertsOf(c)
                    THEN [certs[i] EXCEPT !.bundle = BuildBundle(seen[r][i], files.pem)]
                    ELSE certs[i]]

(* The cert operations end with get_cert: when the certificate or its CA    *)
(* was deleted since the commit the request reports an error, although its  *)
(* work is stored.                                                          *)
Reply(r) ==
  /\ pc[r] = "reply"
  /\ arg[r].op # "renew_ca"
  /\ CertVisible(arg[r].cert)
  /\ End(r, "done")
  /\ UNCHANGED <<ledgerVars, truststore, locks>>

ReplyNotFound(r) ==
  /\ pc[r] = "reply"
  /\ arg[r].op # "renew_ca"
  /\ ~CertVisible(arg[r].cert)
  /\ Goto(r, "failing")
  /\ UNCHANGED <<ledgerVars, truststore, locks, arg, age, snap, seen>>

(* renew_ca ends with get_ca, whose certificate the truststore is built     *)
(* from, or with an error.                                                  *)
ReplyRenewCa(r) ==
  /\ pc[r] = "reply"
  /\ arg[r].op = "renew_ca"
  /\ caSt[arg[r].ca] = "active"
  /\ snap' = [snap EXCEPT ![r] = secrets[arg[r].ca]]
  /\ Goto(r, "building")
  /\ UNCHANGED <<ledgerVars, truststore, locks, arg, age, seen>>

ReplyRenewCaNotFound(r) ==
  /\ pc[r] = "reply"
  /\ arg[r].op = "renew_ca"
  /\ caSt[arg[r].ca] # "active"
  /\ End(r, "failed")
  /\ UNCHANGED <<ledgerVars, truststore, locks>>

----------------------------------------------------------------------------
(* create_ca, import_ca: no lock.  The name is checked, openssl makes the   *)
(* key, certificate and first CRL, and the row is inserted under a fresh id.*)
BeginCreateCa(r, c) ==
  /\ caSt[c] = "absent"
  /\ \A q \in Requests : pc[q] = "inserting" => arg[q].ca # c
  /\ ~CaNameTaken(c)
  /\ Start(r, [op |-> "create_ca", ca |-> c, cert |-> r, subject |-> NoSubject,
               pem |-> NoPem], "inserting")

InsertCa(r) ==
  LET c == arg[r].ca
  IN /\ pc[r] = "inserting"
     /\ caSt' = [caSt EXCEPT ![c] = "active"]
     /\ snap' = [snap EXCEPT ![r] = secrets[c]]
     /\ Goto(r, "building")
     /\ UNCHANGED <<secrets, certs, truststore, locks, arg, age, seen>>

(* openssl fails before anything is stored.                                 *)
CreateCaFails(r) ==
  /\ pc[r] = "inserting"
  /\ End(r, "failed")
  /\ UNCHANGED <<ledgerVars, truststore, locks>>

(* download_ca of the truststore: get_ca_secrets, then get_ca_truststore,   *)
(* and a build when that is empty.                                          *)
BeginTruststore(r, c) ==
  /\ caSt[c] = "active"
  /\ pc[r] = "idle"
  /\ Goto(r, "fetching")
  /\ arg' = [arg EXCEPT ![r] = [op |-> "truststore", ca |-> c, cert |-> r,
                                subject |-> NoSubject, pem |-> NoPem]]
  /\ snap' = [snap EXCEPT ![r] = secrets[c]]
  /\ UNCHANGED <<ledgerVars, truststore, locks, age, seen>>

FetchTruststore(r) ==
  LET c == arg[r].ca
  IN /\ pc[r] = "fetching"
     /\ \/ /\ caSt[c] = "active"
           /\ truststore[c] = 0
           /\ Goto(r, "building")
           /\ UNCHANGED <<arg, age, snap, seen>>
        \/ /\ caSt[c] = "active"
           /\ truststore[c] # 0
           /\ End(r, "done")
        \/ /\ caSt[c] # "active"
           /\ End(r, "failed")
     /\ UNCHANGED <<ledgerVars, truststore, locks>>

(* build_truststore: openssl builds it from the CA certificate read before, *)
(* set_ca_truststore stores it only while that is still the certificate.    *)
StoreAnyTruststore(c, pem) == [truststore EXCEPT ![c] = pem]   \* mutant

SetTruststore(c, pem) ==
  IF caSt[c] = "active" /\ secrets[c].pem = pem
  THEN [truststore EXCEPT ![c] = pem] ELSE truststore

BuildTruststore(r) ==
  /\ pc[r] = "building"
  /\ truststore' = SetTruststore(arg[r].ca, snap[r].pem)
  /\ End(r, "done")
  /\ UNCHANGED <<ledgerVars, locks>>

BuildTruststoreFails(r) ==
  /\ pc[r] = "building"
  /\ End(r, IF arg[r].op = "truststore" THEN "failed" ELSE "done")
  /\ UNCHANGED <<ledgerVars, truststore, locks>>

----------------------------------------------------------------------------
(* Single database calls: soft delete, restore, nuke.  None takes or looks  *)
(* at the signing lock.                                                     *)
DeleteCert(i) ==
  /\ certs[i].st = "active"
  /\ certs' = [certs EXCEPT ![i].st = "deleted"]
  /\ UNCHANGED <<caSt, secrets, truststore, locks, reqVars>>

RestoreCert(i) ==
  /\ certs[i].st = "deleted"
  /\ caSt[certs[i].ca] = "active"
  /\ ~CertNameTaken(certs[i].ca, certs[i].pem[2])
  /\ certs' = [certs EXCEPT ![i].st = "active"]
  /\ UNCHANGED <<caSt, secrets, truststore, locks, reqVars>>

DeleteCa(c) ==
  /\ caSt[c] = "active"
  /\ caSt' = [caSt EXCEPT ![c] = "deleted"]
  /\ UNCHANGED <<secrets, certs, truststore, locks, reqVars>>

RestoreCa(c) ==
  /\ caSt[c] = "deleted"
  /\ ~CaNameTaken(c)
  /\ caSt' = [caSt EXCEPT ![c] = "active"]
  /\ UNCHANGED <<secrets, certs, truststore, locks, reqVars>>

NukeAll ==
  /\ Ledger!Nuke
  /\ locks' = [c \in Cas |-> NoLock]
  /\ UNCHANGED <<truststore, reqVars>>

(* The process dies and is restarted: every running request is lost, the    *)
(* rows of ca_locks stay.                                                   *)
InFlight(r) == pc[r] \notin {"idle"} \union Ended

Crash ==
  /\ \E r \in Requests : InFlight(r)
  /\ pc' = [r \in Requests |-> IF InFlight(r) THEN "dead" ELSE pc[r]]
  /\ arg' = [r \in Requests |-> NoArg]
  /\ age' = [r \in Requests |-> 0]
  /\ snap' = [r \in Requests |-> FinishCaFiles]
  /\ seen' = [r \in Requests |-> NotSeen]
  /\ UNCHANGED <<ledgerVars, truststore, locks>>

(* Time passes; nothing distinguishes times longer than the bounds.         *)
Tick ==
  /\ locks' = [c \in Cas |->
                 IF locks[c].owner # NoOwner /\ locks[c].left >= -MaxLag
                 THEN [locks[c] EXCEPT !.left = @ - 1] ELSE locks[c]]
  /\ age' = [r \in Requests |->
                 IF pc[r] = "locking" /\ age[r] < MaxLag THEN age[r] + 1 ELSE age[r]]
  /\ UNCHANGED <<ledgerVars, truststore, pc, arg, snap, seen>>

----------------------------------------------------------------------------
(* A step of a running request.                                             *)
Work(r) ==
  \/ Acquire(r) \/ AcquireBusy(r) \/ Recheck(r) \/ ReadCa(r)
  \/ CheckImportName(r) \/ ReadCert(r) \/ ReadCerts(r)
  \/ CommitCreateCert(r) \/ CommitImportCert(r) \/ CommitRenewCert(r)
  \/ CommitRevokeCert(r) \/ CommitRenewCa(r)
  \/ Fail(r) \/ Release(r)
  \/ Reply(r) \/ ReplyNotFound(r) \/ ReplyRenewCa(r) \/ ReplyRenewCaNotFound(r)
  \/ InsertCa(r) \/ CreateCaFails(r)
  \/ FetchTruststore(r) \/ BuildTruststore(r) \/ BuildTruststoreFails(r)

Next ==
  \/ \E r \in Requests :
        \/ Begin(r)
        \/ \E c \in Cas : BeginCreateCa(r, c) \/ BeginTruststore(r, c)
        \/ Work(r)
  \/ \E i \in CertIds : DeleteCert(i) \/ RestoreCert(i)
  \/ \E c \in Cas : DeleteCa(c) \/ RestoreCa(c)
  \/ NukeAll
  \/ Crash
  \/ Tick

Spec == Init /\ [][Next]_vars

(* A blocking task runs to its end even when its client is gone, every      *)
(* openssl run has a timeout, and time passes.                              *)
Fairness == WF_vars(Tick) /\ \A r \in Requests : WF_vars(Work(r))

FairSpec == Spec /\ Fairness

----------------------------------------------------------------------------
(* Properties.                                                              *)

(* The variables have their types, and whatever a request in flight holds   *)
(* refers to rows of the tables.                                            *)
TypeOK ==
  /\ Ledger!LedgerTypeOK
  /\ truststore \in [Cas -> Nat]
  /\ locks \in [Cas -> Lock]
  /\ pc \in [Requests -> Pc]
  /\ arg \in [Requests -> Arg \union {NoArg}]
  /\ \A r \in Requests : InFlight(r) <=> arg[r] # NoArg
  /\ age \in [Requests -> 0..MaxLag]
  /\ snap \in [Requests -> CaSecrets]
  /\ seen \in [Requests -> [CertIds -> Pem \union {NoPem}]]

(* Signing is serial: although requests overlap, outlive their lock, crash  *)
(* and fail half-way, the rows change exactly as if every operation were    *)
(* one step on the current rows (acquire_ca_lock, verify_lock_tx and the    *)
(* *_with_state transactions).  No serial, index line or CRL is lost.       *)
SigningIsSerial == Ledger!Spec

(* The guarantees of the ledger, which the overlapping requests keep:       *)
(* no serial is assigned twice,                                             *)
SerialsUnique == Ledger!SerialsUnique

(* no index entry of a stored certificate is lost,                          *)
IndexComplete == Ledger!IndexComplete

(* the stored CRL is the CRL of the stored index,                           *)
CrlCurrent == Ledger!CrlCurrent

(* the stored bundles hold the current certificates,                        *)
BundleCurrent == Ledger!BundleCurrent

(* a revocation covers the serials of earlier renewals,                     *)
RenewedSerialsRevoked == Ledger!RenewedSerialsRevoked

(* a revocation is final, whatever a renewal checked before it,             *)
RevocationFinal == Ledger!RevocationFinal

(* and CRL numbers only grow.                                               *)
CrlNumberGrows == Ledger!CrlNumberGrows

(* The stored truststore is empty or holds the current CA certificate,      *)
(* although it is built without the lock (set_ca_truststore).               *)
TruststoreCurrent ==
  \A c \in Cas : truststore[c] \in {0, secrets[c].pem}

(* A row of ca_locks, its owner dead or alive, does not block its CA for    *)
(* ever: it is released or acquire_ca_lock purges it.                       *)
LockFreed ==
  \A c \in Cas : locks[c].owner # NoOwner ~> PurgeExpired(0)[c].owner = NoOwner

(* Every request is answered, or dies with the process.                     *)
RequestAnswered ==
  \A r \in Requests : pc[r] # "idle" ~> pc[r] \in Ended

----------------------------------------------------------------------------
(* What comments of the code say and the code does not do.                  *)

(* "the subject is what ties a certificate's serial history together"       *)
(* (revoke_superseded_index_entries): a certificate that is not revoked has *)
(* no serial in the CRL.                                                    *)
UnrevokedNotInCrl ==
  \A i \in CertIds : certs[i].st = "active" /\ ~certs[i].revoked =>
     certs[i].pem[1] \notin secrets[certs[i].ca].crl.listed

(* "Revoke those too so the old certificates cannot outlive the revocation  *)
(* of the current one" (revoke_cert_files), also for imported ones.  TLC    *)
(* refutes it: an imported serial was never in the index (README).          *)
OldCertsRevoked ==
  \A i \in CertIds : Ledger!Stored(certs[i]) /\ certs[i].revoked =>
     certs[i].carried \subseteq secrets[certs[i].ca].revoked
=============================================================================
