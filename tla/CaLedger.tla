------------------------------ MODULE CaLedger ------------------------------
(***************************************************************************)
(* What the signing subsystem promises: the rows of the certificate        *)
(* authorities and of their certificates, with every operation a single    *)
(* step.  Each operation computes the new openssl state from the state it  *)
(* replaces, so no serial, index entry or CRL entry is ever lost.  The     *)
(* requests of the real program (CaSigning) read that state, run openssl   *)
(* for seconds or minutes and write it back; CaSigning is checked, and     *)
(* proved, to implement this module.                                       *)
(***************************************************************************)
EXTENDS OpensslCa

CONSTANTS
  Cas,          \* ids of certificate authorities
  CertIds,      \* ids of certificates
  SeedCas,      \* the authorities that exist when the behaviour starts
  CrlEnabled    \* config crl.enabled

VARIABLES
  caSt,     \* state of each CA row
  secrets,  \* openssl state of each CA row (columns of CaSecrets)
  certs     \* the certificate rows

ledgerVars == <<caSt, secrets, certs>>

(* A row does not exist yet, has deleted = 0, has deleted = 1, or has been  *)
(* removed by nuke_all.  Ids are random, so a removed id never comes back.  *)
RowState == {"absent", "active", "deleted", "gone"}

Bundle == [cert : Pem, ca : Nat]

(* A certificate row: its CA, the current cert_pem, revoked_at IS NOT NULL, *)
(* bundle_zip, and `carried`, an audit variable: every PEM the row has had. *)
CertRow == [st : RowState \ {"absent"}, ca : Cas, pem : Pem, revoked : BOOLEAN,
            bundle : Bundle, carried : SUBSET Pem]

NoRow == [st |-> "absent"]

NewRow(c, pem, caPem) ==
  [st |-> "active", ca |-> c, pem |-> pem, revoked |-> FALSE,
   bundle |-> BuildBundle(pem, caPem), carried |-> {pem}]

Stored(row) == row.st \in {"active", "deleted"}

LedgerTypeOK ==
  /\ caSt \in [Cas -> RowState]
  /\ secrets \in [Cas -> CaSecrets]
  /\ certs \in [CertIds -> CertRow \union {NoRow}]

Init ==
  /\ caSt = [c \in Cas |-> IF c \in SeedCas THEN "active" ELSE "absent"]
  /\ secrets = [c \in Cas |-> NewCaSecrets(CrlEnabled)]
  /\ certs = [i \in CertIds |-> NoRow]

----------------------------------------------------------------------------
CreateCa(c) ==
  /\ caSt[c] = "absent"
  /\ caSt' = [caSt EXCEPT ![c] = "active"]
  /\ UNCHANGED <<secrets, certs>>

Insert(c, i, pem) ==
  /\ caSt[c] = "active"
  /\ certs[i].st = "absent"
  /\ certs' = [certs EXCEPT ![i] = NewRow(c, pem, secrets[c].pem)]

(* A certificate is signed and stored.                                      *)
Issue(c, i, subject) ==
  /\ Insert(c, i, NextCert(secrets[c], subject))
  /\ secrets' = [secrets EXCEPT ![c] = Sign(@, subject)]
  /\ UNCHANGED caSt

(* An existing certificate of this CA is stored; nothing is signed.         *)
Import(c, i, pem) ==
  /\ Insert(c, i, pem)
  /\ UNCHANGED <<caSt, secrets>>

(* A certificate is re-signed under a new serial; a revoked one never is.   *)
Renew(c, i) ==
  /\ caSt[c] = "active"
  /\ certs[i].st = "active"
  /\ certs[i].ca = c
  /\ ~certs[i].revoked
  /\ LET pem == NextCert(secrets[c], certs[i].pem[2]) IN
       certs' = [certs EXCEPT ![i].pem = pem,
                              ![i].bundle = BuildBundle(pem, secrets[c].pem),
                              ![i].carried = @ \union {pem}]
  /\ secrets' = [secrets EXCEPT ![c] = Sign(@, certs[i].pem[2])]
  /\ UNCHANGED caSt

(* A certificate is revoked once, together with a CRL that lists it.        *)
Revoke(c, i) ==
  /\ CrlEnabled
  /\ caSt[c] = "active"
  /\ certs[i].st = "active"
  /\ certs[i].ca = c
  /\ ~certs[i].revoked
  /\ CanRevoke(secrets[c], certs[i].pem)
  /\ certs' = [certs EXCEPT ![i].revoked = TRUE]
  /\ secrets' = [secrets EXCEPT ![c] = RevokeCertFiles(@, certs[i].pem)]
  /\ UNCHANGED caSt

(* The CA certificate is renewed and with it the bundle of every            *)
(* certificate of the CA, deleted ones included.                            *)
RenewCa(c) ==
  /\ caSt[c] = "active"
  /\ secrets' = [secrets EXCEPT ![c] = RenewCaFiles(@, CrlEnabled)]
  /\ certs' = [i \in CertIds |->
                 IF Stored(certs[i]) /\ certs[i].ca = c
                 THEN [certs[i] EXCEPT !.bundle =
                         BuildBundle(certs[i].pem, secrets[c].pem + 1)]
                 ELSE certs[i]]
  /\ UNCHANGED caSt

SetCa(c, from, to) ==
  /\ caSt[c] = from
  /\ caSt' = [caSt EXCEPT ![c] = to]
  /\ UNCHANGED <<secrets, certs>>

SetCert(i, from, to) ==
  /\ certs[i].st = from
  /\ certs' = [certs EXCEPT ![i].st = to]
  /\ UNCHANGED <<caSt, secrets>>

Gone(st) == IF st = "absent" THEN "absent" ELSE "gone"

Nuke ==
  /\ caSt' = [c \in Cas |-> Gone(caSt[c])]
  /\ certs' = [i \in CertIds |-> IF certs[i].st = "absent" THEN certs[i]
                               ELSE [certs[i] EXCEPT !.st = "gone"]]
  /\ UNCHANGED secrets

Next ==
  \/ \E c \in Cas :
        \/ CreateCa(c)
        \/ RenewCa(c)
        \/ SetCa(c, "active", "deleted")
        \/ SetCa(c, "deleted", "active")
        \/ \E i \in CertIds :
              \/ \E s \in Subjects : Issue(c, i, s)
              \/ \E pem \in ExternalCerts \union Index(secrets[c]) : Import(c, i, pem)
              \/ Renew(c, i)
              \/ Revoke(c, i)
  \/ \E i \in CertIds :
        \/ SetCert(i, "active", "deleted")
        \/ SetCert(i, "deleted", "active")
  \/ Nuke

Spec == Init /\ [][Next]_ledgerVars

----------------------------------------------------------------------------
(* What the ledger guarantees.                                              *)

(* A CA never has two index lines for one serial and never assigns a serial *)
(* it has used (index_txt and serial_txt written by concurrent requests).   *)
SerialsUnique ==
  \A c \in Cas :
     /\ secrets[c].valid \intersect secrets[c].revoked = {}
     /\ \A e, f \in Index(secrets[c]) : e[1] = f[1] => e = f
     /\ \A e \in Index(secrets[c]) : e[1] \in Nat => e[1] < secrets[c].serial

(* Every stored certificate the CA signed itself is in its index.txt, as    *)
(* revoked and listed in the stored CRL when the row is revoked: the index  *)
(* of one request never overwrites the entry of another.                    *)
IndexComplete ==
  \A i \in CertIds : Stored(certs[i]) =>
     LET ca == secrets[certs[i].ca] IN
     /\ certs[i].pem \in ExternalCerts \union Index(ca)
     /\ certs[i].revoked => /\ certs[i].pem \in ca.revoked
                            /\ certs[i].pem[1] \in ca.crl.listed

(* Once a CA has a CRL it lists exactly the revoked index entries, and the  *)
(* next CRL gets a number not used before (crl_der, crlnumber_txt and       *)
(* index_txt are written by different operations).                          *)
CrlCurrent ==
  \A c \in Cas :
     /\ secrets[c].crl # NoCrl => secrets[c].crl.listed = SerialsOf(secrets[c].revoked)
     /\ secrets[c].crl.number < secrets[c].crlnumber

(* The stored bundle of a certificate, deleted or not, holds its current    *)
(* certificate and the current CA certificate (renew_ca rebuilds bundles    *)
(* from a list read earlier).                                               *)
BundleCurrent ==
  \A i \in CertIds : Stored(certs[i]) =>
     certs[i].bundle = BuildBundle(certs[i].pem, secrets[certs[i].ca].pem)

(* When a certificate is revoked, so is every serial this CA ever assigned  *)
(* to it by renewals (revoke_superseded_index_entries).                     *)
RenewedSerialsRevoked ==
  \A i \in CertIds : Stored(certs[i]) /\ certs[i].revoked =>
     LET ca == secrets[certs[i].ca] IN
     certs[i].carried \intersect Index(ca) \subseteq ca.revoked

(* A revoked certificate stays revoked and is never re-signed, even by a    *)
(* renewal that passed its check before the revocation.                     *)
RevocationFinal ==
  [][\A i \in CertIds : Stored(certs[i]) /\ certs[i].revoked =>
        certs'[i].revoked /\ certs'[i].pem = certs[i].pem]_ledgerVars

(* A CRL is only replaced by one with a higher number.                      *)
CrlNumberGrows ==
  [][\A c \in Cas : secrets'[c].crl # secrets[c].crl =>
        secrets'[c].crl.number > secrets[c].crl.number]_ledgerVars
=============================================================================
