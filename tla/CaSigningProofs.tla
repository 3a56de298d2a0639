-------------------------- MODULE CaSigningProofs --------------------------
(***************************************************************************)
(* The guarantees of CaLedger, and that CaSigning implements it, for every *)
(* set of CAs, requests, subjects and external certificates, and for every *)
(* lock expiry and clock lag.                                              *)
(*                                                                         *)
(* The ledger's invariant is stated per CA (CaOK) and per certificate row  *)
(* (RowOK), so that what an openssl pipeline preserves is a lemma about    *)
(* one record, cited by the steps.                                         *)
(*                                                                         *)
(* The implementation: a commit that passes verify_lock_tx is made by the  *)
(* request that took the lock last.  As long as a request is still the     *)
(* owner of the lock of its CA, nobody else has committed to that CA, so   *)
(* what it read (its snapshot and the PEMs) is still what the rows say     *)
(* (Current), and its commit is the atomic step of the ledger.             *)
(***************************************************************************)
EXTENDS CaSigning, TLAPS

----------------------------------------------------------------------------
(* The ledger: its invariant.                                               *)


(* One CA: its part of SerialsUnique and CrlCurrent, and that the serials   *)
(* of its index which it did not assign belong to external certificates.    *)
CaOK(ca) ==
  /\ ca \in Ledger!CaSecrets
  /\ ca.valid \intersect ca.revoked = {}
  /\ \A e, f \in Ledger!Index(ca) : e[1] = f[1] => e = f
  /\ \A e \in Ledger!Index(ca) : e[1] \in Nat => e[1] < ca.serial
  /\ \A e \in Ledger!Index(ca) : e[1] \in Nat \/ e \in ExternalCerts
  /\ ca.crl # Ledger!NoCrl => ca.crl.listed = Ledger!SerialsOf(ca.revoked)
  /\ ca.crl.number < ca.crlnumber

(* One stored row and the openssl state of its CA: its part of              *)
(* IndexComplete, BundleCurrent and RenewedSerialsRevoked, and that every   *)
(* PEM it has had is known to the CA and names the same subject.            *)
RowOK(row, ca) ==
  /\ row.pem \in row.carried
  /\ row.carried \subseteq ExternalCerts \union Ledger!Index(ca)
  /\ \A e \in row.carried : e[2] = row.pem[2]
  /\ row.bundle = Ledger!BuildBundle(row.pem, ca.pem)
  /\ row.revoked => /\ row.pem \in ca.revoked
                    /\ ca.crl # Ledger!NoCrl
                    /\ row.carried \intersect Ledger!Index(ca) \subseteq ca.revoked

CasOK == \A c \in Cas : CaOK(secrets[c])

RowsOK == \A i \in CertIds : Ledger!Stored(certs[i]) => RowOK(certs[i], secrets[certs[i].ca])

LedgerInv == Ledger!LedgerTypeOK /\ CasOK /\ RowsOK

----------------------------------------------------------------------------
(* What the openssl pipelines preserve.                                     *)

(* An external certificate is a certificate.                                *)
LEMMA ExternalIsPem == ExternalCerts \subseteq Ledger!Pem
BY ExternalAssumption DEF Ledger!Pem, Ledger!Serials

(* Signing keeps the type of the openssl state (create_cert_files).         *)
LEMMA SignType ==
  ASSUME NEW ca \in Ledger!CaSecrets, NEW s \in Subjects
  PROVE  /\ Ledger!NextCert(ca, s) \in Ledger!Pem
         /\ Ledger!Sign(ca, s) \in Ledger!CaSecrets
<1>1. ca.serial \in Nat /\ ca.serial + 1 \in Nat
  BY DEF Ledger!CaSecrets
<1>2. Ledger!NextCert(ca, s) \in Ledger!Pem
  BY <1>1 DEF Ledger!NextCert, Ledger!Pem, Ledger!Serials
<1>3. ca.valid \union {Ledger!NextCert(ca, s)} \in SUBSET Ledger!Pem
  BY <1>2 DEF Ledger!CaSecrets
<1>4. Ledger!Sign(ca, s) \in Ledger!CaSecrets
  BY <1>1, <1>3 DEF Ledger!CaSecrets, Ledger!Sign
<1> QED BY <1>2, <1>4

(* What signing changes.                                                    *)
LEMMA SignFields ==
  ASSUME NEW ca \in Ledger!CaSecrets, NEW s \in Subjects
  PROVE  /\ Ledger!Index(Ledger!Sign(ca, s)) = Ledger!Index(ca) \union {Ledger!NextCert(ca, s)}
         /\ Ledger!Sign(ca, s).valid = ca.valid \union {Ledger!NextCert(ca, s)}
         /\ Ledger!Sign(ca, s).serial = ca.serial + 1
         /\ Ledger!Sign(ca, s).revoked = ca.revoked
         /\ Ledger!Sign(ca, s).crl = ca.crl
         /\ Ledger!Sign(ca, s).crlnumber = ca.crlnumber
         /\ Ledger!Sign(ca, s).pem = ca.pem
BY DEF Ledger!CaSecrets, Ledger!Sign, Ledger!Index

(* The next certificate has a serial no certificate known to the CA has.    *)
LEMMA NextCertFresh ==
  ASSUME NEW ca, CaOK(ca), NEW s \in Subjects
  PROVE  /\ Ledger!NextCert(ca, s)[1] = ca.serial
         /\ Ledger!NextCert(ca, s)[2] = s
         /\ \A e \in ExternalCerts \union Ledger!Index(ca) : e[1] # ca.serial
<1>1. Ledger!NextCert(ca, s)[1] = ca.serial /\ Ledger!NextCert(ca, s)[2] = s
  BY DEF Ledger!NextCert
<1>2. ca.serial \in Nat
  BY DEF CaOK, Ledger!CaSecrets
<1>3. \A e \in ExternalCerts : e[1] # ca.serial
  BY <1>2, ExternalAssumption
<1>4. \A e \in Ledger!Index(ca) : e[1] # ca.serial
  BY <1>2 DEF CaOK
<1> QED BY <1>1, <1>3, <1>4

(* Signing keeps a CA sound.                                                *)
LEMMA SignCa ==
  ASSUME NEW ca, CaOK(ca), NEW s \in Subjects
  PROVE  CaOK(Ledger!Sign(ca, s))
<1> DEFINE new == Ledger!NextCert(ca, s)
           ca2 == Ledger!Sign(ca, s)
<1>1. ca \in Ledger!CaSecrets /\ ca2 \in Ledger!CaSecrets
  BY SignType DEF CaOK
<1>2. /\ Ledger!Index(ca2) = Ledger!Index(ca) \union {new}
      /\ ca2.valid = ca.valid \union {new}
      /\ ca2.serial = ca.serial + 1
      /\ ca2.revoked = ca.revoked /\ ca2.crl = ca.crl
      /\ ca2.crlnumber = ca.crlnumber
  BY <1>1, SignFields
<1>3. /\ new[1] = ca.serial
      /\ \A e \in Ledger!Index(ca) : e[1] # ca.serial
  BY NextCertFresh
<1>4. ca.serial \in Nat
  BY <1>1 DEF Ledger!CaSecrets
<1> HIDE DEF new, ca2
<1>5. ca2.valid \intersect ca2.revoked = {}
  BY <1>2, <1>3 DEF CaOK, Ledger!Index
<1>6. \A e, f \in Ledger!Index(ca2) : e[1] = f[1] => e = f
  BY <1>2, <1>3 DEF CaOK
<1>7. \A e \in Ledger!Index(ca2) : e[1] \in Nat => e[1] < ca2.serial
  BY <1>2, <1>3, <1>4 DEF CaOK
<1>8. \A e \in Ledger!Index(ca2) : e[1] \in Nat \/ e \in ExternalCerts
  BY <1>2, <1>3, <1>4 DEF CaOK
<1>9. /\ ca2.crl # Ledger!NoCrl => ca2.crl.listed = Ledger!SerialsOf(ca2.revoked)
      /\ ca2.crl.number < ca2.crlnumber
  BY <1>2 DEF CaOK
<1> QED BY <1>1, <1>5, <1>6, <1>7, <1>8, <1>9 DEF CaOK, ca2

(* Signing for one row keeps every other row of the CA sound.               *)
LEMMA SignRow ==
  ASSUME NEW ca, CaOK(ca), NEW s \in Subjects, NEW row, RowOK(row, ca)
  PROVE  RowOK(row, Ledger!Sign(ca, s))
<1> DEFINE new == Ledger!NextCert(ca, s)
           ca2 == Ledger!Sign(ca, s)
<1>1. ca \in Ledger!CaSecrets
  BY DEF CaOK
<1>2. /\ Ledger!Index(ca2) = Ledger!Index(ca) \union {new}
      /\ ca2.revoked = ca.revoked /\ ca2.crl = ca.crl /\ ca2.pem = ca.pem
  BY <1>1, SignFields
<1>3. \A e \in ExternalCerts \union Ledger!Index(ca) : e # new
  BY NextCertFresh
<1> HIDE DEF new, ca2
<1>4. row.carried \subseteq ExternalCerts \union Ledger!Index(ca2)
  BY <1>2 DEF RowOK
<1>5. row.revoked => row.carried \intersect Ledger!Index(ca2) \subseteq ca2.revoked
  BY <1>2, <1>3 DEF RowOK
<1> QED BY <1>2, <1>4, <1>5 DEF RowOK, ca2

(* A row that gets the certificate just signed, new or in place of the one  *)
(* it had (create_cert, renew_cert).                                        *)
LEMMA SignedRow ==
  ASSUME NEW ca, CaOK(ca), NEW s \in Subjects, NEW row, ~row.revoked,
         row.pem = Ledger!NextCert(ca, s),
         row.pem \in row.carried,
         row.carried \ {row.pem} \subseteq ExternalCerts \union Ledger!Index(ca),
         \A e \in row.carried : e[2] = s,
         row.bundle = Ledger!BuildBundle(row.pem, ca.pem)
  PROVE  RowOK(row, Ledger!Sign(ca, s))
<1>1. ca \in Ledger!CaSecrets
  BY DEF CaOK
<1>2. /\ Ledger!Index(Ledger!Sign(ca, s)) = Ledger!Index(ca) \union {row.pem}
      /\ Ledger!Sign(ca, s).pem = ca.pem
      /\ row.pem[2] = s
  BY <1>1, SignFields, NextCertFresh
<1> QED BY <1>2 DEF RowOK

(* What generate_crl makes of a CA.                                         *)
LEMMA GenerateCrlFields ==
  ASSUME NEW ca \in Ledger!CaSecrets
  PROVE  /\ Ledger!GenerateCrl(ca) \in Ledger!CaSecrets
         /\ Ledger!GenerateCrl(ca).pem = ca.pem
         /\ Ledger!GenerateCrl(ca).valid = ca.valid
         /\ Ledger!GenerateCrl(ca).revoked = ca.revoked
         /\ Ledger!GenerateCrl(ca).serial = ca.serial
         /\ Ledger!GenerateCrl(ca).crl.listed = Ledger!SerialsOf(ca.revoked)
         /\ Ledger!GenerateCrl(ca).crl.number = ca.crlnumber
         /\ Ledger!GenerateCrl(ca).crlnumber = ca.crlnumber + 1
<1>1. Ledger!SerialsOf(ca.revoked) \in SUBSET Ledger!Serials
  <2>1. ca.revoked \in SUBSET Ledger!Pem
    BY DEF Ledger!CaSecrets
  <2> QED BY <2>1 DEF Ledger!SerialsOf, Ledger!Pem
<1>2. ca.crlnumber \in Nat /\ ca.crlnumber + 1 \in Nat
  BY DEF Ledger!CaSecrets
<1>3. [listed |-> Ledger!SerialsOf(ca.revoked), number |-> ca.crlnumber] \in Ledger!Crl
  BY <1>1, <1>2 DEF Ledger!Crl
<1> HIDE DEF Ledger!Crl
<1>4. Ledger!GenerateCrl(ca) \in Ledger!CaSecrets
  BY <1>2, <1>3 DEF Ledger!CaSecrets, Ledger!GenerateCrl
<1> QED BY <1>4 DEF Ledger!CaSecrets, Ledger!GenerateCrl

(* A CA whose CRL was generated has one that is not NoCrl, because the      *)
(* numbers start at 1.                                                      *)
LEMMA GeneratedIsCrl ==
  ASSUME NEW ca, CaOK(ca)
  PROVE  Ledger!GenerateCrl(ca).crl # Ledger!NoCrl
<1>1. ca.crlnumber > 0
  <2>1. ca \in Ledger!CaSecrets
    BY DEF CaOK
  <2>2. ca.crl.number \in Nat /\ ca.crlnumber \in Nat
    BY <2>1 DEF Ledger!CaSecrets, Ledger!Crl
  <2> QED BY <2>2 DEF CaOK
<1>2. Ledger!GenerateCrl(ca).crl.number = ca.crlnumber
  BY GenerateCrlFields DEF CaOK
<1> QED BY <1>1, <1>2 DEF Ledger!NoCrl

(* Generating a CRL keeps a CA sound.                                       *)
LEMMA GenerateCrlCa ==
  ASSUME NEW ca, CaOK(ca)
  PROVE  CaOK(Ledger!GenerateCrl(ca))
<1>1. ca \in Ledger!CaSecrets
  BY DEF CaOK
<1>2. ca.crlnumber \in Nat
  BY <1>1 DEF Ledger!CaSecrets
<1>3. Ledger!Index(Ledger!GenerateCrl(ca)) = Ledger!Index(ca)
  BY <1>1, GenerateCrlFields DEF Ledger!Index
<1> QED BY <1>1, <1>2, <1>3, GenerateCrlFields DEF CaOK

----------------------------------------------------------------------------
(* revoke_cert_files.                                                       *)

(* What a revocation changes.                                               *)
LEMMA RevokeFields ==
  ASSUME NEW ca \in Ledger!CaSecrets, NEW cert \in Ledger!Pem
  PROVE  LET new == Ledger!RevokeCertFiles(ca, cert)
             old == Ledger!Superseded(ca, cert)
         IN /\ new \in Ledger!CaSecrets
            /\ new.pem = ca.pem
            /\ new.serial = ca.serial
            /\ new.valid = ca.valid \ old
            /\ new.revoked = ca.revoked \union {cert} \union old
            /\ new.crl.listed = Ledger!SerialsOf(new.revoked)
            /\ new.crl.number = ca.crlnumber
            /\ new.crlnumber = ca.crlnumber + 1
            /\ Ledger!Index(new) = Ledger!Index(ca) \union {cert}
<1> DEFINE old == Ledger!Superseded(ca, cert)
           mid == [ca EXCEPT !.valid = @ \ old,
                             !.revoked = @ \union {cert} \union old]
           new == Ledger!RevokeCertFiles(ca, cert)
<1>1. old \subseteq ca.valid
  BY DEF Ledger!Superseded
<1>2. ca.valid \ old \in SUBSET Ledger!Pem /\ ca.revoked \union {cert} \union old \in SUBSET Ledger!Pem
  BY <1>1 DEF Ledger!CaSecrets
<1> HIDE DEF old
<1>3. /\ mid \in Ledger!CaSecrets
      /\ mid.pem = ca.pem /\ mid.serial = ca.serial
      /\ mid.crlnumber = ca.crlnumber
      /\ mid.valid = ca.valid \ old
      /\ mid.revoked = ca.revoked \union {cert} \union old
  BY <1>2 DEF Ledger!CaSecrets
<1>4. new = Ledger!GenerateCrl(mid)
  BY DEF Ledger!RevokeCertFiles, old
<1> HIDE DEF mid, new
<1>5. /\ new \in Ledger!CaSecrets
      /\ new.pem = ca.pem /\ new.serial = ca.serial
      /\ new.valid = ca.valid \ old
      /\ new.revoked = ca.revoked \union {cert} \union old
      /\ new.crl.listed = Ledger!SerialsOf(new.revoked)
      /\ new.crl.number = ca.crlnumber
      /\ new.crlnumber = ca.crlnumber + 1
  BY <1>3, <1>4, GenerateCrlFields
<1>6. Ledger!Index(new) = Ledger!Index(ca) \union {cert}
  BY <1>1, <1>5 DEF Ledger!Index
<1> QED BY <1>5, <1>6 DEF new, old

(* A revocation keeps a CA sound: the certificate is in its index or an     *)
(* external one.                                                            *)
LEMMA RevokeCa ==
  ASSUME NEW ca, CaOK(ca), NEW cert \in Ledger!Pem, cert \in ExternalCerts \union Ledger!Index(ca)
  PROVE  CaOK(Ledger!RevokeCertFiles(ca, cert))
<1> DEFINE new == Ledger!RevokeCertFiles(ca, cert)
           old == Ledger!Superseded(ca, cert)
<1>1. ca \in Ledger!CaSecrets
  BY DEF CaOK
<1>2. /\ new \in Ledger!CaSecrets
      /\ new.serial = ca.serial
      /\ new.valid = ca.valid \ old
      /\ new.revoked = ca.revoked \union {cert} \union old
      /\ new.crl.listed = Ledger!SerialsOf(new.revoked)
      /\ new.crl.number = ca.crlnumber
      /\ new.crlnumber = ca.crlnumber + 1
      /\ Ledger!Index(new) = Ledger!Index(ca) \union {cert}
  BY <1>1, RevokeFields
<1>3. cert \in ca.valid => cert \in old
  BY DEF Ledger!Superseded
<1>4. old \subseteq ca.valid
  BY DEF Ledger!Superseded
<1>5. ca.crlnumber \in Nat
  BY <1>1 DEF Ledger!CaSecrets
<1> HIDE DEF new, old
<1>6. new.valid \intersect new.revoked = {}
  BY <1>2, <1>3, <1>4 DEF CaOK
<1>7. ASSUME NEW e \in Ledger!Index(new), NEW f \in Ledger!Index(new), e[1] = f[1]
      PROVE  e = f
  <2>1. CASE cert \in Ledger!Index(ca)
    BY <2>1, <1>2, <1>7 DEF CaOK
  <2>2. CASE cert \in ExternalCerts
    <3>1. \A g \in Ledger!Index(ca) : g[1] = cert[1] => g = cert
      BY <2>2, ExternalAssumption DEF CaOK
    <3> QED BY <3>1, <1>2, <1>7 DEF CaOK
  <2> QED BY <2>1, <2>2
<1>8. ASSUME NEW e \in Ledger!Index(new)
      PROVE  /\ e[1] \in Nat => e[1] < new.serial
             /\ e[1] \in Nat \/ e \in ExternalCerts
  <2>1. CASE e \in Ledger!Index(ca)
    BY <2>1, <1>2 DEF CaOK
  <2>2. CASE e \in ExternalCerts
    BY <2>2, ExternalAssumption
  <2> QED BY <2>1, <2>2, <1>2
<1>9. new.crl.number < new.crlnumber
  BY <1>2, <1>5
<1> QED BY <1>2, <1>6, <1>7, <1>8, <1>9 DEF CaOK, new

(* A revocation keeps the rows of the CA sound.                             *)
LEMMA RevokeRow ==
  ASSUME NEW ca, CaOK(ca), NEW cert \in Ledger!Pem, NEW row, RowOK(row, ca)
  PROVE  RowOK(row, Ledger!RevokeCertFiles(ca, cert))
<1> DEFINE new == Ledger!RevokeCertFiles(ca, cert)
           old == Ledger!Superseded(ca, cert)
<1>1. ca \in Ledger!CaSecrets
  BY DEF CaOK
<1>2. /\ new.pem = ca.pem
      /\ new.revoked = ca.revoked \union {cert} \union old
      /\ new.crl.number = ca.crlnumber
      /\ Ledger!Index(new) = Ledger!Index(ca) \union {cert}
  BY <1>1, RevokeFields
<1>3. ca.crlnumber > 0
  BY <1>1 DEF CaOK, Ledger!CaSecrets, Ledger!Crl
<1> HIDE DEF new, old
<1>4. new.crl # Ledger!NoCrl
  BY <1>2, <1>3 DEF Ledger!NoCrl
<1>5. row.carried \subseteq ExternalCerts \union Ledger!Index(new)
  BY <1>2 DEF RowOK
<1>6. row.revoked => /\ row.pem \in new.revoked
                     /\ row.carried \intersect Ledger!Index(new) \subseteq new.revoked
  BY <1>2 DEF RowOK
<1> QED BY <1>2, <1>4, <1>5, <1>6 DEF RowOK, new

(* The row that is revoked is sound with the CA that revoked it: the        *)
(* serials it had before have its subject.                                  *)
LEMMA RevokedRow ==
  ASSUME NEW ca, CaOK(ca), NEW row \in Ledger!CertRow, RowOK(row, ca)
  PROVE  RowOK([row EXCEPT !.revoked = TRUE], Ledger!RevokeCertFiles(ca, row.pem))
<1> DEFINE new == Ledger!RevokeCertFiles(ca, row.pem)
           old == Ledger!Superseded(ca, row.pem)
           row2 == [row EXCEPT !.revoked = TRUE]
<1>1. ca \in Ledger!CaSecrets /\ row.pem \in Ledger!Pem
  BY DEF CaOK, Ledger!CertRow
<1>2. /\ new.revoked = ca.revoked \union {row.pem} \union old
      /\ Ledger!Index(new) = Ledger!Index(ca) \union {row.pem}
  BY <1>1, RevokeFields
<1>3. RowOK(row, new)
  BY <1>1, RevokeRow
<1>4. new.crl # Ledger!NoCrl
  <2>1. new.crl.number = ca.crlnumber
    BY <1>1, RevokeFields
  <2>2. ca.crlnumber > 0
    BY <1>1 DEF CaOK, Ledger!CaSecrets, Ledger!Crl
  <2> QED BY <2>1, <2>2 DEF Ledger!NoCrl
<1>5. \A e \in row.carried \intersect Ledger!Index(ca) : e \in ca.revoked \union old
  BY DEF RowOK, Ledger!Index, Ledger!Superseded
<1>6. /\ row2.pem = row.pem /\ row2.carried = row.carried /\ row2.bundle = row.bundle
      /\ row2.revoked
  BY DEF Ledger!CertRow
<1> HIDE DEF new, old, row2
<1>7. row.carried \intersect Ledger!Index(new) \subseteq new.revoked
  BY <1>2, <1>5
<1>8. row.pem \in new.revoked
  BY <1>2
<1> QED BY <1>3, <1>4, <1>6, <1>7, <1>8 DEF RowOK, new, row2

----------------------------------------------------------------------------
(* renew_ca_files.                                                          *)

(* What the renewal of a CA changes.                                        *)
LEMMA RenewCaFields ==
  ASSUME NEW ca \in Ledger!CaSecrets
  PROVE  LET new == Ledger!RenewCaFiles(ca, CrlEnabled)
         IN /\ new \in Ledger!CaSecrets
            /\ new.pem = ca.pem + 1
            /\ new.valid = ca.valid
            /\ new.revoked = ca.revoked
            /\ new.serial = ca.serial
            /\ Ledger!Index(new) = Ledger!Index(ca)
            /\ \/ new.crl = ca.crl /\ new.crlnumber = ca.crlnumber
               \/ /\ new.crl.listed = Ledger!SerialsOf(ca.revoked)
                  /\ new.crl.number = ca.crlnumber
                  /\ new.crlnumber = ca.crlnumber + 1
<1> DEFINE mid == [ca EXCEPT !.pem = @ + 1]
           new == Ledger!RenewCaFiles(ca, CrlEnabled)
<1>1. /\ mid \in Ledger!CaSecrets
      /\ mid.pem = ca.pem + 1
      /\ mid.valid = ca.valid /\ mid.revoked = ca.revoked /\ mid.serial = ca.serial
      /\ mid.crl = ca.crl /\ mid.crlnumber = ca.crlnumber
  BY DEF Ledger!CaSecrets
<1>2. new = IF CrlEnabled THEN Ledger!GenerateCrl(mid) ELSE mid
  BY DEF Ledger!RenewCaFiles
<1> HIDE DEF mid, new
<1>3. CASE CrlEnabled
  BY <1>1, <1>2, <1>3, GenerateCrlFields DEF Ledger!Index, new
<1>4. CASE ~CrlEnabled
  BY <1>1, <1>2, <1>4 DEF Ledger!Index, new
<1> QED BY <1>3, <1>4

(* The renewal keeps the CA sound.                                          *)
LEMMA RenewCaCa ==
  ASSUME NEW ca, CaOK(ca)
  PROVE  CaOK(Ledger!RenewCaFiles(ca, CrlEnabled))
<1> DEFINE new == Ledger!RenewCaFiles(ca, CrlEnabled)
<1>1. ca \in Ledger!CaSecrets /\ ca.crlnumber \in Nat
  BY DEF CaOK, Ledger!CaSecrets
<1>2. /\ new \in Ledger!CaSecrets
      /\ new.valid = ca.valid /\ new.revoked = ca.revoked /\ new.serial = ca.serial
      /\ Ledger!Index(new) = Ledger!Index(ca)
      /\ \/ new.crl = ca.crl /\ new.crlnumber = ca.crlnumber
         \/ /\ new.crl.listed = Ledger!SerialsOf(ca.revoked)
            /\ new.crl.number = ca.crlnumber
            /\ new.crlnumber = ca.crlnumber + 1
  BY <1>1, RenewCaFields
<1> HIDE DEF new
<1>3. /\ new.crl # Ledger!NoCrl => new.crl.listed = Ledger!SerialsOf(new.revoked)
      /\ new.crl.number < new.crlnumber
  BY <1>1, <1>2 DEF CaOK
<1> QED BY <1>2, <1>3 DEF CaOK, new

(* With its bundle rebuilt, a row is sound with the renewed CA.             *)
LEMMA RenewCaRow ==
  ASSUME NEW ca, CaOK(ca), NEW row \in Ledger!CertRow, RowOK(row, ca)
  PROVE  RowOK([row EXCEPT !.bundle = Ledger!BuildBundle(row.pem, ca.pem + 1)],
               Ledger!RenewCaFiles(ca, CrlEnabled))
<1> DEFINE new == Ledger!RenewCaFiles(ca, CrlEnabled)
           row2 == [row EXCEPT !.bundle = Ledger!BuildBundle(row.pem, ca.pem + 1)]
<1>1. ca \in Ledger!CaSecrets /\ ca.crlnumber \in Nat /\ ca.crl.number \in Nat
  BY DEF CaOK, Ledger!CaSecrets, Ledger!Crl
<1>2. /\ new.pem = ca.pem + 1
      /\ new.revoked = ca.revoked
      /\ Ledger!Index(new) = Ledger!Index(ca)
      /\ \/ new.crl = ca.crl
         \/ new.crl.number = ca.crlnumber
  BY <1>1, RenewCaFields
<1>3. /\ row2.pem = row.pem /\ row2.carried = row.carried /\ row2.revoked = row.revoked
      /\ row2.bundle = Ledger!BuildBundle(row.pem, ca.pem + 1)
  BY DEF Ledger!CertRow
<1> HIDE DEF new, row2
<1>4. ca.crl # Ledger!NoCrl => new.crl # Ledger!NoCrl
  BY <1>1, <1>2 DEF CaOK, Ledger!NoCrl
<1> QED BY <1>2, <1>3, <1>4 DEF RowOK, new, row2

----------------------------------------------------------------------------
(* The steps of the ledger.                                                 *)

(* A row that is not absent is a record with all the fields.                *)
LEMMA RowCases ==
  ASSUME Ledger!LedgerTypeOK, NEW i \in CertIds
  PROVE  /\ certs[i].st # "absent" => certs[i] \in Ledger!CertRow
         /\ certs[i].st = "absent" => certs[i] = Ledger!NoRow
         /\ certs[i].st \in Ledger!RowState
BY DEF Ledger!LedgerTypeOK, Ledger!NoRow, Ledger!CertRow, Ledger!RowState

(* A row for a new certificate is well-typed.                               *)
LEMMA NewRowType ==
  ASSUME NEW c \in Cas, NEW pem \in Ledger!Pem, NEW caPem \in Nat
  PROVE  Ledger!NewRow(c, pem, caPem) \in Ledger!CertRow
BY DEF Ledger!NewRow, Ledger!CertRow, Ledger!Bundle, Ledger!BuildBundle, Ledger!RowState

(* The common shape of issuing, importing, renewing and revoking: one CA    *)
(* gets a new openssl state and one row of it a new content.                *)
LEMMA CommitStep ==
  ASSUME LedgerInv,
         NEW c \in Cas, NEW ca, CaOK(ca),
         NEW i \in CertIds, NEW row \in Ledger!CertRow, row.ca = c, RowOK(row, ca),
         \A j \in CertIds : Ledger!Stored(certs[j]) /\ certs[j].ca = c => RowOK(certs[j], ca),
         caSt' = caSt,
         secrets' = [secrets EXCEPT ![c] = ca],
         certs' = [certs EXCEPT ![i] = row]
  PROVE  LedgerInv'
<1>1. Ledger!LedgerTypeOK'
  BY DEF LedgerInv, Ledger!LedgerTypeOK, CaOK
<1>2. CasOK'
  BY DEF LedgerInv, Ledger!LedgerTypeOK, CasOK
<1>3. ASSUME NEW j \in CertIds, Ledger!Stored(certs'[j])
      PROVE  RowOK(certs'[j], secrets'[certs'[j].ca])
  <2>1. CASE j = i
    BY <2>1 DEF LedgerInv, Ledger!LedgerTypeOK
  <2>2. CASE j # i
    <3>1. certs'[j] = certs[j]
      BY <2>2 DEF LedgerInv, Ledger!LedgerTypeOK
    <3>2. certs[j] \in Ledger!CertRow
      BY <3>1, <1>3, RowCases DEF LedgerInv, Ledger!Stored
    <3>3. certs[j].ca \in Cas
      BY <3>2 DEF Ledger!CertRow
    <3>4. CASE certs[j].ca = c
      BY <3>1, <3>4, <1>3 DEF LedgerInv, Ledger!LedgerTypeOK
    <3>5. CASE certs[j].ca # c
      BY <3>1, <3>3, <3>5, <1>3 DEF LedgerInv, Ledger!LedgerTypeOK, RowsOK
    <3> QED BY <3>4, <3>5
  <2> QED BY <2>1, <2>2
<1> QED BY <1>1, <1>2, <1>3 DEF LedgerInv, RowsOK

(* Issue keeps the invariant.                                               *)
LEMMA IssueStep ==
  ASSUME LedgerInv, NEW c \in Cas, NEW i \in CertIds, NEW s \in Subjects, Ledger!Issue(c, i, s)
  PROVE  LedgerInv'
<1> DEFINE ca == Ledger!Sign(secrets[c], s)
           row == Ledger!NewRow(c, Ledger!NextCert(secrets[c], s), secrets[c].pem)
<1>1. CaOK(secrets[c]) /\ secrets[c] \in Ledger!CaSecrets
  BY DEF LedgerInv, CasOK, CaOK
<1>2. CaOK(ca)
  BY <1>1, SignCa
<1>3. row \in Ledger!CertRow
  BY <1>1, SignType, NewRowType DEF Ledger!CaSecrets
<1>4. RowOK(row, ca)
  <2>1. Ledger!NextCert(secrets[c], s)[2] = s
    BY <1>1, NextCertFresh
  <2>2. /\ ~row.revoked
        /\ row.pem = Ledger!NextCert(secrets[c], s)
        /\ row.carried = {Ledger!NextCert(secrets[c], s)}
        /\ row.bundle = Ledger!BuildBundle(row.pem, secrets[c].pem)
    BY DEF Ledger!NewRow
  <2> QED BY <1>1, <2>1, <2>2, SignedRow
<1>5. \A j \in CertIds : Ledger!Stored(certs[j]) /\ certs[j].ca = c => RowOK(certs[j], ca)
  BY <1>1, SignRow DEF LedgerInv, RowsOK
<1>6. row.ca = c
  BY DEF Ledger!NewRow
<1> HIDE DEF ca, row
<1> QED BY <1>2, <1>3, <1>4, <1>5, <1>6, CommitStep DEF Ledger!Issue, Ledger!Insert, ca, row

(* Import keeps the invariant.                                              *)
LEMMA ImportStep ==
  ASSUME LedgerInv, NEW c \in Cas, NEW i \in CertIds,
         NEW pem \in ExternalCerts \union Ledger!Index(secrets[c]), Ledger!Import(c, i, pem)
  PROVE  LedgerInv'
<1> DEFINE row == Ledger!NewRow(c, pem, secrets[c].pem)
<1>1. CaOK(secrets[c]) /\ secrets[c] \in Ledger!CaSecrets
  BY DEF LedgerInv, CasOK, CaOK
<1>2. pem \in Ledger!Pem
  BY <1>1, ExternalIsPem DEF Ledger!Index, Ledger!CaSecrets
<1>3. row \in Ledger!CertRow
  BY <1>1, <1>2, NewRowType DEF Ledger!CaSecrets
<1>4. RowOK(row, secrets[c])
  BY DEF RowOK, Ledger!NewRow
<1>5. secrets' = [secrets EXCEPT ![c] = secrets[c]]
  BY DEF Ledger!Import, LedgerInv, Ledger!LedgerTypeOK
<1>6. \A j \in CertIds :
         Ledger!Stored(certs[j]) /\ certs[j].ca = c => RowOK(certs[j], secrets[c])
  BY DEF LedgerInv, RowsOK
<1>7. row.ca = c
  BY DEF Ledger!NewRow
<1> HIDE DEF row
<1> QED BY <1>1, <1>3, <1>4, <1>5, <1>6, <1>7, CommitStep DEF Ledger!Import, Ledger!Insert, row

(* Renew keeps the invariant.                                               *)
LEMMA RenewStep ==
  ASSUME LedgerInv, NEW c \in Cas, NEW i \in CertIds, Ledger!Renew(c, i)
  PROVE  LedgerInv'
<1> DEFINE s == certs[i].pem[2]
           pem == Ledger!NextCert(secrets[c], s)
           ca == Ledger!Sign(secrets[c], s)
           row == [certs[i] EXCEPT !.pem = pem,
                                   !.bundle = Ledger!BuildBundle(pem, secrets[c].pem),
                                   !.carried = @ \union {pem}]
<1>1. CaOK(secrets[c]) /\ secrets[c] \in Ledger!CaSecrets
  BY DEF LedgerInv, CasOK, CaOK
<1>2. /\ certs[i] \in Ledger!CertRow
      /\ certs[i].ca = c
      /\ ~certs[i].revoked
      /\ RowOK(certs[i], secrets[c])
  BY RowCases DEF LedgerInv, Ledger!Renew, RowsOK, Ledger!Stored
<1>3. s \in Subjects
  BY <1>2 DEF Ledger!CertRow, Ledger!Pem
<1>4. CaOK(ca) /\ pem \in Ledger!Pem
  BY <1>1, <1>3, SignCa, SignType
<1>5. \A j \in CertIds : Ledger!Stored(certs[j]) /\ certs[j].ca = c => RowOK(certs[j], ca)
  BY <1>1, <1>3, SignRow DEF LedgerInv, RowsOK
<1>6. pem[2] = s
  BY <1>1, <1>3, NextCertFresh
<1>7. Ledger!BuildBundle(pem, secrets[c].pem) \in Ledger!Bundle
  BY <1>1, <1>4 DEF Ledger!BuildBundle, Ledger!Bundle, Ledger!CaSecrets
<1>8. certs' = [certs EXCEPT ![i] = row] /\ secrets' = [secrets EXCEPT ![c] = ca]
  BY DEF Ledger!Renew, LedgerInv, Ledger!LedgerTypeOK
<1> HIDE DEF ca, pem
<1>9. /\ row \in Ledger!CertRow
      /\ row.ca = c /\ ~row.revoked
      /\ row.pem = pem
      /\ row.carried = certs[i].carried \union {pem}
      /\ row.bundle = Ledger!BuildBundle(pem, secrets[c].pem)
  BY <1>2, <1>4, <1>7 DEF Ledger!CertRow
<1>10. RowOK(row, ca)
  <2>1. \A e \in row.carried : e[2] = s
    BY <1>2, <1>6, <1>9 DEF RowOK
  <2>2. row.carried \ {row.pem} \subseteq ExternalCerts \union Ledger!Index(secrets[c])
    BY <1>2, <1>9 DEF RowOK
  <2> HIDE DEF row, s
  <2> QED BY <1>1, <1>3, <1>9, <2>1, <2>2, SignedRow DEF ca, pem
<1>11. caSt' = caSt
  BY DEF Ledger!Renew
<1> HIDE DEF row
<1> QED BY <1>4, <1>5, <1>8, <1>9, <1>10, <1>11, CommitStep

(* Revoke keeps the invariant.                                              *)
LEMMA RevokeStep ==
  ASSUME LedgerInv, NEW c \in Cas, NEW i \in CertIds, Ledger!Revoke(c, i)
  PROVE  LedgerInv'
<1> DEFINE cert == certs[i].pem
           ca == Ledger!RevokeCertFiles(secrets[c], cert)
           row == [certs[i] EXCEPT !.revoked = TRUE]
<1>1. CaOK(secrets[c])
  BY DEF LedgerInv, CasOK
<1>2. /\ certs[i] \in Ledger!CertRow
      /\ certs[i].ca = c
      /\ RowOK(certs[i], secrets[c])
  BY RowCases DEF LedgerInv, Ledger!Revoke, RowsOK, Ledger!Stored
<1>3. cert \in Ledger!Pem /\ cert \in ExternalCerts \union Ledger!Index(secrets[c])
  BY <1>2 DEF Ledger!CertRow, RowOK
<1>4. CaOK(ca)
  BY <1>1, <1>3, RevokeCa
<1>5. \A j \in CertIds : Ledger!Stored(certs[j]) /\ certs[j].ca = c => RowOK(certs[j], ca)
  BY <1>1, <1>3, RevokeRow DEF LedgerInv, RowsOK
<1>6. RowOK(row, ca)
  BY <1>1, <1>2, RevokedRow
<1>7. row \in Ledger!CertRow /\ row.ca = c
  BY <1>2 DEF Ledger!CertRow
<1>8. /\ certs' = [certs EXCEPT ![i] = row]
      /\ secrets' = [secrets EXCEPT ![c] = ca]
      /\ caSt' = caSt
  BY DEF Ledger!Revoke, LedgerInv, Ledger!LedgerTypeOK
<1> HIDE DEF ca, row
<1> QED BY <1>4, <1>5, <1>6, <1>7, <1>8, CommitStep

(* RenewCa keeps the invariant.                                             *)
LEMMA RenewCaStep ==
  ASSUME LedgerInv, NEW c \in Cas, Ledger!RenewCa(c)
  PROVE  LedgerInv'
<1> DEFINE ca == Ledger!RenewCaFiles(secrets[c], CrlEnabled)
           row(i) == [certs[i] EXCEPT !.bundle =
                        Ledger!BuildBundle(certs[i].pem, secrets[c].pem + 1)]
<1>1. CaOK(secrets[c]) /\ secrets[c] \in Ledger!CaSecrets
  BY DEF LedgerInv, CasOK, CaOK
<1>2. CaOK(ca)
  BY <1>1, RenewCaCa
<1>3. /\ secrets' = [secrets EXCEPT ![c] = ca]
      /\ caSt' = caSt
      /\ \A i \in CertIds : certs'[i] =
            IF Ledger!Stored(certs[i]) /\ certs[i].ca = c THEN row(i) ELSE certs[i]
      /\ DOMAIN certs' = CertIds
      /\ certs' = [i \in CertIds |-> certs'[i]]
  BY DEF Ledger!RenewCa
<1>4. ASSUME NEW i \in CertIds, Ledger!Stored(certs[i]), certs[i].ca = c
      PROVE  /\ row(i) \in Ledger!CertRow
             /\ row(i).ca = c
             /\ RowOK(row(i), ca)
  <2>1. certs[i] \in Ledger!CertRow /\ RowOK(certs[i], secrets[c])
    BY <1>4, RowCases DEF LedgerInv, RowsOK, Ledger!Stored
  <2>2. Ledger!BuildBundle(certs[i].pem, secrets[c].pem + 1) \in Ledger!Bundle
    BY <1>1, <2>1 DEF Ledger!BuildBundle, Ledger!Bundle, Ledger!CaSecrets, Ledger!CertRow
  <2>3. row(i) \in Ledger!CertRow /\ row(i).ca = c
    BY <1>4, <2>1, <2>2 DEF Ledger!CertRow
  <2> QED BY <1>1, <2>1, <2>3, RenewCaRow
<1> HIDE DEF ca, row
<1>5. Ledger!LedgerTypeOK'
  <2>1. \A i \in CertIds : certs'[i] \in Ledger!CertRow \union {Ledger!NoRow}
    BY <1>3, <1>4 DEF LedgerInv, Ledger!LedgerTypeOK
  <2>2. caSt' \in [Cas -> Ledger!RowState] /\ secrets' \in [Cas -> Ledger!CaSecrets]
    BY <1>2, <1>3 DEF LedgerInv, Ledger!LedgerTypeOK, CaOK
  <2> QED BY <1>3, <2>1, <2>2 DEF Ledger!LedgerTypeOK
<1>6. CasOK'
  BY <1>2, <1>3 DEF LedgerInv, Ledger!LedgerTypeOK, CasOK
<1>7. ASSUME NEW i \in CertIds, Ledger!Stored(certs'[i])
      PROVE  RowOK(certs'[i], secrets'[certs'[i].ca])
  <2>1. CASE Ledger!Stored(certs[i]) /\ certs[i].ca = c
    BY <2>1, <1>3, <1>4 DEF LedgerInv, Ledger!LedgerTypeOK
  <2>2. CASE ~(Ledger!Stored(certs[i]) /\ certs[i].ca = c)
    <3>1. certs'[i] = certs[i] /\ certs[i].ca # c /\ Ledger!Stored(certs[i])
      BY <2>2, <1>3, <1>7
    <3>2. certs[i].ca \in Cas
      BY <3>1, RowCases DEF LedgerInv, Ledger!Stored, Ledger!CertRow
    <3> QED BY <3>1, <3>2, <1>3 DEF LedgerInv, Ledger!LedgerTypeOK, RowsOK
  <2> QED BY <2>1, <2>2
<1> QED BY <1>5, <1>6, <1>7 DEF LedgerInv, RowsOK

(* So do the steps that only change the state of rows.                      *)
LEMMA StateStep ==
  ASSUME LedgerInv,
         secrets' = secrets,
         caSt' \in [Cas -> Ledger!RowState],
         certs' \in [CertIds -> Ledger!CertRow \union {Ledger!NoRow}],
         \A i \in CertIds : Ledger!Stored(certs'[i]) =>
            /\ Ledger!Stored(certs[i])
            /\ certs'[i].ca = certs[i].ca /\ certs'[i].pem = certs[i].pem
            /\ certs'[i].revoked = certs[i].revoked
            /\ certs'[i].bundle = certs[i].bundle
            /\ certs'[i].carried = certs[i].carried
  PROVE  LedgerInv'
<1>1. Ledger!LedgerTypeOK' /\ CasOK'
  BY DEF LedgerInv, Ledger!LedgerTypeOK, CasOK
<1>2. RowsOK'
  BY DEF LedgerInv, RowsOK, RowOK
<1> QED BY <1>1, <1>2 DEF LedgerInv

(* Setting the state of a row keeps it a row.                               *)
LEMMA SetState ==
  ASSUME NEW row \in Ledger!CertRow, NEW st \in Ledger!RowState \ {"absent"}
  PROVE  LET new == [row EXCEPT !.st = st]
         IN /\ new \in Ledger!CertRow
            /\ new.st = st /\ new.ca = row.ca /\ new.pem = row.pem
            /\ new.revoked = row.revoked /\ new.bundle = row.bundle
            /\ new.carried = row.carried
BY DEF Ledger!CertRow

(* Soft delete and restore of a certificate keep the invariant.             *)
LEMMA SetCertStep ==
  ASSUME LedgerInv, NEW i \in CertIds,
         NEW from \in {"active", "deleted"}, NEW to \in {"active", "deleted"},
         Ledger!SetCert(i, from, to)
  PROVE  LedgerInv'
<1> DEFINE row == [certs[i] EXCEPT !.st = to]
<1>1. certs[i] \in Ledger!CertRow /\ Ledger!Stored(certs[i])
  BY RowCases DEF Ledger!SetCert, LedgerInv, Ledger!Stored
<1>2. /\ row \in Ledger!CertRow
      /\ row.ca = certs[i].ca /\ row.pem = certs[i].pem
      /\ row.revoked = certs[i].revoked /\ row.bundle = certs[i].bundle
      /\ row.carried = certs[i].carried
  BY <1>1, SetState DEF Ledger!RowState
<1>3. certs' = [certs EXCEPT ![i] = row] /\ secrets' = secrets /\ caSt' = caSt
  BY DEF Ledger!SetCert, LedgerInv, Ledger!LedgerTypeOK
<1> HIDE DEF row
<1>4. /\ caSt' \in [Cas -> Ledger!RowState]
      /\ certs' \in [CertIds -> Ledger!CertRow \union {Ledger!NoRow}]
  BY <1>2, <1>3 DEF LedgerInv, Ledger!LedgerTypeOK
<1>5. \A j \in CertIds : certs'[j] = IF j = i THEN row ELSE certs[j]
  BY <1>3 DEF LedgerInv, Ledger!LedgerTypeOK
<1> QED BY <1>1, <1>2, <1>3, <1>4, <1>5, StateStep

(* nuke_all keeps the invariant.                                            *)
LEMMA NukeStep ==
  ASSUME LedgerInv, Ledger!Nuke
  PROVE  LedgerInv'
<1>1. \A i \in CertIds : /\ certs'[i] \in Ledger!CertRow \union {Ledger!NoRow}
                         /\ ~Ledger!Stored(certs'[i])
  <2> SUFFICES ASSUME NEW i \in CertIds
               PROVE  certs'[i] \in Ledger!CertRow \union {Ledger!NoRow} /\ ~Ledger!Stored(certs'[i])
    OBVIOUS
  <2>1. CASE certs[i].st = "absent"
    BY <2>1, RowCases DEF Ledger!Nuke, LedgerInv, Ledger!Stored
  <2>2. CASE certs[i].st # "absent"
    <3>1. certs'[i] = [certs[i] EXCEPT !.st = "gone"]
      BY <2>2 DEF Ledger!Nuke
    <3>2. certs'[i] \in Ledger!CertRow /\ certs'[i].st = "gone"
      BY <2>2, <3>1, RowCases, SetState DEF LedgerInv, Ledger!RowState
    <3> QED BY <3>2 DEF Ledger!Stored
  <2> QED BY <2>1, <2>2
<1>2. secrets' = secrets /\ caSt' \in [Cas -> Ledger!RowState]
  BY DEF Ledger!Nuke, Ledger!Gone, Ledger!RowState
<1>3. certs' \in [CertIds -> Ledger!CertRow \union {Ledger!NoRow}]
  BY <1>1 DEF Ledger!Nuke
<1> QED BY <1>1, <1>2, <1>3, StateStep

(* The steps that change only the state of a CA keep the invariant.         *)
LEMMA CaStateStep ==
  ASSUME LedgerInv, NEW c \in Cas,
         \/ Ledger!CreateCa(c)
         \/ Ledger!SetCa(c, "active", "deleted")
         \/ Ledger!SetCa(c, "deleted", "active")
  PROVE  LedgerInv'
<1>1. secrets' = secrets /\ certs' = certs
  BY DEF Ledger!CreateCa, Ledger!SetCa
<1>2. caSt' \in [Cas -> Ledger!RowState]
  BY DEF Ledger!CreateCa, Ledger!SetCa, LedgerInv, Ledger!LedgerTypeOK, Ledger!RowState
<1>3. certs' \in [CertIds -> Ledger!CertRow \union {Ledger!NoRow}]
  BY <1>1 DEF LedgerInv, Ledger!LedgerTypeOK
<1> QED BY <1>1, <1>2, <1>3, StateStep

(* A new CA is sound.                                                       *)
LEMMA NewCa == CaOK(Ledger!NewCaSecrets(CrlEnabled))
<1>1. CaOK(Ledger!FinishCaFiles)
  <2>1. Ledger!NoCrl \in Ledger!Crl
    BY DEF Ledger!NoCrl, Ledger!Crl
  <2>2. Ledger!FinishCaFiles \in Ledger!CaSecrets
    BY <2>1 DEF Ledger!FinishCaFiles, Ledger!CaSecrets
  <2>3. Ledger!Index(Ledger!FinishCaFiles) = {}
    BY DEF Ledger!FinishCaFiles, Ledger!Index
  <2> QED BY <2>2, <2>3 DEF Ledger!FinishCaFiles, CaOK, Ledger!NoCrl
<1>2. CaOK(Ledger!GenerateCrl(Ledger!FinishCaFiles))
  BY <1>1, GenerateCrlCa
<1> QED BY <1>1, <1>2 DEF Ledger!NewCaSecrets

(* The invariant holds initially.                                           *)
LEMMA InitIInv == Ledger!Init => LedgerInv
<1> SUFFICES ASSUME Ledger!Init PROVE LedgerInv
  OBVIOUS
<1>1. CasOK
  BY NewCa DEF Ledger!Init, CasOK
<1>2. Ledger!NewCaSecrets(CrlEnabled) \in Ledger!CaSecrets
  BY NewCa DEF CaOK
<1>3. Ledger!LedgerTypeOK
  BY <1>2 DEF Ledger!Init, Ledger!LedgerTypeOK, Ledger!RowState
<1>4. RowsOK
  BY DEF Ledger!Init, RowsOK, Ledger!Stored, Ledger!NoRow
<1> QED BY <1>1, <1>3, <1>4 DEF LedgerInv

(* Every step keeps it.                                                     *)
LEMMA NextIInv == LedgerInv /\ [Ledger!Next]_(Ledger!ledgerVars) => LedgerInv'
<1> SUFFICES ASSUME LedgerInv, [Ledger!Next]_(Ledger!ledgerVars)
             PROVE  LedgerInv'
  OBVIOUS
<1>1. ASSUME NEW c \in Cas, Ledger!CreateCa(c) \/ Ledger!SetCa(c, "active", "deleted")
                            \/ Ledger!SetCa(c, "deleted", "active")
      PROVE  LedgerInv'
  BY <1>1, CaStateStep
<1>2. ASSUME NEW c \in Cas, Ledger!RenewCa(c)
      PROVE  LedgerInv'
  BY <1>2, RenewCaStep
<1>3. ASSUME NEW c \in Cas, NEW i \in CertIds, NEW s \in Subjects, Ledger!Issue(c, i, s)
      PROVE  LedgerInv'
  BY <1>3, IssueStep
<1>4. ASSUME NEW c \in Cas, NEW i \in CertIds,
             NEW pem \in ExternalCerts \union Ledger!Index(secrets[c]), Ledger!Import(c, i, pem)
      PROVE  LedgerInv'
  BY <1>4, ImportStep
<1>5. ASSUME NEW c \in Cas, NEW i \in CertIds, Ledger!Renew(c, i)
      PROVE  LedgerInv'
  BY <1>5, RenewStep
<1>6. ASSUME NEW c \in Cas, NEW i \in CertIds, Ledger!Revoke(c, i)
      PROVE  LedgerInv'
  BY <1>6, RevokeStep
<1>7. ASSUME NEW i \in CertIds,
             Ledger!SetCert(i, "active", "deleted") \/ Ledger!SetCert(i, "deleted", "active")
      PROVE  LedgerInv'
  BY <1>7, SetCertStep
<1>8. CASE Ledger!Nuke
  BY <1>8, NukeStep
<1>9. CASE UNCHANGED Ledger!ledgerVars
  BY <1>9 DEF Ledger!ledgerVars, LedgerInv, Ledger!LedgerTypeOK, CasOK, RowsOK
<1> QED BY <1>1, <1>2, <1>3, <1>4, <1>5, <1>6, <1>7, <1>8, <1>9 DEF Ledger!Next

(* It implies the guarantees of the ledger.                                 *)
LEMMA IInvImplies ==
  LedgerInv => /\ Ledger!SerialsUnique
          /\ Ledger!IndexComplete
          /\ Ledger!CrlCurrent
          /\ Ledger!BundleCurrent
          /\ Ledger!RenewedSerialsRevoked
<1> SUFFICES ASSUME LedgerInv
             PROVE  /\ Ledger!SerialsUnique /\ Ledger!IndexComplete /\ Ledger!CrlCurrent
                    /\ Ledger!BundleCurrent /\ Ledger!RenewedSerialsRevoked
  OBVIOUS
<1>1. Ledger!SerialsUnique /\ Ledger!CrlCurrent
  BY DEF LedgerInv, CasOK, CaOK, Ledger!SerialsUnique, Ledger!CrlCurrent
<1>2. Ledger!BundleCurrent /\ Ledger!RenewedSerialsRevoked
  BY DEF LedgerInv, RowsOK, RowOK, Ledger!BundleCurrent, Ledger!RenewedSerialsRevoked
<1>3. ASSUME NEW i \in CertIds, Ledger!Stored(certs[i])
      PROVE  LET ca == secrets[certs[i].ca] IN
             /\ certs[i].pem \in ExternalCerts \union Ledger!Index(ca)
             /\ certs[i].revoked => /\ certs[i].pem \in ca.revoked
                                    /\ certs[i].pem[1] \in ca.crl.listed
  <2> DEFINE ca == secrets[certs[i].ca]
  <2>1. RowOK(certs[i], ca)
    BY <1>3 DEF LedgerInv, RowsOK
  <2>2. CaOK(ca)
    <3>1. certs[i].ca \in Cas
      BY <1>3, RowCases DEF LedgerInv, Ledger!Stored, Ledger!CertRow
    <3> QED BY <3>1 DEF LedgerInv, CasOK
  <2> HIDE DEF ca
  <2>3. certs[i].revoked => certs[i].pem[1] \in ca.crl.listed
    BY <2>1, <2>2 DEF RowOK, CaOK, Ledger!SerialsOf
  <2> QED BY <2>1, <2>3 DEF RowOK, ca
<1> QED BY <1>1, <1>2, <1>3 DEF Ledger!IndexComplete

(* Rows and index lines are never lost: a row stays a row of its CA and     *)
(* keeps its subject, and every line stays in the index of its CA.          *)
LEMMA Kept ==
  ASSUME LedgerInv, [Ledger!Next]_(Ledger!ledgerVars)
  PROVE  /\ \A i \in CertIds : certs[i].st # "absent" =>
              /\ certs'[i].st # "absent"
              /\ certs'[i].ca = certs[i].ca
              /\ certs'[i].pem[2] = certs[i].pem[2]
         /\ \A c \in Cas : Ledger!Index(secrets[c]) \subseteq Ledger!Index(secrets'[c])
<1> DEFINE RowsKept == \A i \in CertIds : certs[i].st # "absent" =>
                         /\ certs'[i].st # "absent"
                         /\ certs'[i].ca = certs[i].ca
                         /\ certs'[i].pem[2] = certs[i].pem[2]
           IndexKept == \A c \in Cas : Ledger!Index(secrets[c]) \subseteq Ledger!Index(secrets'[c])
<1>1. \A c \in Cas : CaOK(secrets[c]) /\ secrets[c] \in Ledger!CaSecrets
  BY DEF LedgerInv, CasOK, CaOK
<1>2. ASSUME NEW c \in Cas, NEW ca, secrets' = [secrets EXCEPT ![c] = ca],
             Ledger!Index(secrets[c]) \subseteq Ledger!Index(ca)
      PROVE  IndexKept
  BY <1>2 DEF LedgerInv, Ledger!LedgerTypeOK
<1>3. ASSUME NEW c \in Cas, NEW i \in CertIds, NEW pem, Ledger!Insert(c, i, pem)
      PROVE  RowsKept
  BY <1>3 DEF Ledger!Insert, LedgerInv, Ledger!LedgerTypeOK
<1>4. ASSUME NEW c \in Cas, NEW i \in CertIds, NEW s \in Subjects, Ledger!Issue(c, i, s)
      PROVE  RowsKept /\ IndexKept
  <2>1. Ledger!Index(secrets[c]) \subseteq Ledger!Index(Ledger!Sign(secrets[c], s))
    BY <1>1, SignFields
  <2>2. secrets' = [secrets EXCEPT ![c] = Ledger!Sign(secrets[c], s)]
    BY <1>4 DEF Ledger!Issue
  <2>3. Ledger!Insert(c, i, Ledger!NextCert(secrets[c], s))
    BY <1>4 DEF Ledger!Issue
  <2> HIDE DEF RowsKept, IndexKept
  <2> QED BY <2>1, <2>2, <2>3, <1>2, <1>3
<1>5. ASSUME NEW c \in Cas, NEW i \in CertIds, NEW pem, Ledger!Import(c, i, pem)
      PROVE  RowsKept /\ IndexKept
  BY <1>3, <1>5 DEF Ledger!Import
<1>6. ASSUME NEW c \in Cas, NEW i \in CertIds, Ledger!Renew(c, i)
      PROVE  RowsKept /\ IndexKept
  <2> DEFINE s == certs[i].pem[2]
  <2>1. certs[i] \in Ledger!CertRow /\ s \in Subjects
    BY <1>6, RowCases DEF Ledger!Renew, LedgerInv, Ledger!CertRow, Ledger!Pem
  <2>2. Ledger!Index(secrets[c]) \subseteq Ledger!Index(Ledger!Sign(secrets[c], s))
    BY <2>1, <1>1, SignFields
  <2>3. secrets' = [secrets EXCEPT ![c] = Ledger!Sign(secrets[c], s)]
    BY <1>6 DEF Ledger!Renew
  <2>4. Ledger!NextCert(secrets[c], s)[2] = s
    BY DEF Ledger!NextCert
  <2>5. RowsKept
    BY <1>6, <2>1, <2>4 DEF Ledger!Renew, LedgerInv, Ledger!LedgerTypeOK, Ledger!CertRow
  <2> HIDE DEF RowsKept, IndexKept, s
  <2> QED BY <2>2, <2>3, <2>5, <1>2
<1>7. ASSUME NEW c \in Cas, NEW i \in CertIds, Ledger!Revoke(c, i)
      PROVE  RowsKept /\ IndexKept
  <2> DEFINE cert == certs[i].pem
  <2>1. certs[i] \in Ledger!CertRow /\ cert \in Ledger!Pem
    BY <1>7, RowCases DEF Ledger!Revoke, LedgerInv, Ledger!CertRow
  <2>2. Ledger!Index(secrets[c]) \subseteq Ledger!Index(Ledger!RevokeCertFiles(secrets[c], cert))
    BY <2>1, <1>1, RevokeFields
  <2>3. secrets' = [secrets EXCEPT ![c] = Ledger!RevokeCertFiles(secrets[c], cert)]
    BY <1>7 DEF Ledger!Revoke
  <2>4. RowsKept
    BY <1>7, <2>1 DEF Ledger!Revoke, LedgerInv, Ledger!LedgerTypeOK, Ledger!CertRow
  <2> HIDE DEF RowsKept, IndexKept, cert
  <2> QED BY <2>2, <2>3, <2>4, <1>2
<1>8. ASSUME NEW c \in Cas, Ledger!RenewCa(c)
      PROVE  RowsKept /\ IndexKept
  <2>1. Ledger!Index(secrets[c]) \subseteq Ledger!Index(Ledger!RenewCaFiles(secrets[c], CrlEnabled))
    BY <1>1, RenewCaFields
  <2>2. secrets' = [secrets EXCEPT ![c] = Ledger!RenewCaFiles(secrets[c], CrlEnabled)]
    BY <1>8 DEF Ledger!RenewCa
  <2>3. RowsKept
    BY <1>8, RowCases DEF Ledger!RenewCa, LedgerInv, Ledger!CertRow
  <2> HIDE DEF RowsKept, IndexKept
  <2> QED BY <2>1, <2>2, <2>3, <1>2
<1>9. ASSUME NEW i \in CertIds, NEW from \in Ledger!RowState \ {"absent"},
             NEW to \in Ledger!RowState \ {"absent"}, Ledger!SetCert(i, from, to)
      PROVE  RowsKept /\ IndexKept
  BY <1>9, RowCases DEF Ledger!SetCert, LedgerInv, Ledger!LedgerTypeOK, Ledger!CertRow
<1>10. ASSUME Ledger!Nuke
       PROVE  RowsKept /\ IndexKept
  BY <1>10, RowCases DEF Ledger!Nuke, LedgerInv, Ledger!CertRow
<1>11. ASSUME secrets' = secrets, certs' = certs
       PROVE  RowsKept /\ IndexKept
  BY <1>11
<1> HIDE DEF RowsKept, IndexKept
<1>12. ASSUME Ledger!Next
       PROVE  RowsKept /\ IndexKept
  BY <1>4, <1>5, <1>6, <1>7, <1>8, <1>9, <1>10, <1>11, <1>12
  DEF Ledger!Next, Ledger!CreateCa, Ledger!SetCa, Ledger!RowState
<1>13. ASSUME UNCHANGED Ledger!ledgerVars
       PROVE  RowsKept /\ IndexKept
  BY <1>11, <1>13 DEF Ledger!ledgerVars
<1> QED BY <1>12, <1>13 DEF RowsKept, IndexKept

(* The ledger is always in a sound state.                                   *)
THEOREM LedgerSoundness == Ledger!Spec => []LedgerInv
BY InitIInv, NextIInv, PTL DEF Ledger!Spec

----------------------------------------------------------------------------
(* The guarantees.                                                          *)

(* The rows of certificate_authorities and certificates keep their types.   *)
THEOREM LedgerTyped == Ledger!Spec => []Ledger!LedgerTypeOK
<1>1. LedgerInv => Ledger!LedgerTypeOK
  BY DEF LedgerInv
<1> QED BY <1>1, LedgerSoundness, PTL

(* The guarantees of the ledger, of create_cert, renew_cert, revoke_cert    *)
(* and renew_ca together.                                                   *)
THEOREM LedgerSafety ==
  Ledger!Spec => []( /\ Ledger!SerialsUnique
              /\ Ledger!IndexComplete
              /\ Ledger!CrlCurrent
              /\ Ledger!BundleCurrent
              /\ Ledger!RenewedSerialsRevoked )
BY IInvImplies, LedgerSoundness, PTL

(* No step takes back a revocation or re-signs a revoked certificate        *)
(* (update_cert_with_state's revoked_at IS NULL).                           *)
LEMMA RevokedStays ==
  ASSUME Ledger!LedgerTypeOK, Ledger!Next, NEW i \in CertIds, Ledger!Stored(certs[i]), certs[i].revoked
  PROVE  certs'[i].revoked /\ certs'[i].pem = certs[i].pem
<1>1. certs[i] \in Ledger!CertRow
  BY RowCases DEF Ledger!Stored
<1>2. ASSUME NEW c \in Cas, NEW j \in CertIds, NEW pem, Ledger!Insert(c, j, pem)
      PROVE  certs'[i] = certs[i]
  BY <1>2 DEF Ledger!Insert, Ledger!Stored, Ledger!LedgerTypeOK
<1>3. ASSUME NEW c \in Cas, NEW j \in CertIds, Ledger!Renew(c, j)
      PROVE  certs'[i] = certs[i]
  BY <1>3 DEF Ledger!Renew, Ledger!LedgerTypeOK
<1>4. ASSUME NEW c \in Cas, NEW j \in CertIds, Ledger!Revoke(c, j)
      PROVE  certs'[i].revoked /\ certs'[i].pem = certs[i].pem
  BY <1>1, <1>4 DEF Ledger!Revoke, Ledger!LedgerTypeOK, Ledger!CertRow
<1>5. ASSUME NEW c \in Cas, Ledger!RenewCa(c)
      PROVE  certs'[i].revoked /\ certs'[i].pem = certs[i].pem
  BY <1>1, <1>5 DEF Ledger!RenewCa, Ledger!CertRow
<1>6. ASSUME NEW j \in CertIds, NEW from, NEW to \in {"active", "deleted"}, Ledger!SetCert(j, from, to)
      PROVE  certs'[i].revoked /\ certs'[i].pem = certs[i].pem
  BY <1>1, <1>6 DEF Ledger!SetCert, Ledger!LedgerTypeOK, Ledger!CertRow
<1>7. ASSUME Ledger!Nuke
      PROVE  certs'[i].revoked /\ certs'[i].pem = certs[i].pem
  BY <1>1, <1>7 DEF Ledger!Nuke, Ledger!CertRow, Ledger!Stored
<1>8. ASSUME NEW c \in Cas, Ledger!CreateCa(c) \/ Ledger!SetCa(c, "active", "deleted")
                            \/ Ledger!SetCa(c, "deleted", "active")
      PROVE  certs'[i] = certs[i]
  BY <1>8 DEF Ledger!CreateCa, Ledger!SetCa
<1> QED
  BY <1>2, <1>3, <1>4, <1>5, <1>6, <1>7, <1>8 DEF Ledger!Next, Ledger!Issue, Ledger!Import

(* A revocation is final.                                                   *)
THEOREM LedgerRevocations == Ledger!Spec => Ledger!RevocationFinal
<1>1. LedgerInv /\ [Ledger!Next]_(Ledger!ledgerVars) =>
        [\A i \in CertIds : Ledger!Stored(certs[i]) /\ certs[i].revoked =>
            certs'[i].revoked /\ certs'[i].pem = certs[i].pem]_(Ledger!ledgerVars)
  BY RevokedStays DEF LedgerInv
<1> QED BY <1>1, LedgerSoundness, PTL DEF Ledger!Spec, Ledger!RevocationFinal

(* A step that changes a CRL numbers it from crlnumber.txt.                 *)
LEMMA CrlStep ==
  ASSUME LedgerInv, Ledger!Next, NEW c \in Cas, secrets'[c].crl # secrets[c].crl
  PROVE  secrets'[c].crl.number > secrets[c].crl.number
<1>1. CaOK(secrets[c]) /\ secrets[c] \in Ledger!CaSecrets
  BY DEF LedgerInv, CasOK, CaOK
<1>2. secrets[c].crlnumber > secrets[c].crl.number
  <2>1. secrets[c].crlnumber \in Nat /\ secrets[c].crl.number \in Nat
    BY <1>1 DEF Ledger!CaSecrets, Ledger!Crl
  <2> QED BY <1>1, <2>1 DEF CaOK
<1>3. ASSUME secrets'[c].crl.number = secrets[c].crlnumber
      PROVE  secrets'[c].crl.number > secrets[c].crl.number
  BY <1>2, <1>3
<1>4. ASSUME NEW d \in Cas, NEW i \in CertIds, NEW s \in Subjects, Ledger!Issue(d, i, s)
      PROVE  secrets'[c].crl = secrets[c].crl
  BY <1>1, <1>4, SignFields DEF Ledger!Issue, LedgerInv, Ledger!LedgerTypeOK
<1>5. ASSUME NEW d \in Cas, NEW i \in CertIds, Ledger!Renew(d, i)
      PROVE  secrets'[c].crl = secrets[c].crl
  <2>1. certs[i].pem[2] \in Subjects
    BY <1>5, RowCases DEF Ledger!Renew, LedgerInv, Ledger!CertRow, Ledger!Pem
  <2> QED BY <1>1, <1>5, <2>1, SignFields DEF Ledger!Renew, LedgerInv, Ledger!LedgerTypeOK
<1>6. ASSUME NEW d \in Cas, NEW i \in CertIds, Ledger!Revoke(d, i)
      PROVE  secrets'[c].crl = secrets[c].crl \/ secrets'[c].crl.number = secrets[c].crlnumber
  <2>1. certs[i].pem \in Ledger!Pem
    BY <1>6, RowCases DEF Ledger!Revoke, LedgerInv, Ledger!CertRow
  <2> QED BY <1>1, <1>6, <2>1, RevokeFields DEF Ledger!Revoke, LedgerInv, Ledger!LedgerTypeOK
<1>7. ASSUME NEW d \in Cas, Ledger!RenewCa(d)
      PROVE  secrets'[c].crl = secrets[c].crl \/ secrets'[c].crl.number = secrets[c].crlnumber
  BY <1>1, <1>7, RenewCaFields DEF Ledger!RenewCa, LedgerInv, Ledger!LedgerTypeOK
<1>8. ASSUME secrets' = secrets
      PROVE  secrets'[c].crl = secrets[c].crl
  BY <1>8
<1> QED
  BY <1>3, <1>4, <1>5, <1>6, <1>7, <1>8
  DEF Ledger!Next, Ledger!CreateCa, Ledger!SetCa, Ledger!SetCert, Ledger!Nuke, Ledger!Import

(* CRL numbers grow.                                                        *)
THEOREM LedgerCrlNumbers == Ledger!Spec => Ledger!CrlNumberGrows
<1>1. LedgerInv /\ [Ledger!Next]_(Ledger!ledgerVars) =>
        [\A c \in Cas : secrets'[c].crl # secrets[c].crl =>
            secrets'[c].crl.number > secrets[c].crl.number]_(Ledger!ledgerVars)
  BY CrlStep
<1> QED BY <1>1, LedgerSoundness, PTL DEF Ledger!Spec, Ledger!CrlNumberGrows

----------------------------------------------------------------------------
(* The requests: the invariant.                                             *)

Holds(r) == locks[arg[r].ca].owner = r

PreCommit == {"locking", "locked", "rechecked", "read", "ready"}

(* What a request still owning the lock has read is what the rows say.      *)
Current(r) ==
  /\ pc[r] \in {"read", "ready"} => snap[r] = secrets[arg[r].ca]
  /\ pc[r] = "ready" /\ arg[r].op \in {"renew_cert", "revoke_cert"} =>
        seen[r][arg[r].cert] = certs[arg[r].cert].pem
  /\ pc[r] = "ready" /\ arg[r].op = "renew_ca" =>
        \A i \in CertsOf(arg[r].ca) : seen[r][i] = certs[i].pem
  /\ arg[r].op = "revoke_cert" /\ pc[r] \in {"rechecked", "read", "ready"} =>
        ~certs[arg[r].cert].revoked

(* The certificate a request renews or revokes is a row of its CA; one that *)
(* signs asks for a subject.                                                *)
Targets(r) ==
  /\ arg[r].op = "create_cert" => arg[r].subject \in Subjects
  /\ arg[r].op \in {"renew_cert", "revoke_cert"} =>
        LET i == arg[r].cert
        IN /\ certs[i].st # "absent"
           /\ certs[i].ca = arg[r].ca
           /\ arg[r].op = "renew_cert" => arg[r].subject = certs[i].pem[2]
           /\ arg[r].op = "revoke_cert" => CrlEnabled

(* The certificate a request imports is one of its CA.                      *)
Imports(r) ==
  arg[r].op = "import_cert" =>
     arg[r].pem \in ExternalCerts \union Index(secrets[arg[r].ca])

(* The id a request creates a certificate under is unused till it commits.  *)
Unused(r) ==
  \/ pc[r] = "idle"
  \/ pc[r] \in PreCommit /\ arg[r].op \in {"create_cert", "import_cert"}
  => certs[r] = Ledger!NoRow

(* The id a request creates a CA under is unused till it inserts the row.   *)
CreatesCa(r) ==
  pc[r] = "inserting" =>
     /\ caSt[arg[r].ca] = "absent"
     /\ \A q \in Requests \ {r} : pc[q] = "inserting" => arg[q].ca # arg[r].ca

ReqOK(r) ==
  /\ Unused(r)
  /\ InFlight(r) => /\ Targets(r)
                    /\ Imports(r)
                    /\ CreatesCa(r)
                    /\ pc[r] \in PreCommit /\ Holds(r) => Current(r)

ReqsOK == \A r \in Requests : ReqOK(r)

Inv == TypeOK /\ LedgerInv /\ ReqsOK

----------------------------------------------------------------------------
(* The module names the openssl pipelines twice: in its own requests, and   *)
(* in the ledger it instantiates.                                           *)

(* The operators of the pipelines coincide.                                 *)
LEMMA SamePipelines ==
  /\ Ledger!Serials = Serials /\ Ledger!Pem = Pem /\ Ledger!Crl = Crl /\ Ledger!NoCrl = NoCrl
  /\ Ledger!CaSecrets = CaSecrets
  /\ \A ca : Ledger!Index(ca) = Index(ca)
  /\ \A ca, s : Ledger!Sign(ca, s) = Sign(ca, s) /\ Ledger!NextCert(ca, s) = NextCert(ca, s)
  /\ \A ca, p : /\ Ledger!RevokeCertFiles(ca, p) = RevokeCertFiles(ca, p)
                /\ Ledger!CanRevoke(ca, p) = CanRevoke(ca, p)
                /\ Ledger!BuildBundle(p, ca) = BuildBundle(p, ca)
  /\ \A ca, b : Ledger!RenewCaFiles(ca, b) = RenewCaFiles(ca, b)
<1>1. Ledger!Serials = Serials
  BY DEF Ledger!Serials, Serials
<1>2. Ledger!Pem = Pem /\ Ledger!Crl = Crl /\ Ledger!NoCrl = NoCrl
  BY <1>1 DEF Ledger!Pem, Pem, Ledger!Crl, Crl, Ledger!NoCrl, NoCrl
<1>3. Ledger!CaSecrets = CaSecrets
  BY <1>2 DEF Ledger!CaSecrets, CaSecrets
<1>4. \A ca : Ledger!Index(ca) = Index(ca)
  BY DEF Ledger!Index, Index
<1>5. \A ca, s : Ledger!Sign(ca, s) = Sign(ca, s) /\ Ledger!NextCert(ca, s) = NextCert(ca, s)
  BY DEF Ledger!Sign, Sign, Ledger!NextCert, NextCert
<1>6. \A ca : Ledger!GenerateCrl(ca) = GenerateCrl(ca)
  BY DEF Ledger!GenerateCrl, GenerateCrl, Ledger!SerialsOf, SerialsOf
<1>7. \A ca, p : /\ Ledger!RevokeCertFiles(ca, p) = RevokeCertFiles(ca, p)
                /\ Ledger!CanRevoke(ca, p) = CanRevoke(ca, p)
                /\ Ledger!BuildBundle(p, ca) = BuildBundle(p, ca)
  BY <1>6 DEF Ledger!RevokeCertFiles, RevokeCertFiles, Ledger!Superseded, Superseded,
              Ledger!CanRevoke, CanRevoke, Ledger!SerialsOf, SerialsOf,
              Ledger!BuildBundle, BuildBundle
<1>8. \A ca, b : Ledger!RenewCaFiles(ca, b) = RenewCaFiles(ca, b)
  BY <1>6 DEF Ledger!RenewCaFiles, RenewCaFiles
<1> QED BY <1>1, <1>2, <1>3, <1>4, <1>5, <1>7, <1>8

----------------------------------------------------------------------------
(* Every step is a step of the ledger, or leaves its rows alone.            *)

(* What the invariant says of a request in flight.                          *)
LEMMA Requested ==
  ASSUME Inv, NEW r \in Requests, pc[r] \notin {"idle", "done", "failed", "dead"}
  PROVE  /\ arg[r] \in Arg
         /\ arg[r].ca \in Cas
         /\ arg[r].cert \in Requests
         /\ Targets(r) /\ Imports(r) /\ CreatesCa(r)
         /\ pc[r] \in PreCommit /\ Holds(r) => Current(r)
<1>1. InFlight(r)
  BY DEF InFlight, Ended
<1>2. arg[r] \in Arg
  BY <1>1 DEF Inv, TypeOK
<1>3. ReqOK(r)
  BY DEF Inv, ReqsOK
<1> QED BY <1>1, <1>2, <1>3 DEF Arg, CertIds, ReqOK

(* The types of the rows, in the names of CaSigning.                        *)
LEMMA Rows ==
  ASSUME Inv
  PROVE  /\ caSt \in [Cas -> Ledger!RowState]
         /\ secrets \in [Cas -> CaSecrets]
         /\ certs \in [Requests -> Ledger!CertRow \union {Ledger!NoRow}]
BY SamePipelines DEF Inv, TypeOK, Ledger!LedgerTypeOK, CertIds

(* A row that is not absent has all its fields.                             *)
LEMMA FullRows ==
  ASSUME Inv, NEW i \in Requests, certs[i].st # "absent"
  PROVE  /\ certs[i] \in Ledger!CertRow
         /\ certs[i].ca \in Cas
         /\ certs[i].pem \in Pem
         /\ certs[i].pem[2] \in Subjects
<1>1. certs[i] \in Ledger!CertRow
  BY Rows DEF Ledger!NoRow
<1>2. certs[i] \in Ledger!CertRow
  BY <1>1, SamePipelines
<1>3. certs[i].ca \in Cas /\ certs[i].pem \in Ledger!Pem
  BY <1>2 DEF Ledger!CertRow
<1>4. certs[i].pem \in Pem
  BY <1>3, SamePipelines
<1> QED BY <1>1, <1>3, <1>4 DEF Pem

(* What a commit finds: it owns the lock, so what it read is current.       *)
LEMMA Commits ==
  ASSUME Inv, NEW r \in Requests, NEW op, Committing(r, op)
  PROVE  /\ arg[r] \in Arg /\ arg[r].op = op
         /\ arg[r].ca \in Cas /\ arg[r].cert \in Requests
         /\ pc[r] = "ready"
         /\ caSt[arg[r].ca] = "active"
         /\ snap[r] = secrets[arg[r].ca]
         /\ Targets(r) /\ Imports(r) /\ Current(r) /\ Unused(r)
         /\ caSt' = caSt
<1>1. /\ pc[r] = "ready" /\ arg[r].op = op /\ Holds(r)
      /\ caSt[arg[r].ca] = "active" /\ caSt' = caSt
  BY DEF Committing, VerifyLock, Holds
<1>2. Current(r)
  BY <1>1, Requested DEF PreCommit
<1> QED BY <1>1, <1>2, Requested DEF Current, Inv, ReqsOK, ReqOK

(* create_cert commits as Issue.                                            *)
LEMMA SimCreateCert ==
  ASSUME Inv, NEW r \in Requests, CommitCreateCert(r)
  PROVE  Ledger!Next
<1> DEFINE c == arg[r].ca
           s == arg[r].subject
<1>1. Committing(r, "create_cert")
  BY DEF CommitCreateCert
<1>2. /\ c \in Cas /\ caSt[c] = "active" /\ caSt' = caSt /\ snap[r] = secrets[c]
      /\ s \in Subjects
      /\ certs[r] = Ledger!NoRow
  BY <1>1, Commits DEF Targets, Unused, PreCommit
<1>3. /\ secrets' = [secrets EXCEPT ![c] = Sign(secrets[c], s)]
      /\ certs' = [certs EXCEPT ![r] =
                      Ledger!NewRow(c, NextCert(secrets[c], s), secrets[c].pem)]
  BY <1>2 DEF CommitCreateCert, SetSecrets
<1>4. certs[r].st = "absent"
  BY <1>2 DEF Ledger!NoRow
<1> HIDE DEF c, s
<1>5. Ledger!Issue(c, r, s)
  BY <1>2, <1>3, <1>4, SamePipelines DEF Ledger!Issue, Ledger!Insert
<1> QED BY <1>2, <1>5 DEF Ledger!Next, CertIds

(* import_cert commits as Import.                                           *)
LEMMA SimImportCert ==
  ASSUME Inv, NEW r \in Requests, CommitImportCert(r)
  PROVE  Ledger!Next
<1> DEFINE c == arg[r].ca
           p == arg[r].pem
<1>1. Committing(r, "import_cert")
  BY DEF CommitImportCert
<1>2. /\ c \in Cas /\ caSt[c] = "active" /\ caSt' = caSt /\ snap[r] = secrets[c]
      /\ p \in ExternalCerts \union Index(secrets[c])
      /\ certs[r] = Ledger!NoRow
  BY <1>1, Commits DEF Imports, Unused, PreCommit
<1>3. /\ secrets' = secrets
      /\ certs' = [certs EXCEPT ![r] = Ledger!NewRow(c, p, secrets[c].pem)]
  BY <1>2 DEF CommitImportCert
<1>4. certs[r].st = "absent"
  BY <1>2 DEF Ledger!NoRow
<1> HIDE DEF c, p
<1>5. Ledger!Import(c, r, p)
  BY <1>2, <1>3, <1>4, SamePipelines DEF Ledger!Import, Ledger!Insert
<1>6. p \in ExternalCerts \union Ledger!Index(secrets[c])
  BY <1>2, SamePipelines
<1> QED BY <1>2, <1>5, <1>6 DEF Ledger!Next, CertIds

(* renew_cert commits as Renew.                                             *)
LEMMA SimRenewCert ==
  ASSUME Inv, NEW r \in Requests, CommitRenewCert(r)
  PROVE  Ledger!Next
<1> DEFINE c == arg[r].ca
           i == arg[r].cert
<1>1. Committing(r, "renew_cert")
  BY DEF CommitRenewCert
<1>2. /\ c \in Cas /\ caSt[c] = "active" /\ caSt' = caSt /\ snap[r] = secrets[c]
      /\ i \in Requests /\ certs[i].ca = c /\ arg[r].subject = certs[i].pem[2]
  BY <1>1, Commits DEF Targets
<1>3. certs[i].st = "active" /\ ~certs[i].revoked
  BY SMTT(20) DEF CommitRenewCert, Renewable
<1>4. LET p == NextCert(secrets[c], certs[i].pem[2])
      IN /\ secrets' = [secrets EXCEPT ![c] = Sign(secrets[c], certs[i].pem[2])]
         /\ certs' = [certs EXCEPT ![i].pem = p,
                                   ![i].bundle = BuildBundle(p, secrets[c].pem),
                                   ![i].carried = @ \union {p}]
  BY <1>2 DEF CommitRenewCert, SetSecrets
<1> HIDE DEF c, i
<1>5. Ledger!Renew(c, i)
  BY <1>2, <1>3, <1>4, SamePipelines DEF Ledger!Renew
<1> QED BY <1>2, <1>5 DEF Ledger!Next, CertIds

(* revoke_cert commits as Revoke.                                           *)
LEMMA SimRevokeCert ==
  ASSUME Inv, NEW r \in Requests, CommitRevokeCert(r)
  PROVE  Ledger!Next
<1> DEFINE c == arg[r].ca
           i == arg[r].cert
<1>1. Committing(r, "revoke_cert")
  BY DEF CommitRevokeCert
<1>2. /\ c \in Cas /\ caSt[c] = "active" /\ caSt' = caSt /\ snap[r] = secrets[c]
      /\ i \in Requests /\ certs[i].ca = c /\ CrlEnabled
      /\ seen[r][i] = certs[i].pem /\ ~certs[i].revoked
  BY <1>1, Commits DEF Targets, Current
<1>3. /\ certs[i].st = "active"
      /\ CanRevoke(secrets[c], certs[i].pem)
      /\ secrets' = [secrets EXCEPT ![c] = RevokeCertFiles(secrets[c], certs[i].pem)]
      /\ certs' = [certs EXCEPT ![i].revoked = TRUE]
  BY <1>2 DEF CommitRevokeCert, SetSecrets
<1> HIDE DEF c, i
<1>4. Ledger!Revoke(c, i)
  BY <1>2, <1>3, SamePipelines DEF Ledger!Revoke
<1> QED BY <1>2, <1>4 DEF Ledger!Next, CertIds

(* A certificate is a pair, never the empty blob.                           *)
LEMMA PemIsNotNoPem == \A p \in Pem : p # NoPem
BY DEF Pem, NoPem

(* renew_ca commits as RenewCa.                                             *)
LEMMA SimRenewCa ==
  ASSUME Inv, NEW r \in Requests, CommitRenewCa(r)
  PROVE  Ledger!Next
<1> DEFINE c == arg[r].ca
           files == RenewCaFiles(secrets[c], CrlEnabled)
<1>1. Committing(r, "renew_ca")
  BY DEF CommitRenewCa
<1>2. /\ c \in Cas /\ caSt[c] = "active" /\ caSt' = caSt /\ snap[r] = secrets[c]
      /\ \A i \in CertsOf(c) : seen[r][i] = certs[i].pem
  BY <1>1, Commits DEF Current
<1>3. \A i \in CertsOf(c) : seen[r][i] # NoPem
  <2> SUFFICES ASSUME NEW i \in CertsOf(c) PROVE certs[i].pem # NoPem
    BY <1>2
  <2>1. certs[i] \in Ledger!CertRow
    BY Rows DEF CertsOf, CertIds, Ledger!Stored, Ledger!NoRow
  <2>2. certs[i].pem \in Ledger!Pem
    BY <2>1, SamePipelines DEF Ledger!CertRow
  <2> QED BY <2>2, SamePipelines, PemIsNotNoPem
<1>4. secrets[c] \in CaSecrets
  BY <1>2, Rows
<1>5. /\ files = [secrets[c] EXCEPT !.pem = files.pem, !.crl = files.crl,
                                    !.crlnumber = files.crlnumber]
      /\ files.pem = secrets[c].pem + 1
  BY <1>4 DEF RenewCaFiles, GenerateCrl, CaSecrets
<1> HIDE DEF c, files
<1>6. secrets' = [secrets EXCEPT ![c] = files]
  BY <1>2, <1>5 DEF CommitRenewCa, SetSecrets, c, files
<1>7. certs' = [i \in CertIds |->
                 IF i \in CertsOf(c)
                 THEN [certs[i] EXCEPT !.bundle =
                         BuildBundle(certs[i].pem, secrets[c].pem + 1)]
                 ELSE certs[i]]
  <2>1. certs' = [i \in CertIds |->
                   IF seen[r][i] # NoPem /\ i \in CertsOf(c)
                   THEN [certs[i] EXCEPT !.bundle = BuildBundle(seen[r][i], files.pem)]
                   ELSE certs[i]]
    BY <1>2 DEF CommitRenewCa, c, files
  <2> QED BY <2>1, <1>2, <1>3, <1>5
<1>8. \A i \in CertIds : i \in CertsOf(c) <=> Ledger!Stored(certs[i]) /\ certs[i].ca = c
  BY SamePipelines DEF CertsOf
<1>9. Ledger!RenewCa(c)
  BY <1>2, <1>6, <1>7, <1>8, SamePipelines DEF Ledger!RenewCa, files
<1> QED BY <1>2, <1>9 DEF Ledger!Next

(* The steps that leave the rows alone.                                     *)
Quiet(r) ==
  \/ Begin(r) \/ \E c \in Cas : BeginCreateCa(r, c) \/ BeginTruststore(r, c)
  \/ Acquire(r) \/ AcquireBusy(r) \/ Recheck(r) \/ ReadCa(r)
  \/ CheckImportName(r) \/ ReadCert(r) \/ ReadCerts(r)
  \/ Fail(r) \/ Release(r)
  \/ Reply(r) \/ ReplyNotFound(r) \/ ReplyRenewCa(r) \/ ReplyRenewCaNotFound(r)
  \/ CreateCaFails(r)
  \/ FetchTruststore(r) \/ BuildTruststore(r) \/ BuildTruststoreFails(r)

(* They do.                                                                 *)
LEMMA QuietKeepsRows ==
  ASSUME NEW r \in Requests, Quiet(r)
  PROVE  UNCHANGED ledgerVars
<1>1. CASE Begin(r)
  BY <1>1 DEF Begin, BeginCreateCert, BeginImportCert, BeginRenewCert,
              BeginRevokeCert, BeginRenewCa, Start
<1>2. CASE \E c \in Cas : BeginCreateCa(r, c) \/ BeginTruststore(r, c)
  BY <1>2 DEF BeginCreateCa, BeginTruststore, Start
<1>3. CASE Acquire(r) \/ AcquireBusy(r) \/ Recheck(r) \/ ReadCa(r)
  BY <1>3 DEF Acquire, AcquireBusy, Recheck, ReadCa
<1>4. CASE CheckImportName(r) \/ ReadCert(r) \/ ReadCerts(r) \/ Fail(r) \/ Release(r)
  BY <1>4 DEF CheckImportName, ReadCert, ReadCerts, Fail, Release
<1>5. CASE Reply(r) \/ ReplyNotFound(r) \/ ReplyRenewCa(r) \/ ReplyRenewCaNotFound(r)
  BY <1>5 DEF Reply, ReplyNotFound, ReplyRenewCa, ReplyRenewCaNotFound
<1>6. CASE CreateCaFails(r) \/ FetchTruststore(r) \/ BuildTruststore(r)
           \/ BuildTruststoreFails(r)
  BY <1>6 DEF CreateCaFails, FetchTruststore, BuildTruststore, BuildTruststoreFails
<1> QED BY <1>1, <1>2, <1>3, <1>4, <1>5, <1>6 DEF Quiet

(* The commits.                                                             *)
Commit(r) ==
  \/ CommitCreateCert(r) \/ CommitImportCert(r) \/ CommitRenewCert(r)
  \/ CommitRevokeCert(r) \/ CommitRenewCa(r)

(* What the other steps do to the rows: create_ca inserts its row ...       *)
LEMMA SimInsertCa ==
  ASSUME Inv, NEW r \in Requests, InsertCa(r)
  PROVE  Ledger!Next
<1> DEFINE c == arg[r].ca
<1>1. pc[r] = "inserting"
  BY DEF InsertCa
<1>2. c \in Cas /\ caSt[c] = "absent"
  BY <1>1, Requested DEF CreatesCa
<1>3. Ledger!CreateCa(c)
  BY <1>2 DEF InsertCa, Ledger!CreateCa
<1> QED BY <1>2, <1>3 DEF Ledger!Next

(* ... and the operations that are one database call.                       *)
LEMMA SimState ==
  ASSUME \/ \E i \in CertIds : DeleteCert(i) \/ RestoreCert(i)
         \/ \E c \in Cas : DeleteCa(c) \/ RestoreCa(c)
         \/ NukeAll
  PROVE  Ledger!Next
<1>1. ASSUME NEW i \in CertIds, DeleteCert(i)
      PROVE  Ledger!Next
  BY <1>1 DEF DeleteCert, Ledger!SetCert, Ledger!Next
<1>2. ASSUME NEW i \in CertIds, RestoreCert(i)
      PROVE  Ledger!Next
  BY <1>2 DEF RestoreCert, Ledger!SetCert, Ledger!Next
<1>3. ASSUME NEW c \in Cas, DeleteCa(c)
      PROVE  Ledger!Next
  BY <1>3 DEF DeleteCa, Ledger!SetCa, Ledger!Next
<1>4. ASSUME NEW c \in Cas, RestoreCa(c)
      PROVE  Ledger!Next
  BY <1>4 DEF RestoreCa, Ledger!SetCa, Ledger!Next
<1>5. ASSUME NukeAll
      PROVE  Ledger!Next
  <2>1. Ledger!Nuke
    BY <1>5 DEF NukeAll
  <2>2. Ledger!Nuke
    BY <2>1 DEF Ledger!Nuke, Ledger!Gone
  <2> QED BY <2>2 DEF Ledger!Next
<1> QED BY <1>1, <1>2, <1>3, <1>4, <1>5

(* Every step of a request, or of the rest of the program, is one of these. *)
LEMMA StepCases ==
  Next <=> \/ \E r \in Requests : Quiet(r) \/ Commit(r) \/ InsertCa(r)
           \/ \E i \in CertIds : DeleteCert(i) \/ RestoreCert(i)
           \/ \E c \in Cas : DeleteCa(c) \/ RestoreCa(c)
           \/ NukeAll \/ Crash \/ Tick
BY ZenonT(30) DEF Next, Work, Quiet, Commit

(* Every step of CaSigning is a step of the ledger or leaves its rows alone.*)
LEMMA Simulation ==
  ASSUME Inv, [Next]_vars
  PROVE  [Ledger!Next]_ledgerVars
<1>1. ASSUME NEW r \in Requests, Quiet(r)
      PROVE  UNCHANGED ledgerVars
  BY <1>1, QuietKeepsRows
<1>2. ASSUME NEW r \in Requests, Commit(r)
      PROVE  Ledger!Next
  BY <1>2, SimCreateCert, SimImportCert, SimRenewCert, SimRevokeCert, SimRenewCa
  DEF Commit
<1>3. ASSUME NEW r \in Requests, InsertCa(r)
      PROVE  Ledger!Next
  BY <1>3, SimInsertCa
<1>4. ASSUME Crash \/ Tick \/ UNCHANGED vars
      PROVE  UNCHANGED ledgerVars
  BY <1>4 DEF Crash, Tick, vars, ledgerVars
<1> QED BY <1>1, <1>2, <1>3, <1>4, SimState, StepCases

----------------------------------------------------------------------------
(* Types of the requests' state.                                            *)

ReqTypeOK ==
  /\ truststore \in [Cas -> Nat]
  /\ locks \in [Cas -> Lock]
  /\ pc \in [Requests -> Pc]
  /\ arg \in [Requests -> Arg \union {NoArg}]
  /\ \A r \in Requests : InFlight(r) <=> arg[r] # NoArg
  /\ age \in [Requests -> 0..MaxLag]
  /\ snap \in [Requests -> CaSecrets]
  /\ seen \in [Requests -> [CertIds -> Pem \union {NoPem}]]

(* A request's arguments are never NoArg.                                   *)
LEMMA ArgIsNotNoArg == NoArg \notin Arg
<1>1. \A a \in Arg : a.op \in Ops
  BY DEF Arg
<1> QED BY <1>1 DEF NoArg, Ops

(* The memory of an idle or ended request is well-typed.                    *)
LEMMA NoMemory ==
  /\ FinishCaFiles \in CaSecrets
  /\ NotSeen \in [CertIds -> Pem \union {NoPem}]
  /\ 0 \in 0..MaxLag
<1>1. NoCrl \in Crl
  BY DEF NoCrl, Crl
<1> QED BY <1>1, LockAssumption DEF FinishCaFiles, CaSecrets, NotSeen

(* A request that starts is well-typed.                                     *)
LEMMA TypeStart ==
  ASSUME ReqTypeOK, NEW r \in Requests, NEW a \in Arg, NEW to \in {"locking", "inserting"},
         Start(r, a, to)
  PROVE  ReqTypeOK'
<1>1. /\ pc' = [pc EXCEPT ![r] = to] /\ arg' = [arg EXCEPT ![r] = a]
      /\ truststore' = truststore /\ locks' = locks /\ age' = age
      /\ snap' = snap /\ seen' = seen
  BY DEF Start, Goto
<1>2. \A q \in Requests : InFlight(q)' <=> arg'[q] # NoArg
  BY <1>1, ArgIsNotNoArg DEF ReqTypeOK, InFlight, Ended
<1>3. pc' \in [Requests -> Pc] /\ arg' \in [Requests -> Arg \union {NoArg}]
  BY <1>1 DEF ReqTypeOK, Pc
<1> QED BY <1>1, <1>2, <1>3 DEF ReqTypeOK

(* So is one that ends.                                                     *)
LEMMA TypeEnd ==
  ASSUME ReqTypeOK, NEW r \in Requests, NEW to \in Ended, End(r, to),
         truststore' \in [Cas -> Nat], locks' \in [Cas -> Lock]
  PROVE  ReqTypeOK'
<1>1. /\ pc' = [pc EXCEPT ![r] = to] /\ arg' = [arg EXCEPT ![r] = NoArg]
      /\ snap' = [snap EXCEPT ![r] = FinishCaFiles]
      /\ seen' = [seen EXCEPT ![r] = NotSeen]
      /\ age' = [age EXCEPT ![r] = 0]
  BY DEF End, Goto
<1>2. \A q \in Requests : InFlight(q)' <=> arg'[q] # NoArg
  BY <1>1 DEF ReqTypeOK, InFlight, Ended
<1>3. pc' \in [Requests -> Pc] /\ arg' \in [Requests -> Arg \union {NoArg}]
  BY <1>1 DEF ReqTypeOK, Pc, Ended
<1>4. /\ snap' \in [Requests -> CaSecrets]
      /\ seen' \in [Requests -> [CertIds -> Pem \union {NoPem}]]
      /\ age' \in [Requests -> 0..MaxLag]
  BY <1>1, NoMemory DEF ReqTypeOK
<1> QED BY <1>2, <1>3, <1>4 DEF ReqTypeOK

(* And one that goes on.                                                    *)
LEMMA TypeGoto ==
  ASSUME ReqTypeOK, NEW r \in Requests, InFlight(r),
         NEW to \in Pc \ ({"idle"} \union Ended), Goto(r, to), arg' = arg,
         truststore' \in [Cas -> Nat], locks' \in [Cas -> Lock],
         age' \in [Requests -> 0..MaxLag],
         snap' \in [Requests -> CaSecrets],
         seen' \in [Requests -> [CertIds -> Pem \union {NoPem}]]
  PROVE  ReqTypeOK'
<1>1. \A q \in Requests : InFlight(q)' <=> InFlight(q)
  BY DEF ReqTypeOK, Goto, InFlight
<1>2. pc' \in [Requests -> Pc]
  BY DEF ReqTypeOK, Goto
<1> QED BY <1>1, <1>2 DEF ReqTypeOK

(* The rows of ca_locks keep their types.                                   *)
LEMMA TypeLocks ==
  ASSUME ReqTypeOK
  PROVE  /\ \A lag : PurgeExpired(lag) \in [Cas -> Lock]
         /\ \A r, c : ReleaseLock(r, c) \in [Cas -> Lock]
         /\ [c \in Cas |-> NoLock] \in [Cas -> Lock]
<1>1. NoLock \in Lock
  BY DEF NoLock, Lock
<1>2. \A lag : PurgeExpired(lag) \in [Cas -> Lock]
  BY <1>1 DEF PurgeExpired, ReqTypeOK
<1>3. \A r, c : ReleaseLock(r, c) \in [Cas -> Lock]
  BY <1>1 DEF ReleaseLock, ReqTypeOK
<1> QED BY <1>1, <1>2, <1>3

(* The types of the rows and of the requests make up TypeOK.                *)
LEMMA Typed == TypeOK <=> Ledger!LedgerTypeOK /\ ReqTypeOK
BY DEF TypeOK, ReqTypeOK

(* A request's arguments come from the rows it looked at.                   *)
LEMMA TypeBegin ==
  ASSUME Inv, ReqTypeOK, NEW r \in Requests,
         Begin(r) \/ \E c \in Cas : BeginCreateCa(r, c)
  PROVE  ReqTypeOK'
<1> DEFINE A(op, c, i, s, p) ==
             [op |-> op, ca |-> c, cert |-> i, subject |-> s, pem |-> p]
<1>1. \A op \in Ops, c \in Cas, i \in Requests, s \in Subjects \union {NoSubject},
         p \in Pem \union {NoPem} : A(op, c, i, s, p) \in Arg
  BY DEF Arg, CertIds
<1> HIDE DEF A
<1>2. ASSUME NEW c \in Cas, NEW s \in Subjects, BeginCreateCert(r, c, s)
      PROVE  ReqTypeOK'
  <2>1. A("create_cert", c, r, s, NoPem) \in Arg
    BY <1>1 DEF Ops
  <2>2. Start(r, A("create_cert", c, r, s, NoPem), "locking")
    BY <1>2 DEF BeginCreateCert, A
  <2> QED BY <2>1, <2>2, TypeStart
<1>3. ASSUME NEW c \in Cas, NEW p \in ExternalCerts \union Index(secrets[c]),
             BeginImportCert(r, c, p)
      PROVE  ReqTypeOK'
  <2>1. p \in Pem
    <3>1. secrets[c] \in CaSecrets
      BY Rows
    <3>2. Index(secrets[c]) \subseteq Pem
      BY <3>1 DEF CaSecrets, Index
    <3>3. ExternalCerts \subseteq Pem
      BY ExternalAssumption DEF Pem, Serials
    <3> QED BY <3>2, <3>3
  <2>2. p[2] \in Subjects
    BY <2>1 DEF Pem
  <2>3. A("import_cert", c, r, p[2], p) \in Arg
    BY <1>1, <2>1, <2>2 DEF Ops
  <2>4. Start(r, A("import_cert", c, r, p[2], p), "locking")
    BY <1>3 DEF BeginImportCert, A
  <2> QED BY <2>3, <2>4, TypeStart
<1>4. ASSUME NEW c \in Cas, BeginRenewCa(r, c) \/ BeginCreateCa(r, c)
      PROVE  ReqTypeOK'
  <2>1. /\ A("renew_ca", c, r, NoSubject, NoPem) \in Arg
        /\ A("create_ca", c, r, NoSubject, NoPem) \in Arg
    BY <1>1 DEF Ops
  <2>2. \/ Start(r, A("renew_ca", c, r, NoSubject, NoPem), "locking")
        \/ Start(r, A("create_ca", c, r, NoSubject, NoPem), "inserting")
    BY <1>4 DEF BeginRenewCa, BeginCreateCa, A
  <2> QED BY <2>1, <2>2, TypeStart
<1>5. ASSUME NEW i \in CertIds, BeginRenewCert(r, i) \/ BeginRevokeCert(r, i)
      PROVE  ReqTypeOK'
  <2>1. certs[i] \in Ledger!CertRow
    BY <1>5, Rows DEF BeginRenewCert, BeginRevokeCert, CertVisible, CertIds, Ledger!NoRow
  <2>2. certs[i].ca \in Cas /\ certs[i].pem \in Pem
    BY <2>1, SamePipelines DEF Ledger!CertRow
  <2>3. certs[i].pem[2] \in Subjects
    BY <2>2 DEF Pem
  <2>4. /\ A("renew_cert", certs[i].ca, i, certs[i].pem[2], NoPem) \in Arg
        /\ A("revoke_cert", certs[i].ca, i, NoSubject, NoPem) \in Arg
    BY <1>1, <2>2, <2>3 DEF Ops, CertIds
  <2>5. \/ Start(r, A("renew_cert", certs[i].ca, i, certs[i].pem[2], NoPem), "locking")
        \/ Start(r, A("revoke_cert", certs[i].ca, i, NoSubject, NoPem), "locking")
    BY <1>5 DEF BeginRenewCert, BeginRevokeCert, A
  <2> QED BY <2>4, <2>5, TypeStart
<1> QED BY <1>2, <1>3, <1>4, <1>5 DEF Begin

(* The steps under the lock.                                                *)
LEMMA TypeUnderLock ==
  ASSUME Inv, ReqTypeOK, NEW r \in Requests,
         \/ Acquire(r) \/ Recheck(r) \/ ReadCa(r) \/ CheckImportName(r)
         \/ ReadCert(r) \/ ReadCerts(r) \/ Fail(r)
  PROVE  ReqTypeOK'
<1>1. pc[r] \in PreCommit
  BY DEF Acquire, Recheck, ReadCa, CheckImportName, ReadCert, ReadCerts, Fail, PreCommit
<1>2. InFlight(r)
  BY <1>1 DEF PreCommit, InFlight, Ended
<1>3. arg[r].ca \in Cas /\ arg[r].cert \in Requests
  BY <1>1, Requested DEF PreCommit
<1>4. \A i \in CertIds : Ledger!Stored(certs[i]) => certs[i].pem \in Pem
  BY FullRows DEF CertIds, Ledger!Stored
<1>5. CASE Acquire(r)
  <2>1. PICK lag \in 0..age[r] :
           locks' = [PurgeExpired(lag) EXCEPT ![arg[r].ca] =
                       [owner |-> r, left |-> LockTtl - lag]]
    BY <1>5 DEF Acquire
  <2>2. [owner |-> r, left |-> LockTtl - lag] \in Lock
    BY LockAssumption DEF Lock
  <2>3. locks' \in [Cas -> Lock]
    BY <2>1, <2>2, TypeLocks
  <2>4. age' \in [Requests -> 0..MaxLag]
    BY <1>5, NoMemory DEF Acquire, ReqTypeOK
  <2>5. Goto(r, "locked") /\ arg' = arg /\ truststore' = truststore /\ snap' = snap
        /\ seen' = seen
    BY <1>5 DEF Acquire
  <2>6. "locked" \in Pc \ ({"idle"} \union Ended)
    BY DEF Pc, Ended
  <2> HIDE DEF Goto
  <2> QED BY <1>2, <2>3, <2>4, <2>5, <2>6, TypeGoto DEF ReqTypeOK
<1>6. CASE Recheck(r) \/ CheckImportName(r) \/ Fail(r)
  <2>1. /\ \E to \in {"rechecked", "ready", "failing"} : Goto(r, to)
        /\ arg' = arg /\ truststore' = truststore /\ snap' = snap
        /\ seen' = seen /\ age' = age /\ locks' = locks
    BY <1>6 DEF Recheck, CheckImportName, Fail
  <2>2. {"rechecked", "ready", "failing"} \subseteq Pc \ ({"idle"} \union Ended)
    BY DEF Pc, Ended
  <2> QED BY <1>2, <2>1, <2>2, TypeGoto DEF ReqTypeOK
<1>7. CASE ReadCa(r)
  <2>1. /\ \E to \in {"read", "ready"} : Goto(r, to)
        /\ arg' = arg /\ truststore' = truststore
        /\ seen' = seen /\ age' = age /\ locks' = locks
    BY <1>7 DEF ReadCa
  <2>2. {"read", "ready"} \subseteq Pc \ ({"idle"} \union Ended)
    BY DEF Pc, Ended
  <2>3. snap' \in [Requests -> CaSecrets]
    BY <1>3, <1>7, Rows DEF ReadCa, ReqTypeOK
  <2> QED BY <1>2, <2>1, <2>2, <2>3, TypeGoto DEF ReqTypeOK
<1>8. CASE ReadCert(r) \/ ReadCerts(r)
  <2>1. /\ Goto(r, "ready")
        /\ arg' = arg /\ truststore' = truststore
        /\ snap' = snap /\ age' = age /\ locks' = locks
    BY <1>8 DEF ReadCert, ReadCerts
  <2>2. "ready" \in Pc \ ({"idle"} \union Ended)
    BY DEF Pc, Ended
  <2>3. seen' \in [Requests -> [CertIds -> Pem \union {NoPem}]]
    <3>1. CASE ReadCert(r)
      <4>1. certs[arg[r].cert].pem \in Pem
        BY <1>3, <1>4, <3>1 DEF ReadCert, CertVisible, CertIds, Ledger!Stored
      <4> QED BY <4>1, <3>1 DEF ReadCert, ReqTypeOK
    <3>2. CASE ReadCerts(r)
      BY <1>4, <3>2 DEF ReadCerts, ReqTypeOK, CertsOf
    <3> QED BY <1>8, <3>1, <3>2
  <2> QED BY <1>2, <2>1, <2>2, <2>3, TypeGoto DEF ReqTypeOK
<1> QED BY <1>5, <1>6, <1>7, <1>8

(* The commits and the answers.                                             *)
LEMMA TypeReply ==
  ASSUME Inv, ReqTypeOK, NEW r \in Requests,
         \/ Commit(r) \/ InsertCa(r) \/ ReplyNotFound(r) \/ ReplyRenewCa(r)
  PROVE  ReqTypeOK'
<1>1. pc[r] \in {"ready", "reply", "inserting"}
  BY DEF Commit, CommitCreateCert, CommitImportCert, CommitRenewCert,
         CommitRevokeCert, CommitRenewCa, Committing, InsertCa, ReplyNotFound, ReplyRenewCa
<1>2. InFlight(r)
  BY <1>1 DEF InFlight, Ended
<1>3. arg[r].ca \in Cas
  BY <1>1, Requested
<1>4. {"reply", "building", "failing"} \subseteq Pc \ ({"idle"} \union Ended)
  BY DEF Pc, Ended
<1>5. CASE Commit(r)
  <2>1. \E op \in Ops : Committing(r, op)
    BY <1>5 DEF Commit, CommitCreateCert, CommitImportCert, CommitRenewCert,
                CommitRevokeCert, CommitRenewCa, Ops
  <2>2. /\ Goto(r, "reply") /\ arg' = arg /\ snap' = snap /\ seen' = seen /\ age' = age
        /\ locks' = ReleaseLock(r, arg[r].ca)
    BY <2>1, SMTT(20) DEF Committing
  <2>3. truststore' = truststore \/ truststore' = ClearTruststore(arg[r].ca)
    BY <1>5 DEF Commit, CommitCreateCert, CommitImportCert, CommitRenewCert,
                CommitRevokeCert, CommitRenewCa
  <2>4. truststore' \in [Cas -> Nat]
    BY <2>3 DEF ClearTruststore, ReqTypeOK
  <2> QED BY <1>2, <1>4, <2>2, <2>4, TypeGoto, TypeLocks DEF ReqTypeOK
<1>6. CASE InsertCa(r) \/ ReplyRenewCa(r)
  <2>1. /\ Goto(r, "building") /\ arg' = arg /\ seen' = seen /\ age' = age
        /\ locks' = locks /\ truststore' = truststore
        /\ snap' = [snap EXCEPT ![r] = secrets[arg[r].ca]]
    BY <1>6 DEF InsertCa, ReplyRenewCa
  <2>2. snap' \in [Requests -> CaSecrets]
    BY <1>3, <2>1, Rows DEF ReqTypeOK
  <2> QED BY <1>2, <1>4, <2>1, <2>2, TypeGoto DEF ReqTypeOK
<1>7. CASE ReplyNotFound(r)
  <2>1. /\ Goto(r, "failing") /\ arg' = arg /\ seen' = seen /\ age' = age
        /\ locks' = locks /\ truststore' = truststore /\ snap' = snap
    BY <1>7 DEF ReplyNotFound
  <2> QED BY <1>2, <1>4, <2>1, TypeGoto DEF ReqTypeOK
<1> QED BY <1>5, <1>6, <1>7

(* The steps a request ends with.                                           *)
Finish(r) ==
  \/ AcquireBusy(r) \/ Release(r) \/ Reply(r) \/ ReplyRenewCaNotFound(r)
  \/ CreateCaFails(r) \/ BuildTruststore(r) \/ BuildTruststoreFails(r)

(* They end it.                                                             *)
LEMMA FinishEnds ==
  ASSUME NEW r \in Requests, Finish(r)
  PROVE  \E to \in Ended : End(r, to)
BY DEF Finish, AcquireBusy, Release, Reply, ReplyRenewCaNotFound, CreateCaFails,
       BuildTruststore, BuildTruststoreFails, Ended

(* And keep the types.                                                      *)
LEMMA TypeFinish ==
  ASSUME Inv, ReqTypeOK, NEW r \in Requests, Finish(r)
  PROVE  ReqTypeOK'
<1>1. locks' = locks \/ locks' = ReleaseLock(r, arg[r].ca)
  BY DEF Finish, AcquireBusy, Release, Reply, ReplyRenewCaNotFound, CreateCaFails,
         BuildTruststore, BuildTruststoreFails
<1>2. truststore' = truststore \/ truststore' = SetTruststore(arg[r].ca, snap[r].pem)
  BY DEF Finish, AcquireBusy, Release, Reply, ReplyRenewCaNotFound, CreateCaFails,
         BuildTruststore, BuildTruststoreFails
<1>3. snap[r].pem \in Nat
  BY DEF ReqTypeOK, CaSecrets
<1>4. truststore' \in [Cas -> Nat]
  BY <1>2, <1>3 DEF SetTruststore, ReqTypeOK
<1>5. locks' \in [Cas -> Lock]
  BY <1>1, TypeLocks DEF ReqTypeOK
<1> QED BY <1>4, <1>5, FinishEnds, TypeEnd

(* The truststore download.                                                 *)
LEMMA TypeTruststore ==
  ASSUME Inv, ReqTypeOK, NEW r \in Requests,
         FetchTruststore(r) \/ \E c \in Cas : BeginTruststore(r, c)
  PROVE  ReqTypeOK'
<1>1. CASE FetchTruststore(r)
  <2>1. InFlight(r) /\ truststore' = truststore /\ locks' = locks
    BY <1>1 DEF FetchTruststore, InFlight, Ended
  <2>2. \/ /\ Goto(r, "building")
           /\ arg' = arg /\ age' = age /\ snap' = snap /\ seen' = seen
        \/ End(r, "done") \/ End(r, "failed")
    BY <1>1 DEF FetchTruststore
  <2>3. "building" \in Pc \ ({"idle"} \union Ended) /\ {"done", "failed"} \subseteq Ended
    BY DEF Pc, Ended
  <2>4. truststore' \in [Cas -> Nat] /\ locks' \in [Cas -> Lock]
    BY <2>1 DEF ReqTypeOK
  <2>5. CASE Goto(r, "building") /\ arg' = arg /\ age' = age /\ snap' = snap /\ seen' = seen
    BY <2>1, <2>3, <2>4, <2>5, TypeGoto DEF ReqTypeOK
  <2> QED BY <2>2, <2>3, <2>4, <2>5, TypeEnd
<1>2. ASSUME NEW c \in Cas, BeginTruststore(r, c)
      PROVE  ReqTypeOK'
  <2> DEFINE a == [op |-> "truststore", ca |-> c, cert |-> r, subject |-> NoSubject,
                   pem |-> NoPem]
  <2>1. /\ pc' = [pc EXCEPT ![r] = "fetching"]
        /\ arg' = [arg EXCEPT ![r] = a]
        /\ snap' = [snap EXCEPT ![r] = secrets[c]]
        /\ truststore' = truststore /\ locks' = locks /\ age' = age /\ seen' = seen
    BY <1>2 DEF BeginTruststore, Goto
  <2>2. a \in Arg
    BY DEF Arg, Ops, CertIds
  <2> HIDE DEF a
  <2>3. \A q \in Requests : InFlight(q)' <=> arg'[q] # NoArg
    BY <2>1, <2>2, ArgIsNotNoArg DEF ReqTypeOK, InFlight, Ended
  <2>4. pc' \in [Requests -> Pc] /\ arg' \in [Requests -> Arg \union {NoArg}]
    BY <2>1, <2>2 DEF ReqTypeOK, Pc
  <2>5. snap' \in [Requests -> CaSecrets]
    BY <2>1, Rows DEF ReqTypeOK
  <2> QED BY <2>1, <2>3, <2>4, <2>5 DEF ReqTypeOK
<1> QED BY <1>1, <1>2

(* A crash and the passing of time.                                         *)
LEMMA TypeEnvironment ==
  ASSUME ReqTypeOK, Crash \/ Tick
  PROVE  ReqTypeOK'
<1>1. CASE Crash
  <2>1. /\ truststore' = truststore /\ locks' = locks
        /\ pc' = [r \in Requests |-> IF InFlight(r) THEN "dead" ELSE pc[r]]
        /\ arg' = [r \in Requests |-> NoArg]
    BY <1>1 DEF Crash
  <2>2. pc' \in [Requests -> Pc]
    BY <2>1 DEF ReqTypeOK, Pc
  <2>3. \A r \in Requests : ~InFlight(r)' /\ arg'[r] = NoArg
    BY <2>1 DEF InFlight, Ended
  <2>4. /\ age' \in [Requests -> 0..MaxLag]
        /\ snap' \in [Requests -> CaSecrets]
        /\ seen' \in [Requests -> [CertIds -> Pem \union {NoPem}]]
    BY <1>1, NoMemory DEF Crash
  <2> QED BY <2>1, <2>2, <2>3, <2>4 DEF ReqTypeOK
<1>2. CASE Tick
  <2>1. \A c \in Cas : [locks[c] EXCEPT !.left = @ - 1] \in Lock
    <3>1. ASSUME NEW l \in Lock
          PROVE  [l EXCEPT !.left = @ - 1] \in Lock
      <4>1. l.left - 1 \in Int
        BY DEF Lock
      <4> QED BY <4>1 DEF Lock
    <3> QED BY <3>1 DEF ReqTypeOK
  <2>2. locks' \in [Cas -> Lock]
    BY <1>2, <2>1 DEF Tick, ReqTypeOK
  <2>3. age' \in [Requests -> 0..MaxLag]
    BY <1>2, LockAssumption DEF Tick, ReqTypeOK
  <2>4. /\ truststore' = truststore /\ pc' = pc /\ arg' = arg /\ snap' = snap
        /\ seen' = seen
    BY <1>2 DEF Tick
  <2> QED BY <2>2, <2>3, <2>4 DEF ReqTypeOK, InFlight
<1> QED BY <1>1, <1>2

(* Every step keeps the types of the requests' state.                       *)
LEMMA TypeStep ==
  ASSUME Inv, [Next]_vars
  PROVE  ReqTypeOK'
<1>1. ReqTypeOK
  BY Typed DEF Inv
<1>2. ASSUME NEW r \in Requests, Quiet(r) \/ Commit(r) \/ InsertCa(r)
      PROVE  ReqTypeOK'
  BY <1>1, <1>2, TypeBegin, TypeUnderLock, TypeReply, TypeFinish, TypeTruststore
  DEF Quiet, Finish
<1>3. ASSUME \/ \E i \in CertIds : DeleteCert(i) \/ RestoreCert(i)
             \/ \E c \in Cas : DeleteCa(c) \/ RestoreCa(c)
             \/ NukeAll
      PROVE  ReqTypeOK'
  <2>1. /\ truststore' = truststore
        /\ reqVars' = reqVars
        /\ locks' = locks \/ locks' = [c \in Cas |-> NoLock]
    BY <1>3 DEF DeleteCert, RestoreCert, DeleteCa, RestoreCa, NukeAll
  <2> QED BY <1>1, <2>1, TypeLocks DEF ReqTypeOK, InFlight, reqVars
<1>4. ASSUME UNCHANGED vars
      PROVE  ReqTypeOK'
  BY <1>1, <1>4 DEF ReqTypeOK, InFlight, vars, reqVars
<1> QED BY <1>1, <1>2, <1>3, <1>4, TypeEnvironment, StepCases

----------------------------------------------------------------------------
(* What a step leaves of the other requests.                                *)

Same(q) ==
  pc'[q] = pc[q] /\ arg'[q] = arg[q] /\ snap'[q] = snap[q] /\ seen'[q] = seen[q]

(* A request that ends touches its own memory only.                         *)
LEMMA EndSame ==
  ASSUME ReqTypeOK, NEW r \in Requests, NEW to, End(r, to), NEW q \in Requests \ {r}
  PROVE  Same(q)
BY DEF End, Goto, Same, ReqTypeOK

(* A step of a request touches the memory of no other request ...           *)
LEMMA OthersSame ==
  ASSUME Inv, NEW r \in Requests, Quiet(r) \/ Commit(r) \/ InsertCa(r),
         NEW q \in Requests \ {r}
  PROVE  Same(q)
<1>1. ReqTypeOK
  BY Typed DEF Inv
<1>2. ASSUME NEW a, NEW to, Start(r, a, to)
      PROVE  Same(q)
  BY <1>1, <1>2 DEF Start, Goto, Same, ReqTypeOK
<1>3. CASE Begin(r) \/ \E c \in Cas : BeginCreateCa(r, c)
  BY <1>2, <1>3 DEF Begin, BeginCreateCert, BeginImportCert, BeginRenewCert,
                    BeginRevokeCert, BeginRenewCa, BeginCreateCa
<1>4. CASE \E c \in Cas : BeginTruststore(r, c)
  BY <1>1, <1>4 DEF BeginTruststore, Goto, Same, ReqTypeOK
<1>5. CASE Acquire(r) \/ Recheck(r) \/ ReadCa(r) \/ CheckImportName(r) \/ Fail(r)
  BY <1>1, <1>5 DEF Acquire, Recheck, ReadCa, CheckImportName, Fail, Goto, Same, ReqTypeOK
<1>6. CASE ReadCert(r) \/ ReadCerts(r)
  BY <1>1, <1>6 DEF ReadCert, ReadCerts, Goto, Same, ReqTypeOK
<1>7. CASE ReplyNotFound(r) \/ ReplyRenewCa(r) \/ InsertCa(r)
  BY <1>1, <1>7 DEF ReplyNotFound, ReplyRenewCa, InsertCa, Goto, Same, ReqTypeOK
<1>8. CASE Finish(r)
  BY <1>1, <1>8, FinishEnds, EndSame
<1>9. CASE FetchTruststore(r)
  <2>1. CASE End(r, "done") \/ End(r, "failed")
    BY <1>1, <2>1, EndSame
  <2>2. CASE Goto(r, "building") /\ UNCHANGED <<arg, age, snap, seen>>
    BY <1>1, <2>2 DEF Goto, Same, ReqTypeOK
  <2> QED BY <1>9, <2>1, <2>2 DEF FetchTruststore
<1>10. CASE Commit(r)
  <2>1. \E op : Committing(r, op)
    BY <1>10 DEF Commit, CommitCreateCert, CommitImportCert, CommitRenewCert,
                 CommitRevokeCert, CommitRenewCa
  <2> QED BY <1>1, <2>1, SMTT(20) DEF Committing, Goto, Same, ReqTypeOK
<1> QED BY <1>3, <1>4, <1>5, <1>6, <1>7, <1>8, <1>9, <1>10 DEF Quiet, Finish

(* ... and gives no other request a lock.                                   *)
LEMMA NoLockGiven ==
  ASSUME Inv, NEW r \in Requests, Quiet(r) \/ Commit(r) \/ InsertCa(r),
         NEW q \in Requests \ {r}, NEW c \in Cas, locks'[c].owner = q
  PROVE  locks[c].owner = q
<1>1. ReqTypeOK /\ q # NoOwner /\ NoLock.owner = NoOwner
  BY Typed, LockAssumption DEF Inv, NoLock
<1>2. ASSUME NEW d, locks' = ReleaseLock(r, d)
      PROVE  locks[c].owner = q
  BY <1>1, <1>2 DEF ReleaseLock, ReqTypeOK
<1>3. CASE Acquire(r)
  <2>1. PICK lag \in 0..age[r] :
           locks' = [PurgeExpired(lag) EXCEPT ![arg[r].ca] =
                       [owner |-> r, left |-> LockTtl - lag]]
    BY <1>3 DEF Acquire
  <2>2. PurgeExpired(lag)[c].owner = q
    BY <1>1, <2>1, TypeLocks
  <2> QED BY <1>1, <2>2 DEF PurgeExpired
<1>4. CASE locks' = locks
  BY <1>4
<1>5. ASSUME \/ Begin(r) \/ \E d \in Cas : BeginCreateCa(r, d) \/ BeginTruststore(r, d)
      PROVE  locks' = locks
  BY <1>5 DEF Begin, BeginCreateCert, BeginImportCert, BeginRenewCert,
              BeginRevokeCert, BeginRenewCa, BeginCreateCa, Start, BeginTruststore
<1>6. ASSUME \/ AcquireBusy(r) \/ Recheck(r) \/ ReadCa(r)
             \/ CheckImportName(r) \/ ReadCert(r) \/ ReadCerts(r) \/ Fail(r)
             \/ Reply(r) \/ ReplyNotFound(r) \/ ReplyRenewCa(r) \/ ReplyRenewCaNotFound(r)
             \/ CreateCaFails(r) \/ FetchTruststore(r) \/ BuildTruststore(r)
             \/ BuildTruststoreFails(r) \/ InsertCa(r)
      PROVE  locks' = locks
  BY <1>6, SMTT(30) DEF AcquireBusy, Recheck, ReadCa, CheckImportName, ReadCert, ReadCerts, Fail,
              Reply, ReplyNotFound, ReplyRenewCa, ReplyRenewCaNotFound, CreateCaFails,
              FetchTruststore, BuildTruststore, BuildTruststoreFails, InsertCa
<1>7. ASSUME Release(r) \/ Commit(r)
      PROVE  \E d : locks' = ReleaseLock(r, d)
  BY <1>7 DEF Release, Commit, CommitCreateCert, CommitImportCert, CommitRenewCert,
              CommitRevokeCert, CommitRenewCa, Committing
<1> QED BY <1>2, <1>3, <1>4, <1>5, <1>6, <1>7 DEF Quiet

(* The openssl state of c and the certificates of c are not touched.        *)
Keeps(c) ==
  /\ secrets'[c] = secrets[c]
  /\ \A i \in Requests : certs[i].st # "absent" /\ certs[i].ca = c =>
        certs'[i].pem = certs[i].pem /\ certs'[i].revoked = certs[i].revoked
  /\ \A i \in Requests : Ledger!Stored(certs'[i]) /\ certs'[i].ca = c =>
        Ledger!Stored(certs[i]) /\ certs[i].ca = c

(* Steps that only change states of rows keep every CA.                     *)
LEMMA KeepsUnchanged ==
  ASSUME secrets' = secrets, certs' = certs
  PROVE  \A c : Keeps(c)
BY DEF Keeps

(* A commit leaves the CAs alone whose lock another request owns.           *)
LEMMA CommitKeeps ==
  ASSUME Inv, NEW r \in Requests, Commit(r), NEW c \in Cas, locks[c].owner # r
  PROVE  Keeps(c)
<1> DEFINE d == arg[r].ca
<1>1. PICK op \in Ops : Committing(r, op)
  BY DEF Commit, CommitCreateCert, CommitImportCert, CommitRenewCert,
         CommitRevokeCert, CommitRenewCa, Ops
<1>2. d # c /\ d \in Cas /\ arg[r].cert \in Requests
  BY <1>1, Commits DEF Committing, VerifyLock
<1>3. /\ secrets \in [Cas -> CaSecrets]
      /\ certs \in [Requests -> Ledger!CertRow \union {Ledger!NoRow}]
  BY Rows
<1>4. CASE CommitCreateCert(r) \/ CommitImportCert(r)
  <2>1. certs[r] = Ledger!NoRow
    <3>1. Committing(r, "create_cert") \/ Committing(r, "import_cert")
      BY <1>4 DEF CommitCreateCert, CommitImportCert
    <3> QED BY <3>1, Commits DEF Unused, PreCommit
  <2>2. PICK p, g : certs' = [certs EXCEPT ![r] = Ledger!NewRow(d, p, g)]
    BY <1>4 DEF CommitCreateCert, CommitImportCert
  <2>3. certs'[r].ca = d /\ certs[r].st = "absent"
    BY <1>3, <2>1, <2>2 DEF Ledger!NewRow, Ledger!NoRow
  <2>4. \A i \in Requests \ {r} : certs'[i] = certs[i]
    BY <1>3, <2>2
  <2>5. secrets'[c] = secrets[c]
    BY <1>2, <1>3, <1>4 DEF CommitCreateCert, CommitImportCert, SetSecrets
  <2> QED BY <1>2, <2>3, <2>4, <2>5 DEF Keeps
<1>5. CASE CommitRenewCert(r) \/ CommitRevokeCert(r)
  <2> DEFINE i == arg[r].cert
  <2>1. certs[i].ca = d /\ certs[i] \in Ledger!CertRow
    <3>1. Committing(r, "renew_cert") \/ Committing(r, "revoke_cert")
      BY <1>5 DEF CommitRenewCert, CommitRevokeCert
    <3> QED BY <1>2, <3>1, Commits, FullRows DEF Targets
  <2>2. certs'[i].ca = d
    <3>1. CASE CommitRenewCert(r)
      BY <1>2, <1>3, <2>1, <3>1 DEF CommitRenewCert, Ledger!CertRow
    <3>2. CASE CommitRevokeCert(r)
      BY <1>2, <1>3, <2>1, <3>2 DEF CommitRevokeCert, Ledger!CertRow
    <3> QED BY <1>5, <3>1, <3>2
  <2>3. \A j \in Requests \ {i} : certs'[j] = certs[j]
    BY <1>3, <1>5 DEF CommitRenewCert, CommitRevokeCert
  <2>4. secrets'[c] = secrets[c]
    BY <1>2, <1>3, <1>5 DEF CommitRenewCert, CommitRevokeCert, SetSecrets
  <2> QED BY <1>2, <2>1, <2>2, <2>3, <2>4 DEF Keeps
<1>6. CASE CommitRenewCa(r)
  <2>1. ASSUME NEW j \in Requests
        PROVE  IF j \in CertsOf(d)
               THEN certs'[j].ca = certs[j].ca
               ELSE certs'[j] = certs[j]
    <3>1. j \in CertsOf(d) => certs[j] \in Ledger!CertRow
      BY FullRows DEF CertsOf, Ledger!Stored
    <3> QED BY <1>6, <3>1 DEF CommitRenewCa, CertIds, Ledger!CertRow
  <2>2. secrets'[c] = secrets[c]
    BY <1>2, <1>3, <1>6 DEF CommitRenewCa, SetSecrets
  <2> QED BY <1>2, <2>1, <2>2 DEF Keeps, CertsOf, CertIds
<1> QED BY <1>4, <1>5, <1>6 DEF Commit

----------------------------------------------------------------------------
(* The invariant is inductive.                                              *)

(* The ledger stays sound, because every step is one of its steps.          *)
LEMMA LedgerStep ==
  ASSUME Inv, [Next]_vars
  PROVE  /\ LedgerInv'
         /\ \A i \in Requests : certs[i].st # "absent" =>
               /\ certs'[i].st # "absent"
               /\ certs'[i].ca = certs[i].ca
               /\ certs'[i].pem[2] = certs[i].pem[2]
         /\ \A c \in Cas : Index(secrets[c]) \subseteq Index(secrets'[c])
<1>1. LedgerInv /\ [Ledger!Next]_Ledger!ledgerVars
  BY Simulation DEF Inv, ledgerVars, Ledger!ledgerVars
<1>2. LedgerInv'
  BY <1>1, NextIInv
<1>3. /\ \A i \in CertIds : certs[i].st # "absent" =>
            /\ certs'[i].st # "absent"
            /\ certs'[i].ca = certs[i].ca
            /\ certs'[i].pem[2] = certs[i].pem[2]
      /\ \A c \in Cas : Ledger!Index(secrets[c]) \subseteq Ledger!Index(secrets'[c])
  BY <1>1, Kept
<1> QED BY <1>2, <1>3, SamePipelines DEF CertIds

(* A row that is absent stays so unless its own request commits.            *)
LEMMA RowUnused ==
  ASSUME Inv, [Next]_vars, NEW q \in Requests, certs[q] = Ledger!NoRow, ~Commit(q)
  PROVE  certs'[q] = Ledger!NoRow
<1>1. certs \in [Requests -> Ledger!CertRow \union {Ledger!NoRow}] /\ certs[q].st = "absent"
  BY Rows DEF Ledger!NoRow
<1>2. ASSUME NEW r \in Requests \ {q}, CommitCreateCert(r) \/ CommitImportCert(r)
      PROVE  certs'[q] = certs[q]
  BY <1>1, <1>2 DEF CommitCreateCert, CommitImportCert
<1>3. ASSUME NEW r \in Requests, CommitRenewCert(r) \/ CommitRevokeCert(r)
      PROVE  certs'[q] = certs[q]
  BY <1>1, <1>3 DEF CommitRenewCert, CommitRevokeCert, Renewable
<1>4. ASSUME NEW r \in Requests, CommitRenewCa(r)
      PROVE  certs'[q] = certs[q]
  BY <1>1, <1>4 DEF CommitRenewCa, CertsOf, CertIds, Ledger!Stored
<1>5. ASSUME NEW i \in CertIds, DeleteCert(i) \/ RestoreCert(i)
      PROVE  certs'[q] = certs[q]
  BY <1>1, <1>5 DEF DeleteCert, RestoreCert
<1>6. ASSUME NukeAll
      PROVE  certs'[q] = certs[q]
  BY <1>1, <1>6 DEF NukeAll, Ledger!Nuke, CertIds
<1>7. ASSUME \/ \E r \in Requests : Quiet(r) \/ InsertCa(r)
             \/ \E c \in Cas : DeleteCa(c) \/ RestoreCa(c)
             \/ Crash \/ Tick \/ UNCHANGED vars
      PROVE  certs' = certs
  BY <1>7, QuietKeepsRows DEF ledgerVars, InsertCa, DeleteCa, RestoreCa, Crash, Tick, vars
<1> QED
  BY <1>2, <1>3, <1>4, <1>5, <1>6, <1>7, StepCases DEF Commit

(* Where a step takes its request.                                          *)
LEMMA OwnPc ==
  ASSUME Inv, NEW r \in Requests, Quiet(r) \/ Commit(r) \/ InsertCa(r)
  PROVE  /\ pc'[r] # "idle"
         /\ pc'[r] = "inserting" => \E c \in Cas : BeginCreateCa(r, c)
<1>1. pc \in [Requests -> Pc]
  BY DEF Inv, TypeOK
<1>2. CASE Begin(r)
  BY <1>1, <1>2 DEF Begin, BeginCreateCert, BeginImportCert, BeginRenewCert,
                    BeginRevokeCert, BeginRenewCa, Start, Goto
<1>3. CASE \E c \in Cas : BeginCreateCa(r, c) \/ BeginTruststore(r, c)
  BY <1>1, <1>3 DEF BeginCreateCa, BeginTruststore, Start, Goto
<1>4. CASE Acquire(r) \/ Recheck(r) \/ ReadCa(r) \/ CheckImportName(r)
           \/ ReadCert(r) \/ ReadCerts(r) \/ Fail(r)
  BY <1>1, <1>4 DEF Acquire, Recheck, ReadCa, CheckImportName, ReadCert, ReadCerts, Fail, Goto
<1>5. CASE ReplyNotFound(r) \/ ReplyRenewCa(r) \/ InsertCa(r) \/ FetchTruststore(r)
  BY <1>1, <1>5 DEF ReplyNotFound, ReplyRenewCa, InsertCa, FetchTruststore, End, Goto
<1>6. CASE Finish(r)
  <2>1. PICK to \in Ended : pc' = [pc EXCEPT ![r] = to]
    BY <1>6, FinishEnds DEF End, Goto
  <2> QED BY <1>1, <2>1 DEF Ended
<1>7. CASE Commit(r)
  BY <1>1, <1>7, Zenon DEF Commit, CommitCreateCert, CommitImportCert, CommitRenewCert,
                    CommitRevokeCert, CommitRenewCa, Committing, Goto
<1> QED BY <1>2, <1>3, <1>4, <1>5, <1>6, <1>7 DEF Quiet, Finish

(* No two requests insert one CA.                                           *)
LEMMA CreatesCaStep ==
  ASSUME Inv, [Next]_vars, NEW q \in Requests
  PROVE  CreatesCa(q)'
<1>1. /\ pc \in [Requests -> Pc]
      /\ arg \in [Requests -> Arg \union {NoArg}]
      /\ caSt \in [Cas -> Ledger!RowState]
  BY Rows DEF Inv, TypeOK
<1>2. \A p \in Requests : pc[p] = "inserting" => CreatesCa(p) /\ arg[p].ca \in Cas
  BY Requested
<1>3. ASSUME \A p \in Requests : pc'[p] = "inserting" =>
                pc[p] = "inserting" /\ arg'[p] = arg[p] /\ caSt'[arg[p].ca] = "absent"
      PROVE  CreatesCa(q)'
  BY <1>2, <1>3 DEF CreatesCa
<1>4. ASSUME NEW r \in Requests, NEW c \in Cas, BeginCreateCa(r, c)
      PROVE  CreatesCa(q)'
  <2>1. /\ caSt[c] = "absent" /\ caSt' = caSt
        /\ \A p \in Requests : pc[p] = "inserting" => arg[p].ca # c
        /\ pc' = [pc EXCEPT ![r] = "inserting"]
        /\ arg'[r].ca = c
    BY <1>1, <1>4 DEF BeginCreateCa, Start, Goto, ledgerVars
  <2>2. \A p \in Requests \ {r} : pc'[p] = pc[p] /\ arg'[p] = arg[p]
    BY <1>4, OthersSame DEF Quiet, Same
  <2> QED BY <1>1, <1>2, <2>1, <2>2 DEF CreatesCa
<1>5. ASSUME NEW r \in Requests, Quiet(r) \/ Commit(r) \/ InsertCa(r),
             ~\E c \in Cas : BeginCreateCa(r, c)
      PROVE  CreatesCa(q)'
  <2>1. \A p \in Requests : pc'[p] = "inserting" =>
           p # r /\ pc[p] = "inserting" /\ arg'[p] = arg[p]
    BY <1>5, OwnPc, OthersSame DEF Same
  <2>2. CASE caSt' = caSt
    BY <1>2, <1>3, <2>1, <2>2 DEF CreatesCa
  <2>3. CASE InsertCa(r)
    <3>1. pc[r] = "inserting" /\ caSt' = [caSt EXCEPT ![arg[r].ca] = "active"]
      BY <2>3 DEF InsertCa
    <3>2. \A p \in Requests \ {r} : pc[p] = "inserting" => arg[p].ca # arg[r].ca
      BY <1>2, <3>1 DEF CreatesCa
    <3> QED BY <1>1, <1>2, <1>3, <2>1, <3>1, <3>2 DEF CreatesCa
  <2>4. CASE Quiet(r)
    BY <2>2, <2>4, QuietKeepsRows, SMTT(20) DEF ledgerVars
  <2>5. CASE Commit(r)
    BY <2>2, <2>5 DEF Commit, CommitCreateCert, CommitImportCert, CommitRenewCert,
                      CommitRevokeCert, CommitRenewCa, Committing
  <2> QED BY <1>5, <2>3, <2>4, <2>5
<1>6. ASSUME \/ \E i \in CertIds : DeleteCert(i) \/ RestoreCert(i)
             \/ \E c \in Cas : DeleteCa(c) \/ RestoreCa(c)
             \/ NukeAll \/ Tick \/ UNCHANGED vars
      PROVE  CreatesCa(q)'
  <2>1. pc' = pc /\ arg' = arg
    BY <1>6 DEF DeleteCert, RestoreCert, DeleteCa, RestoreCa, NukeAll, Tick, vars, reqVars
  <2>2. \A c \in Cas : caSt[c] = "absent" => caSt'[c] = "absent"
    BY <1>1, <1>6 DEF DeleteCert, RestoreCert, DeleteCa, RestoreCa, NukeAll, Ledger!Nuke,
                      Ledger!Gone, Tick, vars, ledgerVars
  <2> QED BY <1>2, <1>3, <2>1, <2>2 DEF CreatesCa
<1>7. ASSUME Crash
      PROVE  CreatesCa(q)'
  BY <1>1, <1>3, <1>7 DEF Crash, InFlight, Ended
<1> QED BY <1>4, <1>5, <1>6, <1>7, StepCases

(* What a request asks for stays possible as the rows change.               *)
LEMMA AskedStays ==
  ASSUME Inv, [Next]_vars, NEW q \in Requests, InFlight(q), arg'[q] = arg[q]
  PROVE  Targets(q)' /\ Imports(q)'
<1>1. Targets(q) /\ Imports(q) /\ arg[q].ca \in Cas /\ arg[q].cert \in Requests
  BY Requested DEF InFlight, Ended
<1>2. Targets(q)'
  BY <1>1, LedgerStep DEF Targets
<1>3. Imports(q)'
  BY <1>1, LedgerStep DEF Imports
<1> QED BY <1>2, <1>3

(* A request that a step does not touch stays sound, provided that what it  *)
(* read is kept while it owns the lock.                                     *)
LEMMA Frame ==
  ASSUME Inv, [Next]_vars, NEW q \in Requests, Same(q), ~Commit(q),
         InFlight(q) /\ locks'[arg[q].ca].owner = q =>
            Holds(q) /\ Keeps(arg[q].ca)
  PROVE  ReqOK(q)'
<1>1. Unused(q)'
  BY RowUnused DEF Same, Unused, Inv, ReqsOK, ReqOK
<1>2. InFlight(q)' <=> InFlight(q)
  BY DEF Same, InFlight
<1>3. ASSUME InFlight(q)
      PROVE  Targets(q)' /\ Imports(q)' /\ CreatesCa(q)'
  BY <1>3, AskedStays, CreatesCaStep DEF Same
<1>4. ASSUME InFlight(q), pc'[q] \in PreCommit, Holds(q)'
      PROVE  Current(q)'
  <2> DEFINE c == arg[q].ca
             i == arg[q].cert
  <2>1. Holds(q) /\ Keeps(c)
    BY <1>4 DEF Holds, Same
  <2>2. Current(q) /\ Targets(q) /\ c \in Cas /\ i \in Requests
    BY <1>4, <2>1, Requested DEF InFlight, Ended, Same
  <2>3. pc'[q] = pc[q] /\ arg'[q] = arg[q] /\ snap'[q] = snap[q] /\ seen'[q] = seen[q]
    BY DEF Same
  <2>4. pc'[q] \in {"read", "ready"} => snap'[q] = secrets'[arg'[q].ca]
    BY <2>1, <2>2, <2>3 DEF Current, Keeps
  <2>5. arg[q].op \in {"renew_cert", "revoke_cert"} =>
           certs'[i].pem = certs[i].pem /\ certs'[i].revoked = certs[i].revoked
    BY <2>1, <2>2 DEF Targets, Keeps
  <2>6. ASSUME pc'[q] = "ready", arg'[q].op = "renew_ca",
               NEW j \in Requests, Ledger!Stored(certs'[j]), certs'[j].ca = c
        PROVE  seen'[q][j] = certs'[j].pem
    <3>1. Ledger!Stored(certs[j]) /\ certs[j].ca = c
      BY <2>1, <2>6 DEF Keeps
    <3>2. certs'[j].pem = certs[j].pem
      BY <2>1, <3>1 DEF Keeps, Ledger!Stored
    <3> QED BY <2>2, <2>3, <2>6, <3>1, <3>2 DEF Current, CertsOf, CertIds
  <2>7. pc'[q] = "ready" /\ arg'[q].op = "renew_ca" =>
           \A j \in CertsOf(arg[q].ca)' : seen'[q][j] = certs'[j].pem
    BY <2>3, <2>6 DEF CertsOf, CertIds
  <2> QED BY <2>2, <2>3, <2>4, <2>5, <2>7 DEF Current
<1> QED BY <1>1, <1>2, <1>3, <1>4 DEF ReqOK

(* The other requests stay sound when one takes a step.                     *)
LEMMA OthersStep ==
  ASSUME Inv, [Next]_vars, NEW r \in Requests, Quiet(r) \/ Commit(r) \/ InsertCa(r),
         NEW q \in Requests \ {r}
  PROVE  ReqOK(q)'
<1>1. Same(q)
  BY OthersSame
<1>2. ~Commit(q)
  <2>1. Commit(q) => pc[q] = "ready" /\ pc'[q] = "reply"
    BY DEF Commit, CommitCreateCert, CommitImportCert, CommitRenewCert, CommitRevokeCert,
           CommitRenewCa, Committing, Goto, Inv, TypeOK
  <2> QED BY <1>1, <2>1, SMTT(20) DEF Same
<1>3. ASSUME InFlight(q), locks'[arg[q].ca].owner = q
      PROVE  Holds(q) /\ Keeps(arg[q].ca)
  <2>1. arg[q].ca \in Cas
    BY <1>3, Requested DEF InFlight, Ended
  <2>2. locks[arg[q].ca].owner = q
    BY <1>3, <2>1, NoLockGiven
  <2>3. CASE Commit(r)
    BY <2>1, <2>2, <2>3, CommitKeeps DEF Holds
  <2>4. CASE Quiet(r)
    BY <2>2, <2>4, QuietKeepsRows, KeepsUnchanged DEF ledgerVars, Holds
  <2>5. CASE InsertCa(r)
    BY <2>2, <2>5, KeepsUnchanged DEF InsertCa, Holds
  <2> QED BY <2>3, <2>4, <2>5
<1> QED BY <1>1, <1>2, <1>3, Frame

(* A request that starts is sound: its checks make it so.                   *)
LEMMA BeginStep ==
  ASSUME Inv, [Next]_vars, NEW r \in Requests,
         Begin(r) \/ \E c \in Cas : BeginCreateCa(r, c)
  PROVE  ReqOK(r)'
<1>1. ReqTypeOK
  BY Typed DEF Inv
<1>2. UNCHANGED ledgerVars
  BY QuietKeepsRows DEF Quiet
<1>3. CreatesCa(r)'
  BY CreatesCaStep
<1>4. ASSUME NEW a, NEW to \in {"locking", "inserting"}, Start(r, a, to)
      PROVE  /\ pc'[r] = to /\ arg'[r] = a /\ Current(r)' /\ Unused(r)'
  <2>1. pc'[r] = to /\ arg'[r] = a /\ pc[r] = "idle"
    BY <1>1, <1>4 DEF Start, Goto, ReqTypeOK
  <2>2. certs'[r] = Ledger!NoRow
    BY <1>2, <2>1 DEF Inv, ReqsOK, ReqOK, Unused, ledgerVars
  <2> QED BY <2>1, <2>2 DEF Current, Unused
<1>5. ASSUME NEW c \in Cas, NEW s \in Subjects, BeginCreateCert(r, c, s)
      PROVE  ReqOK(r)'
  <2>1. arg'[r].op = "create_cert" /\ arg'[r].subject = s /\ Current(r)' /\ Unused(r)'
    BY <1>4, <1>5 DEF BeginCreateCert
  <2> QED BY <1>3, <2>1 DEF ReqOK, Targets, Imports
<1>6. ASSUME NEW c \in Cas, NEW p \in ExternalCerts \union Index(secrets[c]),
             BeginImportCert(r, c, p)
      PROVE  ReqOK(r)'
  <2>1. /\ arg'[r].op = "import_cert" /\ arg'[r].ca = c /\ arg'[r].pem = p
        /\ Current(r)' /\ Unused(r)'
    BY <1>4, <1>6 DEF BeginImportCert
  <2>2. Imports(r)'
    BY <1>2, <2>1 DEF Imports, ledgerVars
  <2> QED BY <1>3, <2>1, <2>2 DEF ReqOK, Targets
<1>7. ASSUME NEW c \in Cas, BeginRenewCa(r, c) \/ BeginCreateCa(r, c)
      PROVE  ReqOK(r)'
  <2>1. arg'[r].op \in {"renew_ca", "create_ca"} /\ Current(r)' /\ Unused(r)'
    BY <1>4, <1>7 DEF BeginRenewCa, BeginCreateCa
  <2> QED BY <1>3, <2>1 DEF ReqOK, Targets, Imports
<1>8. ASSUME NEW i \in CertIds, BeginRenewCert(r, i) \/ BeginRevokeCert(r, i)
      PROVE  ReqOK(r)'
  <2>1. /\ arg'[r].ca = certs[i].ca /\ arg'[r].cert = i /\ certs[i].st = "active"
        /\ \/ arg'[r].op = "renew_cert" /\ arg'[r].subject = certs[i].pem[2]
           \/ arg'[r].op = "revoke_cert" /\ CrlEnabled
        /\ Current(r)' /\ Unused(r)'
    BY <1>4, <1>8 DEF BeginRenewCert, BeginRevokeCert, CertVisible
  <2>2. Targets(r)' /\ Imports(r)'
    BY <1>2, <2>1 DEF Targets, Imports, ledgerVars
  <2> QED BY <1>3, <2>1, <2>2 DEF ReqOK
<1> QED BY <1>5, <1>6, <1>7, <1>8 DEF Begin

(* A step under the lock keeps its request sound: what it reads is current  *)
(* by definition, what it read before was current if it owned the lock.     *)
LEMMA UnderLockStep ==
  ASSUME Inv, [Next]_vars, NEW r \in Requests,
         \/ Acquire(r) \/ Recheck(r) \/ ReadCa(r) \/ CheckImportName(r)
         \/ ReadCert(r) \/ ReadCerts(r)
  PROVE  ReqOK(r)'
<1> DEFINE c == arg[r].ca
           i == arg[r].cert
<1>1. ReqTypeOK
  BY Typed DEF Inv
<1>2. pc[r] \in PreCommit /\ pc'[r] \in PreCommit \ {"locking"} /\ arg' = arg
  BY <1>1 DEF Acquire, Recheck, ReadCa, CheckImportName, ReadCert, ReadCerts, Goto,
              PreCommit, ReqTypeOK
<1>3. UNCHANGED ledgerVars
  BY QuietKeepsRows DEF Quiet
<1>4. InFlight(r) /\ c \in Cas /\ i \in Requests
  BY <1>2, Requested DEF InFlight, Ended, PreCommit
<1>5. Targets(r)' /\ Imports(r)' /\ CreatesCa(r)'
  BY <1>2, <1>4, AskedStays, CreatesCaStep
<1>6. Unused(r)'
  BY <1>2, <1>3 DEF Unused, Inv, ReqsOK, ReqOK, ledgerVars, PreCommit
<1>7. ASSUME Holds(r)'
      PROVE  Current(r)'
  <2>1. CASE Acquire(r)
    <3>1. pc'[r] = "locked"
      BY <1>1, <2>1 DEF Acquire, Goto, ReqTypeOK
    <3> QED BY <3>1 DEF Current
  <2>2. CASE ~Acquire(r)
    <3>1. locks' = locks
      BY <2>2 DEF Recheck, ReadCa, CheckImportName, ReadCert, ReadCerts
    <3>2. Current(r)
      BY <1>2, <1>7, <3>1, Requested DEF Holds, PreCommit
    <3>3. CASE Recheck(r)
      <4>1. pc'[r] = "rechecked" /\ ~certs[i].revoked
        BY <1>1, <3>3 DEF Recheck, Goto, ReqTypeOK
      <4> QED BY <1>2, <1>3, <4>1 DEF Current, ledgerVars
    <3>4. CASE ReadCa(r)
      <4>1. /\ snap'[r] = secrets[c]
            /\ pc'[r] = IF arg[r].op = "create_cert" THEN "ready" ELSE "read"
            /\ pc[r] = IF arg[r].op = "revoke_cert" THEN "rechecked" ELSE "locked"
        BY <1>1, <3>4 DEF ReadCa, Goto, ReqTypeOK
      <4> QED BY <1>2, <1>3, <3>2, <4>1 DEF Current, ledgerVars
    <3>5. CASE CheckImportName(r)
      <4>1. /\ pc[r] = "read" /\ pc'[r] = "ready" /\ arg[r].op = "import_cert"
            /\ snap' = snap
        BY <1>1, <3>5 DEF CheckImportName, Goto, ReqTypeOK
      <4> QED BY <1>2, <1>3, <3>2, <4>1 DEF Current, ledgerVars
    <3>6. CASE ReadCert(r)
      <4>1. /\ pc[r] = "read" /\ pc'[r] = "ready" /\ snap' = snap
            /\ arg[r].op \in {"renew_cert", "revoke_cert"}
            /\ seen'[r][i] = certs[i].pem
        BY <1>1, <1>4, <3>6 DEF ReadCert, Goto, ReqTypeOK, CertIds
      <4> QED BY <1>2, <1>3, <3>2, <4>1 DEF Current, ledgerVars
    <3>7. CASE ReadCerts(r)
      <4>1. /\ pc[r] = "read" /\ pc'[r] = "ready" /\ snap' = snap
            /\ arg[r].op = "renew_ca"
            /\ \A j \in CertsOf(c) : seen'[r][j] = certs[j].pem
        BY <1>1, <1>4, <3>7 DEF ReadCerts, Goto, ReqTypeOK, CertsOf
      <4>2. \A j \in CertsOf(arg[r].ca)' : seen'[r][j] = certs'[j].pem
        BY <1>2, <1>3, <4>1 DEF CertsOf, ledgerVars
      <4> QED BY <1>2, <1>3, <3>2, <4>1, <4>2 DEF Current, ledgerVars
    <3> QED BY <2>2, <3>3, <3>4, <3>5, <3>6, <3>7
  <2> QED BY <2>1, <2>2
<1> QED BY <1>5, <1>6, <1>7 DEF ReqOK

(* A request past its commit, or one that failed, or one without the lock,  *)
(* has nothing left to be current.                                          *)
LEMMA PastCommitStep ==
  ASSUME Inv, [Next]_vars, NEW r \in Requests, InFlight(r), arg'[r] = arg[r],
         pc'[r] \in {"reply", "failing", "building", "fetching"}
  PROVE  ReqOK(r)'
<1>1. Targets(r)' /\ Imports(r)' /\ CreatesCa(r)'
  BY AskedStays, CreatesCaStep
<1>2. Unused(r)'
  BY DEF Unused, PreCommit
<1> QED BY <1>1, <1>2 DEF ReqOK, PreCommit

(* A request that ended is sound.                                           *)
LEMMA EndedStep ==
  ASSUME ReqTypeOK, NEW r \in Requests, NEW to \in Ended, End(r, to)
  PROVE  ReqOK(r)'
<1>1. pc'[r] \in Ended
  BY DEF End, Goto, ReqTypeOK
<1> QED BY <1>1 DEF ReqOK, Unused, InFlight, Ended, PreCommit

(* So does every step of a request keep it sound.                           *)
LEMMA OwnStep ==
  ASSUME Inv, [Next]_vars, NEW r \in Requests, Quiet(r) \/ Commit(r) \/ InsertCa(r)
  PROVE  ReqOK(r)'
<1>1. ReqTypeOK
  BY Typed DEF Inv
<1>2. CASE Begin(r) \/ \E c \in Cas : BeginCreateCa(r, c)
  BY <1>2, BeginStep
<1>3. CASE \/ Acquire(r) \/ Recheck(r) \/ ReadCa(r) \/ CheckImportName(r)
           \/ ReadCert(r) \/ ReadCerts(r)
  BY <1>3, UnderLockStep
<1>4. CASE Fail(r) \/ ReplyNotFound(r) \/ ReplyRenewCa(r) \/ InsertCa(r)
  <2>1. InFlight(r) /\ arg' = arg /\ pc'[r] \in {"failing", "building"}
    BY <1>1, <1>4 DEF Fail, ReplyNotFound, ReplyRenewCa, InsertCa, Goto, ReqTypeOK,
                      InFlight, Ended
  <2> QED BY <2>1, PastCommitStep
<1>5. CASE Commit(r)
  <2>1. \E op : Committing(r, op)
    BY <1>5 DEF Commit, CommitCreateCert, CommitImportCert, CommitRenewCert,
                CommitRevokeCert, CommitRenewCa
  <2>2. InFlight(r) /\ arg' = arg /\ pc'[r] = "reply"
    BY <1>1, <2>1 DEF Committing, Goto, ReqTypeOK, InFlight, Ended
  <2> QED BY <2>2, PastCommitStep, SMTT(20)
<1>6. CASE Finish(r)
  BY <1>1, <1>6, FinishEnds, EndedStep
<1>7. CASE FetchTruststore(r)
  <2>1. CASE End(r, "done") \/ End(r, "failed")
    BY <1>1, <2>1, EndedStep DEF Ended
  <2>2. CASE Goto(r, "building") /\ UNCHANGED <<arg, age, snap, seen>>
    <3>1. InFlight(r) /\ pc'[r] = "building"
      BY <1>1, <1>7, <2>2 DEF FetchTruststore, Goto, ReqTypeOK, InFlight, Ended
    <3> QED BY <2>2, <3>1, PastCommitStep
  <2> QED BY <1>7, <2>1, <2>2 DEF FetchTruststore
<1>8. ASSUME NEW c \in Cas, BeginTruststore(r, c)
      PROVE  ReqOK(r)'
  <2>1. pc'[r] = "fetching" /\ arg'[r].op = "truststore"
    BY <1>1, <1>8 DEF BeginTruststore, Goto, ReqTypeOK
  <2>2. CreatesCa(r)'
    BY CreatesCaStep
  <2> QED BY <2>1, <2>2 DEF ReqOK, Unused, Targets, Imports, PreCommit
<1> QED BY <1>2, <1>3, <1>4, <1>5, <1>6, <1>7, <1>8 DEF Quiet, Finish

(* Soft delete and restore change only states of rows.                      *)
LEMMA StatesKeep ==
  ASSUME Inv,
         \/ \E i \in CertIds : DeleteCert(i) \/ RestoreCert(i)
         \/ \E c \in Cas : DeleteCa(c) \/ RestoreCa(c),
         NEW c \in Cas
  PROVE  Keeps(c)
<1>1. ASSUME NEW i \in CertIds, DeleteCert(i) \/ RestoreCert(i)
      PROVE  Keeps(c)
  <2>1. certs \in [Requests -> Ledger!CertRow \union {Ledger!NoRow}] /\ i \in Requests
    BY Rows DEF CertIds
  <2>2. \A j \in Requests \ {i} : certs'[j] = certs[j]
    BY <1>1, <2>1 DEF DeleteCert, RestoreCert
  <2>3. certs[i] \in Ledger!CertRow /\ Ledger!Stored(certs[i])
    BY <1>1, <2>1, FullRows DEF DeleteCert, RestoreCert, Ledger!Stored
  <2>4. /\ certs'[i].ca = certs[i].ca /\ certs'[i].pem = certs[i].pem
        /\ certs'[i].revoked = certs[i].revoked
    BY <1>1, <2>1, <2>3 DEF DeleteCert, RestoreCert, Ledger!CertRow
  <2>5. secrets' = secrets
    BY <1>1 DEF DeleteCert, RestoreCert
  <2> QED BY <2>2, <2>3, <2>4, <2>5 DEF Keeps
<1>2. ASSUME NEW d \in Cas, DeleteCa(d) \/ RestoreCa(d)
      PROVE  Keeps(c)
  BY <1>2, KeepsUnchanged DEF DeleteCa, RestoreCa
<1> QED BY <1>1, <1>2

(* The steps of the rest of the program keep every request sound.           *)
LEMMA EnvironmentStep ==
  ASSUME Inv, [Next]_vars, NEW q \in Requests,
         \/ \E i \in CertIds : DeleteCert(i) \/ RestoreCert(i)
         \/ \E c \in Cas : DeleteCa(c) \/ RestoreCa(c)
         \/ NukeAll \/ Tick \/ UNCHANGED vars
  PROVE  ReqOK(q)'
<1>1. Same(q)
  BY DEF DeleteCert, RestoreCert, DeleteCa, RestoreCa, NukeAll, Tick, vars, reqVars, Same
<1>2. ~Commit(q)
  <2>1. Commit(q) => pc[q] = "ready" /\ pc'[q] = "reply"
    BY DEF Commit, CommitCreateCert, CommitImportCert, CommitRenewCert, CommitRevokeCert,
           CommitRenewCa, Committing, Goto, Inv, TypeOK
  <2> QED BY <1>1, <2>1 DEF Same
<1>3. ASSUME InFlight(q), locks'[arg[q].ca].owner = q
      PROVE  Holds(q) /\ Keeps(arg[q].ca)
  <2>1. arg[q].ca \in Cas /\ locks \in [Cas -> Lock] /\ q # NoOwner
    BY <1>3, Requested, LockAssumption DEF InFlight, Ended, Inv, TypeOK
  <2>2. CASE \/ \E i \in CertIds : DeleteCert(i) \/ RestoreCert(i)
             \/ \E c \in Cas : DeleteCa(c) \/ RestoreCa(c)
    <3>1. locks' = locks
      BY <2>2 DEF DeleteCert, RestoreCert, DeleteCa, RestoreCa
    <3> QED BY <1>3, <2>1, <2>2, <3>1, StatesKeep DEF Holds
  <2>3. CASE NukeAll
    BY <1>3, <2>1, <2>3, SMTT(20) DEF NukeAll, NoLock
  <2>4. CASE Tick \/ UNCHANGED vars
    <3>1. locks'[arg[q].ca].owner = locks[arg[q].ca].owner
      BY <2>1, <2>4 DEF Tick, vars, Lock
    <3>2. secrets' = secrets /\ certs' = certs
      BY <2>4 DEF Tick, vars, ledgerVars
    <3> QED BY <1>3, <3>1, <3>2, KeepsUnchanged DEF Holds
  <2> QED BY <2>2, <2>3, <2>4
<1> QED BY <1>1, <1>2, <1>3, Frame

(* A crash ends every request.                                              *)
LEMMA CrashStep ==
  ASSUME Inv, Crash, NEW q \in Requests
  PROVE  ReqOK(q)'
<1>1. pc'[q] = IF InFlight(q) THEN "dead" ELSE pc[q]
  BY DEF Crash
<1>2. certs' = certs
  BY DEF Crash, ledgerVars
<1>3. ~InFlight(q)' /\ pc'[q] \notin PreCommit
  BY <1>1 DEF InFlight, Ended, PreCommit
<1>4. Unused(q)'
  BY <1>1, <1>2, <1>3 DEF Unused, Inv, ReqsOK, ReqOK, InFlight
<1> QED BY <1>3, <1>4 DEF ReqOK

(* The invariant holds initially ...                                        *)
LEMMA InitInv == Init => Inv
<1> SUFFICES ASSUME Init PROVE Inv
  OBVIOUS
<1>1. LedgerInv
  BY InitIInv DEF Init
<1>2. ReqTypeOK
  <2>1. NoLock \in Lock
    BY DEF NoLock, Lock
  <2>2. pc \in [Requests -> Pc]
    BY DEF Init, Pc
  <2> QED BY <2>1, <2>2, NoMemory DEF Init, ReqTypeOK, InFlight
<1>3. ReqsOK
  <2>1. \A r \in Requests : pc[r] = "idle" /\ certs[r] = Ledger!NoRow
    BY DEF Init, Ledger!Init, CertIds
  <2> QED BY <2>1 DEF ReqsOK, ReqOK, Unused, InFlight
<1>4. TypeOK
  BY <1>1, <1>2, Typed DEF LedgerInv
<1> QED BY <1>1, <1>3, <1>4 DEF Inv

(* ... and every step keeps it.                                             *)
LEMMA NextInv == Inv /\ [Next]_vars => Inv'
<1> SUFFICES ASSUME Inv, [Next]_vars PROVE Inv'
  OBVIOUS
<1>1. LedgerInv'
  BY LedgerStep
<1>2. TypeOK'
  <2>1. Ledger!LedgerTypeOK' /\ ReqTypeOK'
    BY <1>1, TypeStep DEF LedgerInv
  <2>2. (Ledger!LedgerTypeOK /\ ReqTypeOK => TypeOK)'
    BY Typed, PTL
  <2> QED BY <2>1, <2>2
<1>3. ASSUME NEW q \in Requests
      PROVE  ReqOK(q)'
  <2>1. ASSUME NEW r \in Requests, Quiet(r) \/ Commit(r) \/ InsertCa(r)
        PROVE  ReqOK(q)'
    BY <2>1, OwnStep, OthersStep
  <2> QED BY <2>1, EnvironmentStep, CrashStep, StepCases
<1> QED BY <1>1, <1>2, <1>3 DEF Inv, ReqsOK

----------------------------------------------------------------------------
(* The theorems.                                                            *)

(* The invariant of the argument holds in every behaviour.                  *)
THEOREM Invariance == Spec => []Inv
BY InitInv, NextInv, PTL DEF Spec

(* Type correctness of the rows, the locks and every request's memory.      *)
THEOREM Typing == Spec => []TypeOK
<1>1. Inv => TypeOK
  BY DEF Inv
<1> QED BY <1>1, Invariance, PTL

(* Overlapping, failing, expiring and crashing requests change the rows     *)
(* exactly as operations that are single steps would.                       *)
THEOREM Refinement == Spec => SigningIsSerial
<1>1. Init => Ledger!Init
  BY DEF Init
<1>2. Inv /\ [Next]_vars => [Ledger!Next]_(Ledger!ledgerVars)
  BY Simulation DEF ledgerVars, Ledger!ledgerVars
<1> QED BY <1>1, <1>2, Invariance, PTL DEF Spec, Ledger!Spec, SigningIsSerial

(* So the signing subsystem keeps the guarantees of the ledger, one by one. *)
LEMMA Guarantees ==
  Inv => /\ SerialsUnique
         /\ IndexComplete
         /\ CrlCurrent
         /\ BundleCurrent
         /\ RenewedSerialsRevoked
BY IInvImplies
DEF Inv, SerialsUnique, IndexComplete, CrlCurrent, BundleCurrent, RenewedSerialsRevoked

(* No serial is assigned twice by a CA, whatever requests sign, fail, lose  *)
(* their lock or die at once (create_cert, renew_cert, serial.txt).         *)
THEOREM UniqueSerials == Spec => []SerialsUnique
<1>1. Inv => SerialsUnique
  BY Guarantees
<1> QED BY <1>1, Invariance, PTL

(* No index entry of a stored certificate is lost to a commit made from an  *)
(* older copy, and a revoked one is on the CRL (update_cert_with_state).    *)
THEOREM KeptIndex == Spec => []IndexComplete
<1>1. Inv => IndexComplete
  BY Guarantees
<1> QED BY <1>1, Invariance, PTL

(* The stored CRL lists exactly what the stored index has revoked, and its  *)
(* number is used up: crl_der, crlnumber_txt and index_txt, which different *)
(* operations write from their copies, stay those of one moment.            *)
THEOREM CurrentCrls == Spec => []CrlCurrent
<1>1. Inv => CrlCurrent
  BY Guarantees
<1> QED BY <1>1, Invariance, PTL

(* Every stored bundle is made of the row's certificate and the present CA  *)
(* certificate, also those rebuilt while others were issued (renew_ca).     *)
THEOREM CurrentBundles == Spec => []BundleCurrent
<1>1. Inv => BundleCurrent
  BY Guarantees
<1> QED BY <1>1, Invariance, PTL

(* Revoking a row revokes the serials of its earlier renewals, too          *)
(* (revoke_superseded_index_entries).                                       *)
THEOREM RevokedRenewals == Spec => []RenewedSerialsRevoked
<1>1. Inv => RenewedSerialsRevoked
  BY Guarantees
<1> QED BY <1>1, Invariance, PTL

(* A revocation is final, also for a renewal that had passed its check.     *)
THEOREM Revocations == Spec => RevocationFinal
<1>1. ASSUME Inv, [Next]_vars
      PROVE  [\A i \in CertIds : Ledger!Stored(certs[i]) /\ certs[i].revoked =>
                 certs'[i].revoked /\ certs'[i].pem = certs[i].pem]_(Ledger!ledgerVars)
  <2>1. [Ledger!Next]_ledgerVars
    BY <1>1, Simulation
  <2>2. ASSUME Ledger!Next, NEW i \in CertIds, Ledger!Stored(certs[i]), certs[i].revoked
        PROVE  certs'[i].revoked /\ certs'[i].pem = certs[i].pem
    BY <1>1, <2>2, RevokedStays DEF Inv, LedgerInv
  <2> QED BY <2>1, <2>2, SamePipelines DEF ledgerVars, Ledger!ledgerVars
<1> QED BY <1>1, Invariance, PTL DEF Spec, RevocationFinal, Ledger!RevocationFinal

(* CRL numbers only grow, although requests generate CRLs from copies.      *)
THEOREM CrlNumbers == Spec => CrlNumberGrows
<1>1. ASSUME Inv, [Next]_vars
      PROVE  [\A c \in Cas : secrets'[c].crl # secrets[c].crl =>
                 secrets'[c].crl.number > secrets[c].crl.number]_(Ledger!ledgerVars)
  <2>1. [Ledger!Next]_ledgerVars
    BY <1>1, Simulation
  <2>2. ASSUME Ledger!Next, NEW c \in Cas, secrets'[c].crl # secrets[c].crl
        PROVE  secrets'[c].crl.number > secrets[c].crl.number
    BY <1>1, <2>2, CrlStep DEF Inv
  <2> QED BY <2>1, <2>2 DEF ledgerVars, Ledger!ledgerVars
<1> QED BY <1>1, Invariance, PTL DEF Spec, CrlNumberGrows, Ledger!CrlNumberGrows

(* A commit other than renew_ca's keeps the CA certificates; renew_ca's     *)
(* changes that of its own CA and empties its truststore.                   *)
LEMMA CommitKeepsTruststore ==
  ASSUME Inv, NEW r \in Requests, Commit(r), TruststoreCurrent
  PROVE  TruststoreCurrent'
<1> DEFINE d == arg[r].ca
<1>1. PICK op \in Ops : Committing(r, op)
  BY DEF Commit, CommitCreateCert, CommitImportCert, CommitRenewCert,
         CommitRevokeCert, CommitRenewCa, Ops
<1>2. d \in Cas /\ arg[r].cert \in Requests /\ snap[r] = secrets[d] /\ secrets[d] \in CaSecrets
  BY <1>1, Commits, Rows
<1>3. /\ secrets \in [Cas -> CaSecrets] /\ truststore \in [Cas -> Nat]
  BY Rows DEF Inv, TypeOK
<1>4. CASE CommitRenewCa(r)
  <2>1. \A c \in Cas \ {d} : secrets'[c] = secrets[c] /\ truststore'[c] = truststore[c]
    BY <1>3, <1>4 DEF CommitRenewCa, SetSecrets, ClearTruststore
  <2>2. truststore'[d] = 0
    BY <1>2, <1>3, <1>4 DEF CommitRenewCa, ClearTruststore
  <2> QED BY <2>1, <2>2 DEF TruststoreCurrent
<1>5. CASE ~CommitRenewCa(r)
  <2>1. truststore' = truststore
    BY <1>5 DEF Commit, CommitCreateCert, CommitImportCert, CommitRenewCert, CommitRevokeCert
  <2>2. \A c \in Cas \ {d} : secrets'[c] = secrets[c]
    BY <1>3, <1>5 DEF Commit, CommitCreateCert, CommitImportCert, CommitRenewCert,
                      CommitRevokeCert, SetSecrets
  <2>3. secrets'[d].pem = secrets[d].pem
    <3>1. CASE CommitCreateCert(r) \/ CommitRenewCert(r)
      <4>1. secrets'[d] = Sign(secrets[d], arg[r].subject)
        BY <1>2, <1>3, <3>1 DEF CommitCreateCert, CommitRenewCert, SetSecrets
      <4> QED BY <1>2, <4>1 DEF Sign, CaSecrets
    <3>2. CASE CommitImportCert(r)
      BY <3>2 DEF CommitImportCert
    <3>3. CASE CommitRevokeCert(r)
      <4>1. secrets'[d] = RevokeCertFiles(secrets[d], seen[r][arg[r].cert])
        BY <1>2, <1>3, <3>3 DEF CommitRevokeCert, SetSecrets
      <4> QED BY <1>2, <4>1 DEF RevokeCertFiles, GenerateCrl, CaSecrets
    <3> QED BY <1>5, <3>1, <3>2, <3>3 DEF Commit
  <2> QED BY <2>1, <2>2, <2>3 DEF TruststoreCurrent
<1> QED BY <1>4, <1>5

(* The stored truststore is never that of an old CA certificate, although   *)
(* it is built without the lock (set_ca_truststore's WHERE cert_pem = ?).   *)
THEOREM Truststores == Spec => []TruststoreCurrent
<1>1. Init => TruststoreCurrent
  BY DEF Init, Ledger!Init, Ledger!NewCaSecrets, Ledger!GenerateCrl, Ledger!FinishCaFiles,
         TruststoreCurrent
<1>2. ASSUME Inv, [Next]_vars, TruststoreCurrent
      PROVE  TruststoreCurrent'
  <2>1. ASSUME NEW r \in Requests, BuildTruststore(r)
        PROVE  TruststoreCurrent'
    BY <1>2, <2>1
    DEF BuildTruststore, SetTruststore, TruststoreCurrent, ledgerVars, Inv, TypeOK
  <2>2. ASSUME secrets' = secrets, truststore' = truststore
        PROVE  TruststoreCurrent'
    BY <1>2, <2>2 DEF TruststoreCurrent
  <2>3. ASSUME NEW r \in Requests, Quiet(r), ~BuildTruststore(r)
        PROVE  truststore' = truststore
    <3>1. CASE Begin(r) \/ \E c \in Cas : BeginCreateCa(r, c) \/ BeginTruststore(r, c)
      BY <3>1 DEF Begin, BeginCreateCert, BeginImportCert, BeginRenewCert,
                  BeginRevokeCert, BeginRenewCa, BeginCreateCa, Start, BeginTruststore
    <3>2. CASE \/ Acquire(r) \/ AcquireBusy(r) \/ Recheck(r) \/ ReadCa(r)
               \/ CheckImportName(r) \/ ReadCert(r) \/ ReadCerts(r) \/ Fail(r)
      BY <3>2 DEF Acquire, AcquireBusy, Recheck, ReadCa, CheckImportName, ReadCert,
                  ReadCerts, Fail
    <3>3. CASE \/ Release(r) \/ Reply(r) \/ ReplyNotFound(r) \/ ReplyRenewCa(r)
               \/ ReplyRenewCaNotFound(r) \/ CreateCaFails(r) \/ FetchTruststore(r)
               \/ BuildTruststoreFails(r)
      BY <3>3 DEF Release, Reply, ReplyNotFound, ReplyRenewCa, ReplyRenewCaNotFound,
                  CreateCaFails, FetchTruststore, BuildTruststoreFails
    <3> QED BY <2>3, <3>1, <3>2, <3>3 DEF Quiet
  <2>4. ASSUME NEW r \in Requests, Quiet(r)
        PROVE  secrets' = secrets
    BY <2>4, QuietKeepsRows DEF ledgerVars
  <2>5. ASSUME \/ \E r \in Requests : InsertCa(r)
               \/ \E i \in CertIds : DeleteCert(i) \/ RestoreCert(i)
               \/ \E c \in Cas : DeleteCa(c) \/ RestoreCa(c)
               \/ NukeAll \/ Crash \/ Tick \/ UNCHANGED vars
        PROVE  secrets' = secrets /\ truststore' = truststore
    BY <2>5 DEF InsertCa, DeleteCert, RestoreCert, DeleteCa, RestoreCa, NukeAll,
                Ledger!Nuke, Crash, Tick, vars, ledgerVars
  <2> QED
    BY <1>2, <2>1, <2>2, <2>3, <2>4, <2>5, CommitKeepsTruststore, StepCases
<1> QED BY <1>1, <1>2, Invariance, PTL DEF Spec
=============================================================================
