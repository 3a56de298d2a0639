----------------------------- MODULE OpensslCa -----------------------------
(***************************************************************************)
(* What the openssl pipelines of src/src/openssl.rs do to the state of one *)
(* certificate authority.  The code keeps that state as five blobs of a    *)
(* row (CaSecrets: cert_pem, index_txt, serial_txt, crl_der,               *)
(* crlnumber_txt), writes them into a work directory, runs openssl there   *)
(* and reads the files back.  Here the blobs are their contents:           *)
(*                                                                         *)
(*   pem        the generation of the CA certificate (a renewal re-signs   *)
(*              the same key under a new random serial, so generations     *)
(*              are distinct certificates)                                 *)
(*   valid      the 'V' lines of index.txt                                 *)
(*   revoked    the 'R' lines of index.txt                                 *)
(*   serial     the next serial of serial.txt                              *)
(*   crl        the serials crl_der lists and its CRL number, NoCrl while  *)
(*              no CRL has been generated                                  *)
(*   crlnumber  the next CRL number of crlnumber.txt                       *)
(*                                                                         *)
(* A leaf certificate is its serial and its subject DN, which is also what *)
(* index.txt records of it.                                                *)
(***************************************************************************)
EXTENDS Naturals

CONSTANTS
  Subjects,       \* subject DNs requests may ask for
  ExternalCerts   \* certificates this CA's key signed before it was imported

ASSUME ExternalAssumption ==
  \A e \in ExternalCerts :
     /\ e = <<e[1], e[2]>>
     /\ e[1] \notin Nat
     /\ e[2] \in Subjects
     /\ \A f \in ExternalCerts : e[1] = f[1] => e = f

\* A serial this CA assigns itself comes from its counter; serials of external
\* certificates are other values: the counter starts at a random 128-bit number.
Serials == Nat \union {e[1] : e \in ExternalCerts}

\* A certificate, as index.txt identifies it: serial and subject.
Pem == Serials \X Subjects

NoCrl == [listed |-> {}, number |-> 0]

Crl == [listed : SUBSET Serials, number : Nat]

CaSecrets ==
  [pem : Nat, valid : SUBSET Pem, revoked : SUBSET Pem, serial : Nat,
   crl : Crl, crlnumber : Nat]

SerialsOf(entries) == {e[1] : e \in entries}

\* Every line of index.txt.
Index(ca) == ca.valid \union ca.revoked

----------------------------------------------------------------------------
(* finish_ca_files: an empty index, a random first serial (here 1), CRL     *)
(* number 1, no CRL yet.                                                    *)
FinishCaFiles ==
  [pem |-> 1, valid |-> {}, revoked |-> {}, serial |-> 1, crl |-> NoCrl,
   crlnumber |-> 1]

(* `openssl ca -gencrl`: the CRL lists the revoked entries of index.txt     *)
(* under the number in crlnumber.txt, which then advances.                  *)
GenerateCrl(ca) ==
  [ca EXCEPT !.crl = [listed |-> SerialsOf(ca.revoked), number |-> ca.crlnumber],
             !.crlnumber = @ + 1]

(* create_cert_files, renew_cert_files: `openssl ca` signs the request      *)
(* under the next serial, records it as valid and advances serial.txt.      *)
NextCert(ca, subject) == <<ca.serial, subject>>

SignKeepingSerial(ca, subject) ==   \* mutant: serial.txt is not read back
  [ca EXCEPT !.valid = @ \union {NextCert(ca, subject)}]

Sign(ca, subject) ==
  [ca EXCEPT !.valid = @ \union {NextCert(ca, subject)}, !.serial = @ + 1]

(* `openssl ca -revoke` refuses a serial whose index entry is revoked.      *)
CanRevoke(ca, cert) == cert[1] \notin SerialsOf(ca.revoked)

(* `openssl ca -revoke` marks the certificate revoked, adding it to the     *)
(* index when it is not there (an imported one); the code then marks every  *)
(* other valid entry with the same subject (revoke_superseded_index_entries)*)
Superseded(ca, cert) == {e \in ca.valid : e[2] = cert[2]}

RevokeOnlyCurrent(ca, cert) ==   \* mutant: earlier serials stay valid
  GenerateCrl([ca EXCEPT !.valid = @ \ {cert}, !.revoked = @ \union {cert}])

RevokeCertFiles(ca, cert) ==
  LET old == Superseded(ca, cert) IN
  GenerateCrl([ca EXCEPT !.valid = @ \ old,
                         !.revoked = @ \union {cert} \union old])

(* renew_ca_files: the same key and subject under a new serial.  renew_ca   *)
(* re-signs the CRL only when CRLs are enabled.                             *)
RenewCaFiles(ca, crlEnabled) ==
  LET renewed == [ca EXCEPT !.pem = @ + 1] IN
  IF crlEnabled THEN GenerateCrl(renewed) ELSE renewed

(* attach_initial_crl: a new CA has a first, empty CRL when CRLs are        *)
(* enabled.                                                                 *)
NewCaSecrets(crlEnabled) ==
  IF crlEnabled THEN GenerateCrl(FinishCaFiles) ELSE FinishCaFiles

(* build_bundle: the download bundle holds the certificate and the CA's.    *)
BuildBundle(cert, caPem) == [cert |-> cert, ca |-> caPem]
=============================================================================
