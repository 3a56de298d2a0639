--------------------------- MODULE ValidityProofs ---------------------------
(***************************************************************************)
(* Theorems about Validity, for every length of a day, of the lock and of  *)
(* the life of the CA, for any requests and imports, and for every bound   *)
(* on the clock.  The argument: what a request knows at its check, that    *)
(* its days end with the CA it has read and after what it replaces, can    *)
(* only get better, as long as the CA certificate is only replaced by a    *)
(* longer one; and renew_ca does that because the request that still owns  *)
(* the lock at its commit is the one that read the present certificate.    *)
(***************************************************************************)
EXTENDS Validity, TLAPS

----------------------------------------------------------------------------
(* Division.                                                                *)

LEMMA Monotone ==
  ASSUME NEW a \in Int, NEW b \in Int, NEW d \in Nat, a <= b
  PROVE  a * d <= b * d
  BY SMT

LEMMA Quotient ==
  ASSUME NEW a \in Int, NEW d \in Nat \ {0}
  PROVE  /\ a \div d \in Int
         /\ (a \div d) * d <= a
         /\ a < (a \div d) * d + d
  BY SMT

(* A clamped number of days can be issued and ends with the CA.             *)
LEMMA ClampEnds ==
  ASSUME now \in Nat, NEW pem \in Pem, NEW days \in Days, CanIssue(pem)
  PROVE  /\ Clamp(pem, days) \in Days
         /\ now + Clamp(pem, days) * DayLen <= pem.to
<1> DEFINE left == (pem.to - now) \div DayLen
<1>1. left \in Int /\ left * DayLen <= pem.to - now
  BY Quotient, ConstantsAssumption DEF Pem
<1>2. left >= 1
  BY DEF CanIssue, DaysLeft
<1>3. Clamp(pem, days) = (IF days > left THEN left ELSE days)
  BY DEF Clamp, DaysLeft
<1>4. days \in Nat /\ 1 <= days /\ days <= MaxDays
  BY ConstantsAssumption DEF Days
<1> HIDE DEF left
<1>5. CASE days > left
  BY <1>1, <1>2, <1>3, <1>4, <1>5, ConstantsAssumption DEF Days, Pem
<1>6. CASE ~(days > left)
  <2>1. days * DayLen <= left * DayLen
    BY <1>1, <1>4, <1>6, Monotone, ConstantsAssumption
  <2>2. days * DayLen \in Int
    BY <1>4, ConstantsAssumption
  <2>3. left * DayLen \in Int
    BY <1>1, ConstantsAssumption
  <2> QED
    BY <1>1, <1>3, <1>4, <1>6, <2>1, <2>2, <2>3 DEF Days, Pem
<1> QED
  BY <1>5, <1>6

(* The row derived from a certificate ends with it or in the day after.     *)
LEMMA DerivedEnds ==
  ASSUME NEW pem \in Pem, pem.from < pem.to
  PROVE  LET row == ValidityFromInfo(pem)
         IN /\ row \in Row
            /\ Expiry(row) \in Int
            /\ pem.to <= Expiry(row)
            /\ Expiry(row) - pem.to <= DayLen - 1
<1> DEFINE days == (pem.to - pem.from + DayLen - 1) \div DayLen
<1>1. /\ pem.from \in Int /\ pem.to \in Int
      /\ pem.to - pem.from + DayLen - 1 \in Int
  BY ConstantsAssumption DEF Pem
<1>2. /\ days \in Int
      /\ days * DayLen <= pem.to - pem.from + DayLen - 1
      /\ pem.to - pem.from + DayLen - 1 < days * DayLen + DayLen
  BY <1>1, Quotient, ConstantsAssumption
<1>3. ValidityFromInfo(pem) = [issue |-> pem.from, days |-> IF days < 1 THEN 1 ELSE days]
  BY DEF ValidityFromInfo
<1> HIDE DEF days
<1>4. days * DayLen \in Int
  BY <1>2, ConstantsAssumption
<1>5. days >= 1
  <2> SUFFICES ASSUME days <= 0
               PROVE  FALSE
    BY <1>2
  <2>1. days * DayLen <= 0 * DayLen
    BY <1>2, Monotone, ConstantsAssumption
  <2> QED
    BY <1>1, <1>2, <1>4, <2>1, ConstantsAssumption
<1>6. ValidityFromInfo(pem) = [issue |-> pem.from, days |-> days]
  BY <1>2, <1>3, <1>5
<1> QED
  BY <1>1, <1>2, <1>4, <1>5, <1>6, ConstantsAssumption DEF Row, Expiry

(* A certificate without the life of ValidityFromInfo still has a row.      *)
LEMMA DerivedRow ==
  ASSUME NEW pem \in Pem
  PROVE  ValidityFromInfo(pem) \in Row
<1> DEFINE days == (pem.to - pem.from + DayLen - 1) \div DayLen
<1>1. pem.to - pem.from + DayLen - 1 \in Int
  BY ConstantsAssumption DEF Pem
<1>2. days \in Int
  BY <1>1, Quotient, ConstantsAssumption
<1>3. ValidityFromInfo(pem) = [issue |-> pem.from, days |-> IF days < 1 THEN 1 ELSE days]
  BY DEF ValidityFromInfo
<1> HIDE DEF days
<1> QED
  BY <1>2, <1>3 DEF Row, Pem

----------------------------------------------------------------------------
(* The invariant.  A request knows, from its check to its commit, how far   *)
(* its days reach; it reads a CA certificate that can only be replaced by a *)
(* longer one; and the owner of the lock has seen the present one.          *)
Leaves == {"create_cert", "renew_cert"}

Live(r) == pc[r] \notin {"idle", "ended"}

Phase(r) ==
  /\ pc[r] = "asked" => mem[r].op = "renew_cert"
  /\ pc[r] = "read" => mem[r].op \in Leaves
  /\ pc[r] = "signing" => mem[r].op = "renew_ca"
  /\ pc[r] = "listed" => mem[r].op = "repair"

(* The end of the days of a request, counted from its check.                *)
CheckedEnd(r) == mem[r].at + mem[r].days * DayLen

Checked(r) ==
  pc[r] \in {"checked", "locked", "signed"} =>
     /\ mem[r].op \in Leaves => CheckedEnd(r) <= mem[r].ca.to
     /\ mem[r].op = "renew_cert" => CheckedEnd(r) > Expiry(mem[r].row)

Made(r) ==
  /\ mem[r].op = "import_cert" => mem[r].pem \in Imports
  /\ pc[r] = "signed" /\ mem[r].op # "import_cert" =>
        /\ mem[r].pem.to = mem[r].pem.from + mem[r].days * DayLen
        /\ mem[r].at <= mem[r].pem.from
        /\ mem[r].pem.from <= now

Newest(r) ==
  pc[r] \in {"signing", "signed"} /\ mem[r].op = "renew_ca" /\ lock.owner = r =>
     CheckedEnd(r) > ca.pem.to

ReqOK(r) ==
  Live(r) =>
     /\ mem[r] \in Mem
     /\ mem[r].at <= now
     /\ mem[r].ca.to <= ca.pem.to
     /\ Phase(r) /\ Checked(r) /\ Made(r) /\ Newest(r)

CertOK(i) ==
  Exists(i) =>
     LET slack == IF certs[i].lag = 0 THEN DayLen - 1 ELSE certs[i].lag
     IN /\ certs[i].pem.to - certs[i].lag <= Expiry(certs[i].row)
        /\ Distance(Expiry(certs[i].row), certs[i].pem.to) <= slack
        /\ certs[i].lag > 0 => certs[i].pem.to <= ca.pem.to + certs[i].lag

IInv ==
  /\ TypeOK
  /\ \A r \in Requests : ReqOK(r)
  /\ \A i \in Ids : CertOK(i)

(* A step of another request, or of the clock, keeps what a request knows.  *)
LEMMA ReqKept ==
  ASSUME NEW r \in Requests, TypeOK, TypeOK', ReqOK(r),
         pc'[r] = pc[r], mem'[r] = mem[r], now <= now', ca.pem.to <= ca'.pem.to,
         lock'.owner = r => lock.owner = r /\ ca'.pem = ca.pem
  PROVE  ReqOK(r)'
<1> SUFFICES ASSUME Live(r)
             PROVE  ReqOK(r)'
  BY DEF ReqOK, Live
<1>1. /\ mem[r] \in Mem /\ mem[r].at <= now /\ mem[r].ca.to <= ca.pem.to
      /\ Phase(r) /\ Checked(r) /\ Made(r) /\ Newest(r)
  BY DEF ReqOK
<1>2. /\ now \in Int /\ now' \in Int
      /\ ca.pem.to \in Int /\ ca'.pem.to \in Int
      /\ mem[r].at \in Int /\ mem[r].ca.to \in Int /\ mem[r].pem.from \in Int
  BY <1>1, ConstantsAssumption DEF TypeOK, Ca, Pem, Mem
<1>3. (mem[r].at <= now)' /\ (mem[r].ca.to <= ca.pem.to)'
  BY <1>1, <1>2
<1>4. Phase(r)' /\ Checked(r)'
  BY <1>1 DEF Phase, Checked, CheckedEnd, Expiry
<1>5. Made(r)'
  BY <1>1, <1>2 DEF Made
<1>6. Newest(r)'
  BY <1>1 DEF Newest, CheckedEnd
<1> QED
  BY <1>1, <1>3, <1>4, <1>5, <1>6 DEF ReqOK

(* A step that leaves the row of a certificate alone and does not shorten   *)
(* the CA keeps what is known of it.                                        *)
LEMMA CertKept ==
  ASSUME NEW i \in Ids, TypeOK, TypeOK', CertOK(i),
         certs'[i] = certs[i], ca.pem.to <= ca'.pem.to
  PROVE  CertOK(i)'
<1> SUFFICES ASSUME Exists(i)
             PROVE  CertOK(i)'
  BY DEF CertOK, Exists
<1>1. certs[i] \in Cert /\ ca.pem.to \in Int /\ ca'.pem.to \in Int
  BY DEF TypeOK, Ca, Pem, Exists, Ids
<1> QED
  BY <1>1 DEF CertOK, Exists, Cert, Pem, Distance, Expiry

----------------------------------------------------------------------------
(* The steps.                                                               *)

(* The other requests are where they were; they own the lock only if they   *)
(* did, and not when the CA certificate is replaced.                        *)
Alone(r) ==
  /\ now' = now
  /\ \A q \in Requests \ {r} : pc'[q] = pc[q] /\ mem'[q] = mem[q]
  /\ ca.pem.to <= ca'.pem.to
  /\ \A q \in Requests \ {r} : lock'.owner = q => lock.owner = q /\ ca'.pem = ca.pem

(* It is enough to look at the request that moves and at the rows it        *)
(* changes.                                                                 *)
LEMMA StepOfOne ==
  ASSUME IInv, NEW r \in Requests, Alone(r), TypeOK', ReqOK(r)',
         \A i \in Ids : certs'[i] = certs[i] \/ CertOK(i)'
  PROVE  IInv'
<1>1. now \in Int /\ now <= now'
  BY ConstantsAssumption DEF IInv, TypeOK, Alone
<1>2. ASSUME NEW q \in Requests
      PROVE  ReqOK(q)'
  <2>1. CASE q = r
    BY <2>1
  <2>2. CASE q # r
    BY <1>1, <2>2, ReqKept DEF IInv, Alone
  <2> QED
    BY <2>1, <2>2
<1>3. ASSUME NEW i \in Ids
      PROVE  CertOK(i)'
  BY <1>3, CertKept DEF IInv, Alone
<1> QED
  BY <1>2, <1>3 DEF IInv

(* A request begins.                                                        *)
LEMMA StartStep ==
  ASSUME IInv, NEW r \in Requests, NEW i \in Ids, NEW days \in Days, NEW row \in Row,
         NEW op \in {"create_cert", "renew_cert", "renew_ca", "repair"},
         NEW to \in {"asked", "read", "checked", "listed"},
         to = "asked" => op = "renew_cert",
         to = "read" => op \in Leaves,
         to = "checked" => op = "renew_ca",
         to = "listed" => op = "repair",
         Start(r, op, i, days, row, to)
  PROVE  IInv'
<1> USE DEF IInv
<1>1. /\ pc' = [pc EXCEPT ![r] = to]
      /\ mem'[r] = [op |-> op, cert |-> i, days |-> days, row |-> row, ca |-> ca.pem,
                    at |-> now, pem |-> ca.pem]
      /\ \A q \in Requests \ {r} : pc'[q] = pc[q] /\ mem'[q] = mem[q]
      /\ UNCHANGED <<now, ca, certs, lock>>
  BY DEF Start, Goto, TypeOK
<1>2. ca.pem \in Pem /\ now \in Nat
  BY ConstantsAssumption DEF TypeOK, Ca
<1>3. mem'[r] \in Mem
  BY <1>1, <1>2 DEF Mem
<1>4. TypeOK'
  BY <1>1, <1>3 DEF Start, Goto, TypeOK, Pc
<1>5. Alone(r)
  BY <1>1, <1>2 DEF Alone, Pem
<1>6. pc'[r] = to
  BY <1>1 DEF TypeOK
<1>7. ReqOK(r)'
  <2>1. (mem[r].at <= now)' /\ (mem[r].ca.to <= ca.pem.to)'
    BY <1>1, <1>2 DEF Pem
  <2>2. Phase(r)' /\ Made(r)'
    BY <1>1, <1>6 DEF Phase, Made
  <2>3. Checked(r)' /\ Newest(r)'
    BY <1>1, <1>6 DEF Checked, Newest, Leaves
  <2> QED
    BY <1>3, <2>1, <2>2, <2>3 DEF ReqOK
<1> QED
  BY <1>1, <1>4, <1>5, <1>7, StepOfOne

(* A request ends and changes no row.                                       *)
LEMMA EndStep ==
  ASSUME IInv, NEW r \in Requests, End(r), TypeOK', UNCHANGED <<now, certs>>,
         lock' = lock \/ lock' = ReleaseLock(r), ca'.pem = ca.pem
  PROVE  IInv'
<1> USE DEF IInv
<1>1. /\ pc'[r] = "ended"
      /\ \A q \in Requests \ {r} : pc'[q] = pc[q] /\ mem'[q] = mem[q]
  BY DEF End, Goto, TypeOK
<1>2. ReqOK(r)'
  BY <1>1 DEF ReqOK, Live
<1>3. \A q \in Requests : lock'.owner = q => lock.owner = q
  BY ConstantsAssumption DEF ReleaseLock, TypeOK
<1>4. Alone(r)
  BY <1>1, <1>3 DEF Alone, TypeOK, Ca, Pem
<1> QED
  BY <1>2, <1>4, StepOfOne

LEMMA ImportedOK ==
  ASSUME NEW pem \in Imports
  PROVE  LET c == ImportedCert(pem)
         IN /\ c \in Cert
            /\ c.pem = pem /\ c.lag = 0
            /\ pem.to <= Expiry(c.row)
            /\ Distance(Expiry(c.row), pem.to) <= DayLen - 1
<1>1. pem \in Pem /\ pem.from < pem.to /\ pem.to \in Int
  BY ImportsAssumption DEF Pem
<1>2. /\ ValidityFromInfo(pem) \in Row
      /\ Expiry(ValidityFromInfo(pem)) \in Int
      /\ pem.to <= Expiry(ValidityFromInfo(pem))
      /\ Expiry(ValidityFromInfo(pem)) - pem.to <= DayLen - 1
  BY <1>1, DerivedEnds
<1>3. ImportedCert(pem) = [pem |-> pem, row |-> ValidityFromInfo(pem), lag |-> 0]
  BY DEF ImportedCert
<1>4. Distance(Expiry(ValidityFromInfo(pem)), pem.to)
        = Expiry(ValidityFromInfo(pem)) - pem.to
  BY <1>1, <1>2, ConstantsAssumption DEF Distance
<1> QED
  BY <1>1, <1>2, <1>3, <1>4 DEF Cert

LEMMA ImportedCertOK ==
  ASSUME NEW i \in Ids, NEW pem \in Imports, certs[i] = ImportedCert(pem)
  PROVE  CertOK(i)
<1>1. pem \in Pem
  BY ImportsAssumption
<1> QED
  BY <1>1, ImportedOK DEF CertOK, Pem

LEMMA Initially == Init => IInv
<1> SUFFICES ASSUME Init
             PROVE  IInv
  OBVIOUS
<1> USE DEF Init
<1>1. ASSUME NEW i \in Ids
      PROVE  /\ certs[i] \in Cert \union {NoCert}
             /\ CertOK(i)
  <2>1. CASE certs[i] = NoCert
    BY <2>1 DEF CertOK, Exists
  <2>2. CASE \E pem \in Imports : certs[i] = ImportedCert(pem)
    BY <2>2, ImportedOK, ImportedCertOK
  <2> QED
    BY <2>1, <2>2
<1>2. ca \in Ca
  <2>1. CaDays * DayLen \in Int /\ 2 * CaDays \in Nat
    BY ConstantsAssumption
  <2> QED
    BY <2>1, ConstantsAssumption DEF Ca, Pem, Row, FabricatedRow
<1>3. TypeOK
  BY <1>1, <1>2, ConstantsAssumption DEF TypeOK, Pc
<1> QED
  BY <1>1, <1>3 DEF IInv, ReqOK, Live

LEMMA BeginStep ==
  ASSUME IInv, NEW r \in Requests, Begin(r)
  PROVE  IInv'
<1> USE DEF IInv
<1>0. r \in Ids /\ ca.row \in Row /\ 1 \in Days
  BY ConstantsAssumption DEF Ids, TypeOK, Ca, Days
<1>1. ASSUME NEW days \in Days, BeginCreateCert(r, days)
      PROVE  IInv'
  BY <1>0, <1>1, StartStep DEF BeginCreateCert, Leaves
<1>2. ASSUME NEW days \in Days, NEW i \in Ids, BeginRenewCert(r, i, days)
      PROVE  IInv'
  <2>1. certs[i].row \in Row
    BY <1>2 DEF BeginRenewCert, Exists, TypeOK, Cert
  <2> QED
    BY <1>2, <2>1, StartStep DEF BeginRenewCert, Leaves
<1>3. ASSUME NEW days \in Days, BeginRenewCa(r, days)
      PROVE  IInv'
  BY <1>0, <1>3, StartStep DEF BeginRenewCa
<1>4. CASE BeginRepair(r)
  BY <1>0, <1>4, StartStep DEF BeginRepair
<1>5. ASSUME NEW pem \in Imports, BeginImportCert(r, pem)
      PROVE  IInv'
  <2>1. /\ pc' = [pc EXCEPT ![r] = "checked"]
        /\ mem'[r] = [op |-> "import_cert", cert |-> r, days |-> 1, row |-> ca.row,
                      ca |-> ca.pem, at |-> now, pem |-> pem]
        /\ \A q \in Requests \ {r} : pc'[q] = pc[q] /\ mem'[q] = mem[q]
        /\ UNCHANGED <<now, ca, certs, lock>>
    BY <1>5 DEF BeginImportCert, Goto, TypeOK
  <2>2. ca.pem \in Pem /\ now \in Nat /\ pem \in Pem
    BY ConstantsAssumption, ImportsAssumption DEF TypeOK, Ca
  <2>3. mem'[r] \in Mem
    BY <1>0, <2>1, <2>2 DEF Mem
  <2>4. TypeOK'
    BY <1>5, <2>1, <2>3 DEF BeginImportCert, TypeOK, Pc
  <2>5. Alone(r)
    BY <2>1, <2>2 DEF Alone, Pem
  <2>6. ReqOK(r)'
    <3>1. pc'[r] = "checked"
      BY <2>1 DEF TypeOK
    <3>2. (mem[r].at <= now)' /\ (mem[r].ca.to <= ca.pem.to)'
      BY <2>1, <2>2 DEF Pem
    <3>3. Phase(r)' /\ Checked(r)' /\ Made(r)' /\ Newest(r)'
      BY <2>1, <3>1 DEF Phase, Checked, Made, Newest, Leaves
    <3> QED
      BY <2>3, <3>2, <3>3 DEF ReqOK
  <2> QED
    BY <2>1, <2>4, <2>5, <2>6, StepOfOne
<1> QED
  BY <1>1, <1>2, <1>3, <1>4, <1>5 DEF Begin

(* A request goes on, under the lock or to get it; no row changes.          *)
LEMMA MoveStep ==
  ASSUME IInv, NEW r \in Requests, Live(r), NEW to \in Pc,
         NEW m \in Mem, m.at <= now, m.ca.to <= ca.pem.to,
         pc' = [pc EXCEPT ![r] = to], mem' = [mem EXCEPT ![r] = m],
         UNCHANGED <<now, ca, certs>>,
         lock' = lock \/ lock' = [owner |-> r, until |-> now + LockTtl],
         Phase(r)', Checked(r)', Made(r)', Newest(r)'
  PROVE  IInv'
<1> USE DEF IInv
<1>1. /\ mem'[r] = m
      /\ \A q \in Requests \ {r} : pc'[q] = pc[q] /\ mem'[q] = mem[q]
  BY DEF TypeOK
<1>2. TypeOK'
  BY ConstantsAssumption DEF TypeOK
<1>3. ReqOK(r)'
  BY <1>1 DEF ReqOK
<1>4. Alone(r)
  BY <1>1 DEF Alone, TypeOK, Ca, Pem
<1> QED
  BY <1>2, <1>3, <1>4, StepOfOne

LEMMA ReadCaStep ==
  ASSUME IInv, NEW r \in Requests, ReadCa(r)
  PROVE  IInv'
<1> USE DEF IInv
<1> DEFINE m == [mem[r] EXCEPT !.ca = ca.pem]
<1>1. pc[r] = "asked" /\ mem[r].op = "renew_cert" /\ Live(r) /\ ReqOK(r)
  BY DEF ReadCa, Live, ReqOK, Phase
<1>2. /\ pc' = [pc EXCEPT ![r] = "read"] /\ pc'[r] = "read"
      /\ mem' = [mem EXCEPT ![r] = m] /\ mem'[r] = m
      /\ UNCHANGED <<now, ca, certs, lock>>
  BY DEF ReadCa, Goto, TypeOK
<1>3. mem[r] \in Mem /\ ca.pem \in Pem /\ mem[r].at <= now
  BY <1>1 DEF ReqOK, TypeOK, Ca
<1>4. m \in Mem /\ m.at = mem[r].at /\ m.ca = ca.pem /\ m.op = "renew_cert"
  BY <1>1, <1>3 DEF Mem
<1> HIDE DEF m
<1>5. Phase(r)' /\ Checked(r)' /\ Made(r)' /\ Newest(r)'
  BY <1>2, <1>4 DEF Phase, Checked, Made, Newest, Leaves
<1>6. m.at <= now /\ m.ca.to <= ca.pem.to
  BY <1>3, <1>4 DEF Pem
<1> QED
  BY <1>1, <1>2, <1>4, <1>5, <1>6, MoveStep DEF Pc

LEMMA CheckStep ==
  ASSUME IInv, NEW r \in Requests, Check(r)
  PROVE  IInv'
<1> USE DEF IInv
<1> DEFINE days == Clamp(mem[r].ca, mem[r].days)
           m == [mem[r] EXCEPT !.days = days, !.at = now]
<1>1. /\ pc[r] = "read" /\ Live(r) /\ mem[r] \in Mem /\ mem[r].op \in Leaves
      /\ mem[r].ca.to <= ca.pem.to
  BY DEF Check, Live, ReqOK, Phase
<1>2. /\ CanIssue(mem[r].ca)
      /\ mem[r].op = "renew_cert" => Extends(days, Expiry(mem[r].row))
      /\ pc' = [pc EXCEPT ![r] = "checked"]
      /\ mem' = [mem EXCEPT ![r].days = days, ![r].at = now]
      /\ UNCHANGED <<now, ca, certs, lock>>
  BY DEF Check, Goto
<1>3. now \in Nat /\ mem[r].ca \in Pem /\ mem[r].days \in Days
  BY <1>1, ConstantsAssumption DEF TypeOK, Mem
<1>4. days \in Days /\ now + days * DayLen <= mem[r].ca.to
  BY <1>2, <1>3, ClampEnds
<1> HIDE DEF days
<1>5. /\ m \in Mem /\ m.at = now /\ m.days = days
      /\ m.ca = mem[r].ca /\ m.op = mem[r].op /\ m.row = mem[r].row
  BY <1>1, <1>3, <1>4 DEF Mem
<1>6. mem' = [mem EXCEPT ![r] = m]
  BY <1>2
<1> HIDE DEF m
<1>7. mem'[r] = m /\ pc'[r] = "checked"
  BY <1>2, <1>6 DEF TypeOK
<1>8. Phase(r)' /\ Made(r)' /\ Newest(r)'
  BY <1>1, <1>5, <1>7 DEF Phase, Made, Newest, Leaves
<1>9. Checked(r)'
  BY <1>2, <1>4, <1>5, <1>7 DEF Checked, CheckedEnd, Extends, Expiry
<1>10. m.at <= now /\ m.ca.to <= ca.pem.to
  BY <1>1, <1>3, <1>5
<1> QED
  BY <1>1, <1>2, <1>5, <1>6, <1>8, <1>9, <1>10, MoveStep DEF Pc

LEMMA AcquireStep ==
  ASSUME IInv, NEW r \in Requests, Acquire(r)
  PROVE  IInv'
<1> USE DEF IInv
<1>1. pc[r] = "checked" /\ Live(r) /\ ReqOK(r)
  BY DEF Acquire, Live
<1>2. /\ pc' = [pc EXCEPT ![r] = "locked"] /\ pc'[r] = "locked"
      /\ mem' = mem /\ mem' = [mem EXCEPT ![r] = mem[r]]
      /\ UNCHANGED <<now, ca, certs>>
      /\ lock' = [owner |-> r, until |-> now + LockTtl]
  BY DEF Acquire, Goto, TypeOK
<1>3. Phase(r)' /\ Checked(r)' /\ Made(r)' /\ Newest(r)'
  BY <1>1, <1>2 DEF ReqOK, Phase, Checked, Made, Newest, CheckedEnd, Expiry
<1> QED
  BY <1>1, <1>2, <1>3, MoveStep DEF ReqOK, Pc

LEMMA SignStep ==
  ASSUME IInv, NEW r \in Requests, SignLeaf(r) \/ SignCa(r)
  PROVE  IInv'
<1> USE DEF IInv
<1> DEFINE made == Signed(mem[r].days)
           m == [mem[r] EXCEPT !.pem = made]
<1>1. /\ \/ pc[r] = "locked" /\ mem[r].op \in Leaves
         \/ pc[r] = "signing"
      /\ Live(r) /\ ReqOK(r)
  BY DEF SignLeaf, SignCa, Live, Leaves
<1>2. /\ pc' = [pc EXCEPT ![r] = "signed"] /\ pc'[r] = "signed"
      /\ mem' = [mem EXCEPT ![r] = m] /\ mem'[r] = m
      /\ UNCHANGED <<now, ca, certs, lock>>
  BY DEF SignLeaf, SignCa, Goto, TypeOK
<1>3. /\ mem[r] \in Mem /\ mem[r].at <= now /\ mem[r].ca.to <= ca.pem.to
      /\ mem[r].at \in Int /\ now \in Int /\ mem[r].days * DayLen \in Int
  BY <1>1, ConstantsAssumption DEF ReqOK, Mem, TypeOK, Days
<1>4. /\ made \in Pem
      /\ made.from = now /\ made.to = now + mem[r].days * DayLen
  BY <1>3 DEF Signed, Pem
<1> HIDE DEF made
<1>5. /\ m \in Mem /\ m.pem = made /\ m.at = mem[r].at /\ m.days = mem[r].days
      /\ m.ca = mem[r].ca /\ m.op = mem[r].op /\ m.row = mem[r].row
  BY <1>3, <1>4 DEF Mem
<1> HIDE DEF m
<1>6. Phase(r)' /\ Newest(r)'
  BY <1>1, <1>2, <1>5 DEF ReqOK, Phase, Newest, CheckedEnd, Leaves
<1>7. Checked(r)'
  BY <1>1, <1>2, <1>5 DEF ReqOK, Phase, Checked, CheckedEnd, Expiry, Leaves
<1>8. Made(r)'
  BY <1>1, <1>2, <1>3, <1>4, <1>5 DEF ReqOK, Phase, Made, Leaves
<1> QED
  BY <1>1, <1>2, <1>3, <1>5, <1>6, <1>7, <1>8, MoveStep DEF Pc

LEMMA VerifyImportStep ==
  ASSUME IInv, NEW r \in Requests, VerifyImport(r)
  PROVE  IInv'
<1> USE DEF IInv
<1>1. pc[r] = "locked" /\ mem[r].op = "import_cert" /\ Live(r) /\ ReqOK(r)
  BY DEF VerifyImport, Live
<1>2. /\ pc' = [pc EXCEPT ![r] = "signed"] /\ pc'[r] = "signed"
      /\ mem' = mem /\ mem' = [mem EXCEPT ![r] = mem[r]]
      /\ UNCHANGED <<now, ca, certs, lock>>
  BY DEF VerifyImport, Goto, TypeOK
<1>3. Phase(r)' /\ Checked(r)' /\ Made(r)' /\ Newest(r)'
  BY <1>1, <1>2 DEF ReqOK, Phase, Checked, Made, Newest, Leaves
<1> QED
  BY <1>1, <1>2, <1>3, MoveStep DEF ReqOK, Pc

LEMMA CheckCaStep ==
  ASSUME IInv, NEW r \in Requests, CheckCa(r)
  PROVE  IInv'
<1> USE DEF IInv
<1> DEFINE m == [mem[r] EXCEPT !.ca = ca.pem, !.at = now]
<1>1. pc[r] = "locked" /\ mem[r].op = "renew_ca" /\ Live(r) /\ ReqOK(r)
  BY DEF CheckCa, Live
<1>2. /\ Extends(mem[r].days, ca.pem.to)
      /\ pc' = [pc EXCEPT ![r] = "signing"] /\ pc'[r] = "signing"
      /\ mem' = [mem EXCEPT ![r] = m] /\ mem'[r] = m
      /\ UNCHANGED <<now, ca, certs, lock>>
  BY DEF CheckCa, Goto, TypeOK
<1>3. mem[r] \in Mem /\ ca.pem \in Pem /\ now \in Nat
  BY <1>1, ConstantsAssumption DEF ReqOK, TypeOK, Ca
<1>4. /\ m \in Mem /\ m.at = now /\ m.days = mem[r].days /\ m.ca = ca.pem
      /\ m.op = "renew_ca" /\ m.pem = mem[r].pem
  BY <1>1, <1>3 DEF Mem
<1> HIDE DEF m
<1>5. Phase(r)' /\ Checked(r)' /\ Made(r)'
  BY <1>2, <1>4 DEF Phase, Checked, Made
<1>6. Newest(r)'
  BY <1>2, <1>4 DEF Newest, CheckedEnd, Extends
<1>7. m.at <= now /\ m.ca.to <= ca.pem.to
  BY <1>3, <1>4 DEF Pem
<1> QED
  BY <1>1, <1>2, <1>4, <1>5, <1>6, <1>7, MoveStep DEF Pc

----------------------------------------------------------------------------
(* The commits.                                                             *)

(* What holds of a leaf that is committed with an issue_time t.             *)
LEMMA SignedCertOK ==
  ASSUME IInv, NEW r \in Requests, NEW i \in Ids, NEW t \in Int,
         pc[r] = "signed", mem[r].op \in Leaves, mem[r].at <= t, t <= now,
         certs'[i] = [pem |-> mem[r].pem, row |-> [issue |-> t, days |-> mem[r].days],
                      lag |-> now - mem[r].at],
         ca' = ca
  PROVE  certs'[i] \in Cert /\ CertOK(i)'
<1> USE DEF IInv
<1>1. /\ mem[r] \in Mem /\ mem[r].at <= now /\ mem[r].ca.to <= ca.pem.to
      /\ CheckedEnd(r) <= mem[r].ca.to
      /\ mem[r].pem.to = mem[r].pem.from + mem[r].days * DayLen
      /\ mem[r].at <= mem[r].pem.from /\ mem[r].pem.from <= now
  BY DEF ReqOK, Live, Checked, Made, Leaves
<1>2. /\ mem[r].pem \in Pem /\ mem[r].pem.from \in Int /\ mem[r].pem.to \in Int
      /\ mem[r].days \in Nat /\ mem[r].days * DayLen \in Int
      /\ mem[r].at \in Nat /\ now \in Nat
      /\ mem[r].ca.to \in Int /\ ca.pem.to \in Int
  BY <1>1, ConstantsAssumption DEF Mem, Pem, Days, TypeOK, Ca
<1> DEFINE life == mem[r].days * DayLen
           lag == now - mem[r].at
<1>3. lag \in Nat
  BY <1>1, <1>2
<1>4. certs'[i] \in Cert
  BY <1>2, <1>3 DEF Cert, Row
<1>5. /\ certs'[i].pem.to = mem[r].pem.from + life
      /\ Expiry(certs'[i].row) = t + life
      /\ certs'[i].lag = lag
  BY <1>1 DEF Expiry
<1>6. mem[r].at + life <= ca.pem.to
  BY <1>1, <1>2 DEF CheckedEnd
<1> HIDE DEF life
<1>7. life \in Int
  BY <1>2 DEF life
<1>8. mem[r].pem.from + life - lag <= t + life
  BY <1>1, <1>2, <1>7
<1>9. Distance(t + life, mem[r].pem.from + life) <= lag
  BY <1>1, <1>2, <1>7 DEF Distance
<1>10. lag = 0 => lag <= DayLen - 1
  BY ConstantsAssumption
<1>11. mem[r].pem.from + life <= ca.pem.to + lag
  BY <1>1, <1>2, <1>6, <1>7
<1> HIDE DEF lag
<1>12. /\ certs'[i].pem.to - certs'[i].lag <= Expiry(certs'[i].row)
       /\ Distance(Expiry(certs'[i].row), certs'[i].pem.to) <= lag
       /\ certs'[i].pem.to <= ca.pem.to + lag
  <2>1. certs'[i].pem.to - certs'[i].lag <= Expiry(certs'[i].row)
    <3>1. certs'[i].pem.to - certs'[i].lag = mem[r].pem.from + life - lag
      BY ONLY <1>2, <1>3, <1>5, <1>7
    <3>2. Expiry(certs'[i].row) = t + life
      BY <1>5
    <3> QED
      BY ONLY <1>8, <3>1, <3>2, Zenon
  <2>2. Distance(Expiry(certs'[i].row), certs'[i].pem.to) <= lag
    BY ONLY <1>5, <1>9, Zenon
  <2>3. certs'[i].pem.to <= ca.pem.to + lag
    BY ONLY <1>5, <1>11, Zenon
  <2> QED
    BY <2>1, <2>2, <2>3
<1>13. CertOK(i)'
  <2>1. (Expiry(certs[i].row))' = Expiry(certs'[i].row)
    BY DEF Expiry
  <2>2. (Distance(Expiry(certs[i].row), certs[i].pem.to))'
          = Distance(Expiry(certs'[i].row), certs'[i].pem.to)
    BY DEF Distance, Expiry
  <2>3. lag = 0 => Distance(Expiry(certs'[i].row), certs'[i].pem.to) <= DayLen - 1
    <3>1. Distance(t + life, mem[r].pem.from + life) \in Int
      BY <1>2, <1>7 DEF Distance
    <3>2. lag = 0 => Distance(t + life, mem[r].pem.from + life) <= DayLen - 1
      BY <1>3, <1>9, <1>10, <3>1, ConstantsAssumption
    <3> QED
      BY ONLY <1>5, <3>2, Zenon
  <2>4. Exists(i)' => LET slack == IF lag = 0 THEN DayLen - 1 ELSE lag
                      IN Distance(Expiry(certs'[i].row), certs'[i].pem.to) <= slack
    BY <1>12, <2>3
  <2> QED
    BY <1>5, <1>12, <2>1, <2>2, <2>4 DEF CertOK
<1> QED
  BY <1>4, <1>13

(* A commit ends the request, releases its lock and writes one row.         *)
LEMMA CommitStep ==
  ASSUME IInv, NEW r \in Requests, NEW i \in Ids, NEW c \in Cert,
         pc[r] = "signed", VerifyLock(r), lock' = ReleaseLock(r), End(r),
         UNCHANGED <<now, ca>>,
         certs' = [certs EXCEPT ![i] = c], CertOK(i)'
  PROVE  IInv'
<1> USE DEF IInv
<1>1. /\ pc'[r] = "ended"
      /\ \A q \in Requests \ {r} : pc'[q] = pc[q] /\ mem'[q] = mem[q]
  BY DEF End, Goto, TypeOK
<1>2. ReqOK(r)'
  BY <1>1 DEF ReqOK, Live
<1>3. /\ lock' \in [owner : Requests \union {NoOwner}, until : Int]
      /\ \A q \in Requests : lock'.owner = q => lock.owner = q
  BY ConstantsAssumption DEF ReleaseLock, TypeOK
<1>4. Alone(r)
  BY <1>1, <1>3 DEF Alone, TypeOK, Ca, Pem
<1>5. TypeOK'
  BY <1>3 DEF TypeOK, End, Goto, Pc
<1>6. \A j \in Ids : certs'[j] = certs[j] \/ CertOK(j)'
  BY DEF TypeOK
<1> QED
  BY <1>2, <1>4, <1>5, <1>6, StepOfOne

LEMMA CommitLeafStep ==
  ASSUME IInv, NEW r \in Requests,
         CommitCreateCert(r) \/ CommitImportCert(r) \/ CommitRenewCert(r)
  PROVE  IInv'
<1> USE DEF IInv
<1>1. /\ pc[r] = "signed" /\ VerifyLock(r) /\ lock' = ReleaseLock(r) /\ End(r)
      /\ UNCHANGED <<now, ca>>
      /\ r \in Ids /\ ReqOK(r) /\ Live(r)
  BY DEF CommitCreateCert, CommitImportCert, CommitRenewCert, Committing, Ids, Live
<1>2. /\ mem[r] \in Mem /\ mem[r].cert \in Ids /\ mem[r].at \in Int /\ now \in Int
      /\ mem[r].at <= now
  BY <1>1, ConstantsAssumption DEF ReqOK, Mem, TypeOK
<1>3. CASE CommitCreateCert(r)
  <2>1. mem[r].op = "create_cert"
    BY <1>3 DEF CommitCreateCert, Committing
  <2>2. PICK t \in mem[r].pem.from..now :
           certs' = [certs EXCEPT ![r] =
                       [pem |-> mem[r].pem, row |-> [issue |-> t, days |-> mem[r].days],
                        lag |-> now - mem[r].at]]
    BY <1>3 DEF CommitCreateCert
  <2>3. t \in Int /\ mem[r].at <= t /\ t <= now
    <3>1. mem[r].at <= mem[r].pem.from /\ mem[r].pem.from \in Int
      BY <1>1, <1>2, <2>1 DEF ReqOK, Made, Mem, Pem
    <3> QED
      BY <1>2, <3>1
  <2>4. certs'[r] \in Cert /\ CertOK(r)'
    BY <1>1, <2>1, <2>2, <2>3, SignedCertOK DEF Leaves, TypeOK
  <2> QED
    BY <1>1, <2>2, <2>4, CommitStep DEF TypeOK
<1>4. CASE CommitImportCert(r)
  <2>1. /\ mem[r].pem \in Imports
        /\ certs' = [certs EXCEPT ![r] = ImportedCert(mem[r].pem)]
    BY <1>1, <1>4 DEF CommitImportCert, Committing, ReqOK, Made
  <2>2. ImportedCert(mem[r].pem) \in Cert
    BY <2>1, ImportedOK
  <2>3. certs'[r] = ImportedCert(mem[r].pem)
    BY <1>1, <2>1 DEF TypeOK
  <2>4. CertOK(r)'
    <3> DEFINE pem == mem[r].pem
    <3>1. /\ certs'[r].lag = 0 /\ certs'[r].pem = pem /\ pem.to \in Int
          /\ pem.to <= Expiry(certs'[r].row)
          /\ Distance(Expiry(certs'[r].row), pem.to) <= DayLen - 1
      BY <2>1, <2>3, ImportedOK, ImportsAssumption DEF Pem
    <3> HIDE DEF pem
    <3> QED
      BY <3>1 DEF CertOK, Expiry, Distance
  <2> QED
    BY <1>1, <2>1, <2>2, <2>4, CommitStep
<1>5. CASE CommitRenewCert(r)
  <2>0. PICK i \in Ids : i = mem[r].cert
    BY <1>2
  <2>1. /\ mem[r].op = "renew_cert"
        /\ certs' = [certs EXCEPT ![i] =
                       [pem |-> mem[r].pem, row |-> [issue |-> mem[r].at, days |-> mem[r].days],
                        lag |-> now - mem[r].at]]
    BY <1>5, <2>0 DEF CommitRenewCert, Committing, RenewedRow
  <2>2. certs'[i] \in Cert /\ CertOK(i)'
    BY <1>1, <1>2, <2>1, SignedCertOK DEF Leaves, TypeOK
  <2> QED
    BY <1>1, <1>2, <2>1, <2>2, CommitStep DEF TypeOK
<1> QED
  BY <1>3, <1>4, <1>5

(* renew_ca extends the certificate: its owner has seen the present one.    *)
LEMMA CommitRenewCaExtends ==
  ASSUME IInv, NEW r \in Requests, CommitRenewCa(r)
  PROVE  /\ ca'.pem = mem[r].pem /\ ca' \in Ca
         /\ ca.pem.to < ca'.pem.to
<1> USE DEF IInv
<1>1. /\ pc[r] = "signed" /\ lock.owner = r /\ mem[r].op = "renew_ca" /\ ReqOK(r)
      /\ ca' = [ca EXCEPT !.pem = mem[r].pem, !.row = RenewedRow(r)]
  BY DEF CommitRenewCa, Committing, VerifyLock
<1>2. /\ mem[r] \in Mem /\ Made(r) /\ Newest(r)
  BY <1>1 DEF ReqOK, Live
<1>3. /\ mem[r].pem.to = mem[r].pem.from + mem[r].days * DayLen
      /\ mem[r].at <= mem[r].pem.from
      /\ mem[r].at + mem[r].days * DayLen > ca.pem.to
  BY <1>1, <1>2 DEF Made, Newest, CheckedEnd
<1>4. /\ mem[r].pem \in Pem /\ mem[r].pem.from \in Int /\ mem[r].pem.to \in Int
      /\ mem[r].days \in Nat /\ mem[r].days * DayLen \in Int
      /\ mem[r].at \in Nat /\ ca \in Ca /\ ca.pem.to \in Int
  BY <1>2, ConstantsAssumption DEF Mem, Pem, Days, TypeOK, Ca
<1> DEFINE life == mem[r].days * DayLen
<1>5. life \in Int /\ mem[r].pem.to = mem[r].pem.from + life /\ mem[r].at + life > ca.pem.to
  BY <1>3, <1>4
<1> HIDE DEF life
<1>6. ca.pem.to < mem[r].pem.to
  BY <1>3, <1>4, <1>5
<1>7. RenewedRow(r) \in Row
  BY <1>4 DEF RenewedRow, Row
<1> QED
  BY <1>1, <1>4, <1>6, <1>7 DEF Ca

LEMMA CommitRenewCaStep ==
  ASSUME IInv, NEW r \in Requests, CommitRenewCa(r)
  PROVE  IInv'
<1> USE DEF IInv
<1>1. /\ lock.owner = r /\ lock' = ReleaseLock(r) /\ End(r) /\ UNCHANGED <<now, certs>>
  BY DEF CommitRenewCa, Committing, VerifyLock
<1>2. ca' \in Ca /\ ca.pem.to < ca'.pem.to
  BY CommitRenewCaExtends
<1>3. /\ pc'[r] = "ended"
      /\ \A q \in Requests \ {r} : pc'[q] = pc[q] /\ mem'[q] = mem[q]
  BY <1>1 DEF End, Goto, TypeOK
<1>4. ReqOK(r)'
  BY <1>3 DEF ReqOK, Live
<1>5. /\ lock' \in [owner : Requests \union {NoOwner}, until : Int]
      /\ lock'.owner = NoOwner
  BY <1>1, ConstantsAssumption DEF ReleaseLock, TypeOK
<1>6. Alone(r)
  <2>1. ca.pem.to \in Int /\ ca'.pem.to \in Int
    BY <1>2 DEF TypeOK, Ca, Pem
  <2> QED
    BY <1>1, <1>2, <1>3, <1>5, <2>1, ConstantsAssumption DEF Alone
<1>7. TypeOK'
  BY <1>1, <1>2, <1>5 DEF TypeOK, End, Goto, Pc
<1> QED
  BY <1>1, <1>4, <1>6, <1>7, StepOfOne

LEMMA EndingStep ==
  ASSUME IInv, NEW r \in Requests, Fail(r) \/ Repair(r) \/ RepairSkips(r)
  PROVE  IInv'
<1> USE DEF IInv
<1>1. End(r) /\ UNCHANGED <<now, certs>>
  BY DEF Fail, Repair, RepairSkips
<1>2. /\ lock' = lock \/ lock' = ReleaseLock(r)
      /\ lock' \in [owner : Requests \union {NoOwner}, until : Int]
  BY DEF Fail, Repair, RepairSkips, ReleaseLock, TypeOK
<1>3. ca' \in Ca /\ ca'.pem = ca.pem
  <2>1. CASE Fail(r) \/ RepairSkips(r)
    BY <2>1 DEF Fail, RepairSkips, TypeOK, Ca
  <2>2. CASE Repair(r)
    <3>1. mem[r] \in Mem
      BY <2>2 DEF Repair, ReqOK, Live
    <3>2. RepairedRow(mem[r].row, mem[r].ca) \in Row
      BY <3>1, DerivedRow DEF RepairedRow, Mem
    <3> QED
      BY <2>2, <3>2 DEF Repair, TypeOK, Ca
  <2> QED
    BY <2>1, <2>2
<1>4. TypeOK'
  BY <1>1, <1>2, <1>3 DEF TypeOK, End, Goto, Pc
<1> QED
  BY <1>1, <1>2, <1>3, <1>4, EndStep

LEMMA TickStep ==
  ASSUME IInv, Tick
  PROVE  IInv'
<1> USE DEF IInv
<1>1. /\ now' = now + 1 /\ now' \in 0..Horizon /\ now <= now'
      /\ UNCHANGED <<ca, certs, lock, pc, mem>>
  BY ConstantsAssumption DEF Tick, TypeOK
<1>2. TypeOK' /\ ca.pem.to <= ca'.pem.to
  BY <1>1 DEF TypeOK, Ca, Pem
<1>3. \A r \in Requests : ReqOK(r)'
  BY <1>1, <1>2, ReqKept
<1>4. \A i \in Ids : CertOK(i)'
  BY <1>1, <1>2, CertKept
<1> QED
  BY <1>2, <1>3, <1>4

LEMMA Inductive == IInv /\ [Next]_vars => IInv'
<1> SUFFICES ASSUME IInv, [Next]_vars
             PROVE  IInv'
  OBVIOUS
<1>1. ASSUME NEW r \in Requests, Begin(r)
      PROVE  IInv'
  BY <1>1, BeginStep
<1>2. ASSUME NEW r \in Requests,
             \/ ReadCa(r) \/ Check(r) \/ Acquire(r) \/ SignLeaf(r) \/ VerifyImport(r)
             \/ CheckCa(r) \/ SignCa(r)
      PROVE  IInv'
  BY <1>2, ReadCaStep, CheckStep, AcquireStep, SignStep, VerifyImportStep, CheckCaStep
<1>3. ASSUME NEW r \in Requests, Commit(r)
      PROVE  IInv'
  BY <1>3, CommitLeafStep, CommitRenewCaStep DEF Commit
<1>4. ASSUME NEW r \in Requests, Fail(r) \/ Repair(r) \/ RepairSkips(r)
      PROVE  IInv'
  BY <1>4, EndingStep
<1>5. CASE Tick
  BY <1>5, TickStep
<1>6. CASE UNCHANGED vars
  BY <1>6 DEF vars, IInv, TypeOK, ReqOK, Live, Phase, Checked, Made, Newest, CheckedEnd,
              CertOK, Exists, Distance, Expiry
<1> QED
  BY <1>1, <1>2, <1>3, <1>4, <1>5, <1>6 DEF Next

----------------------------------------------------------------------------
(* The theorems.                                                            *)

(* What a request knows of the days it asks for holds in every state (the   *)
(* checks of create_cert, renew_cert and renew_ca).                         *)
THEOREM Invariance == Spec => []IInv
  BY Initially, Inductive, PTL DEF Spec

(* Every value has its type; the days that openssl is given are in range    *)
(* (validate_days, clamp_to_ca_validity).                                   *)
THEOREM Typing == Spec => []TypeOK
<1>1. IInv => TypeOK
  BY DEF IInv
<1> QED
  BY <1>1, Invariance, PTL

(* A leaf ends after its CA by no more than its request took                *)
(* (clamp_to_ca_validity).                                                  *)
THEOREM Capping == Spec => []LeafCapped
<1>1. IInv => LeafCapped
  BY DEF IInv, CertOK, LeafCapped
<1> QED
  BY <1>1, Invariance, PTL

(* The expiry a certificate row states is right within the time its request *)
(* took, or the rounding of an import (validity_from_info).                 *)
THEOREM Agreement == Spec => []CertRowAgrees
<1>1. IInv => CertRowAgrees
  BY DEF IInv, CertOK, CertRowAgrees
<1> QED
  BY <1>1, Invariance, PTL

(* Only renew_ca replaces the CA certificate.                               *)
LEMMA CaPemKept ==
  ASSUME IInv, Next, \A r \in Requests : ~CommitRenewCa(r)
  PROVE  ca'.pem = ca.pem
<1>1. ca \in Ca
  BY DEF IInv, TypeOK
<1>2. ASSUME NEW r \in Requests, Begin(r)
      PROVE  ca' = ca
  BY <1>2 DEF Begin, BeginCreateCert, BeginRenewCert, BeginRenewCa, BeginImportCert,
              BeginRepair, Start
<1>3. ASSUME NEW r \in Requests,
             \/ ReadCa(r) \/ Check(r) \/ Acquire(r) \/ SignLeaf(r) \/ VerifyImport(r)
             \/ CheckCa(r) \/ SignCa(r) \/ Fail(r)
             \/ CommitCreateCert(r) \/ CommitImportCert(r) \/ CommitRenewCert(r)
      PROVE  ca' = ca
  BY <1>3 DEF ReadCa, Check, Acquire, SignLeaf, VerifyImport, CheckCa, SignCa, Fail,
              CommitCreateCert, CommitImportCert, CommitRenewCert
<1>4. ASSUME NEW r \in Requests, Repair(r) \/ RepairSkips(r)
      PROVE  ca'.pem = ca.pem
  BY <1>1, <1>4 DEF Repair, RepairSkips, Ca
<1>5. CASE Tick
  BY <1>5 DEF Tick
<1> QED
  BY <1>2, <1>3, <1>4, <1>5 DEF Next, Commit

(* Renewing a CA extends it, whatever happens to its lock (renew_ca).       *)
THEOREM CaRenewal == Spec => CaExtends
<1> DEFINE A == ca'.pem # ca.pem => ca'.pem.to > ca.pem.to
<1>1. IInv /\ Next => A
  <2> SUFFICES ASSUME IInv, Next, ca'.pem # ca.pem
               PROVE  ca'.pem.to > ca.pem.to
    OBVIOUS
  <2>1. PICK r \in Requests : CommitRenewCa(r)
    BY CaPemKept
  <2>2. ca' \in Ca /\ ca \in Ca /\ ca.pem.to < ca'.pem.to
    BY <2>1, CommitRenewCaExtends DEF IInv, TypeOK
  <2> QED
    BY <2>2 DEF Ca, Pem
<1>2. IInv /\ [Next]_vars => [A]_vars
  BY <1>1
<1> HIDE DEF A
<1>3. Spec => [][A]_vars
  BY <1>2, Invariance, PTL DEF Spec
<1> QED
  BY <1>3 DEF A, CaExtends

(* The certificate a request renews is there.                               *)
Targeted == \A r \in Requests :
  Live(r) /\ mem[r].op = "renew_cert" => Exists(mem[r].cert)

LEMMA RowsStay ==
  ASSUME IInv, [Next]_vars, NEW i \in Ids, Exists(i)
  PROVE  Exists(i)'
<1>1. IInv'
  BY Inductive
<1>2. ASSUME NEW r \in Requests,
             CommitCreateCert(r) \/ CommitImportCert(r) \/ CommitRenewCert(r)
      PROVE  Exists(i)'
  <2>1. pc[r] = "signed" /\ mem[r].at <= now /\ mem[r].at \in Int /\ now \in Int
    <3>1. pc[r] = "signed" /\ mem[r] \in Mem /\ mem[r].at <= now
      BY <1>2 DEF CommitCreateCert, CommitImportCert, CommitRenewCert, Committing,
                  IInv, ReqOK, Live
    <3> QED
      BY <3>1, ConstantsAssumption DEF Mem, IInv, TypeOK
  <2>2. certs'[i] = certs[i] \/ certs'[i].lag = 0 \/ certs'[i].lag = now - mem[r].at
    BY <1>2 DEF CommitCreateCert, CommitImportCert, CommitRenewCert, ImportedCert,
                IInv, TypeOK
  <2>3. certs'[i] = certs[i] \/ certs'[i].lag # -1
    BY <2>1, <2>2
  <2>4. certs'[i] = certs[i] \/ certs'[i] # NoCert
    BY <2>3 DEF NoCert
  <2> QED
    BY <2>4 DEF Exists
<1>3. ASSUME UNCHANGED certs
      PROVE  Exists(i)'
  BY <1>3 DEF Exists
<1>4. \/ UNCHANGED certs
      \/ \E r \in Requests : CommitCreateCert(r) \/ CommitImportCert(r) \/ CommitRenewCert(r)
  <2>1. ASSUME NEW r \in Requests, Begin(r)
        PROVE  UNCHANGED certs
    BY <2>1 DEF Begin, BeginCreateCert, BeginRenewCert, BeginRenewCa, BeginImportCert,
                BeginRepair, Start
  <2>2. ASSUME NEW r \in Requests,
               \/ ReadCa(r) \/ Check(r) \/ Acquire(r) \/ SignLeaf(r) \/ VerifyImport(r)
               \/ CheckCa(r) \/ SignCa(r) \/ Fail(r) \/ CommitRenewCa(r)
               \/ Repair(r) \/ RepairSkips(r)
        PROVE  UNCHANGED certs
    BY <2>2 DEF ReadCa, Check, Acquire, SignLeaf, VerifyImport, CheckCa, SignCa, Fail,
                CommitRenewCa, Repair, RepairSkips
  <2>3. CASE Tick \/ UNCHANGED vars
    BY <2>3 DEF Tick, vars
  <2> QED
    BY <2>1, <2>2, <2>3 DEF Next, Commit
<1> QED
  BY <1>2, <1>3, <1>4

LEMMA TargetsStay == IInv /\ Targeted /\ [Next]_vars => Targeted'
<1> SUFFICES ASSUME IInv, Targeted, [Next]_vars, NEW r \in Requests,
                    Live(r)', mem'[r].op = "renew_cert"
             PROVE  Exists(mem[r].cert)'
  BY DEF Targeted
<1>1. CASE /\ Live(r) /\ mem[r].op = "renew_cert" /\ mem'[r].cert = mem[r].cert
  <2>1. PICK i \in Ids : i = mem[r].cert
    BY <1>1 DEF IInv, ReqOK, Mem
  <2>2. Exists(i)
    BY <1>1, <2>1 DEF Targeted
  <2> QED
    BY <1>1, <2>1, <2>2, RowsStay DEF Exists
<1>2. CASE \E i \in Ids, days \in Days : BeginRenewCert(r, i, days)
  <2>1. PICK i \in Ids, days \in Days : BeginRenewCert(r, i, days)
    BY <1>2
  <2>2. Exists(i) /\ certs' = certs /\ mem'[r].cert = i
    BY <2>1 DEF BeginRenewCert, Start, IInv, TypeOK
  <2> QED
    BY <2>2 DEF Exists
<1>3. \/ Live(r) /\ mem[r].op = "renew_cert" /\ mem'[r].cert = mem[r].cert
      \/ \E i \in Ids, days \in Days : BeginRenewCert(r, i, days)
  <2> USE DEF IInv
  <2> DEFINE Goes == Live(r) /\ mem[r].op = "renew_cert" /\ mem'[r].cert = mem[r].cert
  <2>1. ASSUME pc'[r] = pc[r], mem'[r] = mem[r]
        PROVE  Goes
    BY <2>1 DEF Live
  <2>2. ASSUME NEW q \in Requests, Begin(q)
        PROVE  Goes \/ \E i \in Ids, days \in Days : BeginRenewCert(r, i, days)
    <3>1. CASE q # r
      BY <2>1, <2>2, <3>1 DEF Begin, BeginCreateCert, BeginRenewCert, BeginRenewCa,
                              BeginImportCert, BeginRepair, Start, Goto, TypeOK
    <3>2. CASE q = r
      <4>1. ASSUME NEW days \in Days, BeginCreateCert(r, days) \/ BeginRenewCa(r, days)
            PROVE  FALSE
        BY <4>1 DEF BeginCreateCert, BeginRenewCa, Start, TypeOK
      <4>2. ASSUME NEW pem \in Imports, BeginImportCert(r, pem)
            PROVE  FALSE
        BY <4>2 DEF BeginImportCert, TypeOK
      <4>3. CASE BeginRepair(r)
        BY <4>3 DEF BeginRepair, Start, TypeOK
      <4> QED
        BY <2>2, <3>2, <4>1, <4>2, <4>3 DEF Begin
    <3> QED
      BY <3>1, <3>2
  <2>3. ASSUME NEW q \in Requests,
               \/ ReadCa(q) \/ Check(q) \/ Acquire(q) \/ SignLeaf(q) \/ VerifyImport(q)
               \/ CheckCa(q) \/ SignCa(q)
        PROVE  Goes
    <3>1. CASE q # r
      <4>1. pc'[r] = pc[r]
        BY <2>3, <3>1 DEF ReadCa, Check, Acquire, SignLeaf, VerifyImport, CheckCa, SignCa,
                          Goto, TypeOK
      <4>2. mem'[r] = mem[r]
        BY <2>3, <3>1 DEF ReadCa, Check, Acquire, SignLeaf, VerifyImport, CheckCa, SignCa, TypeOK
      <4> QED
        BY <2>1, <4>1, <4>2
    <3>2. CASE q = r
      <4>1. Live(r) /\ mem[r] \in Mem
        BY <2>3, <3>2 DEF ReadCa, Check, Acquire, SignLeaf, VerifyImport, CheckCa, SignCa,
                          Live, ReqOK
      <4>2. mem'[r].op = mem[r].op /\ mem'[r].cert = mem[r].cert
        <5>1. CASE ReadCa(r) \/ Check(r) \/ CheckCa(r)
          BY <4>1, <5>1 DEF ReadCa, Check, CheckCa, Mem, TypeOK
        <5>2. CASE SignLeaf(r) \/ SignCa(r)
          BY <4>1, <5>2 DEF SignLeaf, SignCa, Mem, TypeOK
        <5>3. CASE Acquire(r) \/ VerifyImport(r)
          BY <5>3 DEF Acquire, VerifyImport
        <5> QED
          BY <2>3, <3>2, <5>1, <5>2, <5>3
      <4> QED
        BY <4>1, <4>2
    <3> QED
      BY <3>1, <3>2
  <2>4. ASSUME NEW q \in Requests,
               Commit(q) \/ Fail(q) \/ Repair(q) \/ RepairSkips(q)
        PROVE  Goes
    <3>1. End(q)
      BY <2>4 DEF Commit, CommitCreateCert, CommitImportCert, CommitRenewCert,
                  CommitRenewCa, Committing, Fail, Repair, RepairSkips
    <3>2. q # r
      BY <3>1 DEF End, Goto, TypeOK, Live
    <3> QED
      <4>1. pc'[r] = pc[r] /\ mem'[r] = mem[r]
        BY <3>1, <3>2 DEF End, Goto, TypeOK
      <4> QED
        BY <2>1, <4>1
  <2>5. CASE Tick \/ UNCHANGED vars
    BY <2>1, <2>5 DEF Tick, vars
  <2> QED
    BY <2>2, <2>3, <2>4, <2>5 DEF Next
<1> QED
  BY <1>1, <1>2, <1>3

(* A renewal that replaces the row it has checked extends the certificate,  *)
(* up to the time the request took that signed the old one (renew_cert).    *)
THEOREM Renewal == Spec => RenewalExtendsAlone
<1> DEFINE A == \A r \in Requests :
             CommitRenewCert(r) /\ mem[r].row = certs[mem[r].cert].row =>
                certs'[mem[r].cert].pem.to
                  > certs[mem[r].cert].pem.to - certs[mem[r].cert].lag
<1>1. IInv /\ Targeted => A
  <2> SUFFICES ASSUME IInv, Targeted, NEW r \in Requests, CommitRenewCert(r),
                      mem[r].row = certs[mem[r].cert].row
               PROVE  certs'[mem[r].cert].pem.to
                        > certs[mem[r].cert].pem.to - certs[mem[r].cert].lag
    OBVIOUS
  <2> USE DEF IInv
  <2> DEFINE old == certs[mem[r].cert]
             life == mem[r].days * DayLen
  <2>1. pc[r] = "signed" /\ mem[r].op = "renew_cert" /\ Live(r)
    BY DEF CommitRenewCert, Committing, Live
  <2>2. /\ mem[r] \in Mem /\ mem[r].cert \in Ids
        /\ mem[r].at + life > Expiry(old.row)
        /\ mem[r].pem.to = mem[r].pem.from + life
        /\ mem[r].at <= mem[r].pem.from
    BY <2>1 DEF ReqOK, Checked, Made, Mem, CheckedEnd
  <2>3. old \in Cert /\ old.pem.to - old.lag <= Expiry(old.row)
    BY <2>1, <2>2 DEF Targeted, TypeOK, Exists, CertOK
  <2>4. /\ mem[r].at \in Int /\ mem[r].pem.from \in Int /\ life \in Int
        /\ old.pem.to \in Int /\ old.lag \in Int /\ Expiry(old.row) \in Int
    BY <2>2, <2>3, ConstantsAssumption DEF Mem, Pem, Days, Cert, Row, Expiry
  <2>5. certs'[mem[r].cert].pem = mem[r].pem
    BY <2>2 DEF CommitRenewCert, TypeOK
  <2> HIDE DEF life, old
  <2>6. mem[r].pem.from + life > old.pem.to - old.lag
    BY <2>2, <2>3, <2>4
  <2> QED
    BY <2>2, <2>5, <2>6 DEF old
<1>2. IInv /\ Targeted /\ [Next]_vars => [A]_vars
  BY <1>1
<1>3. Init => Targeted
  BY DEF Init, Targeted, Live
<1> HIDE DEF A
<1>4. Spec => []Targeted
  BY <1>3, TargetsStay, Invariance, PTL DEF Spec
<1>5. Spec => [][A]_vars
  BY <1>2, <1>4, Invariance, PTL DEF Spec
<1> QED
  BY <1>5 DEF A, RenewalExtendsAlone

=============================================================================
