--------------------------- MODULE CliCertProofs ---------------------------
(***************************************************************************)
(* Any number of runs of the client, certificates and jobs of the server:  *)
(* what a run downloads lasts, and the files fit each other.               *)
(*                                                                         *)
(* LastsAWhile looks at one step.  It holds because a run that has         *)
(* inspected its certificate knows, until the download, that the row or    *)
(* the renewal the run waits for lasts (Promise).  FilesFit follows from   *)
(* what an undisturbed save has written so far (Whole).                    *)
(***************************************************************************)
EXTENDS CliCert, TLAPS

Types ==
  /\ now \in Nat /\ caEnd \in Nat
  /\ rows \in [Ids -> Row \union {NoRow}]
  /\ jobs \subseteq Job
  /\ pc \in [Clients -> Pc]
  /\ mem \in [Clients -> Mem]
  /\ disk \in [File -> Ids \union {None}]
  /\ torn \in BOOLEAN

KnowsId == {"getting", "expiring", "renewing", "downloading", "fetching", "saving"}

Known(c) == mem[c].id # None /\ Exists(mem[c].id)

Waits(c, op) == \E j \in jobs : j.client = c /\ j.op = op

Links ==
  \A c \in Clients :
     /\ pc[c] = "creating" <=> Waits(c, "create")
     /\ pc[c] = "renewing" <=> Waits(c, "renew")
     /\ pc[c] \in KnowsId => Known(c)

(* One job for a run, and one for an id that is not in use yet.             *)
OneJob ==
  \A j, k \in jobs :
     \/ j = k
     \/ /\ j.client = k.client => j.client = None
        /\ j.cert = k.cert => j.op = "renew"

IdsFree == \A j \in jobs : j.op = "create" <=> ~Exists(j.cert)

(* An expiry that the run can do with.                                      *)
Lasts(expiry, due) == expiry >= due \/ expiry > caEnd - DayLen

JobEnd(j) == j.at + j.days * DayLen

Promise ==
  /\ \A c \in Clients :
        /\ pc[c] = "expiring" => mem[c].due <= now + RenewWithin * DayLen
        /\ pc[c] = "downloading" =>
             \/ Lasts(Expiry(rows[mem[c].id]), mem[c].due)
             \/ rows[mem[c].id].fell
  /\ \A j \in jobs : j.client # None /\ j.op = "renew" =>
        j.cert = mem[j.client].id /\ Lasts(JobEnd(j), mem[j.client].due)

Whole ==
  /\ \A c \in Clients : Saving(c) =>
        /\ mem[c].saved \in 1..LastFile - 1
        /\ ~torn => mem[c].alone
        /\ mem[c].alone =>
             /\ \A d \in Clients \ {c} : ~Saving(d)
             /\ \A f \in 1..mem[c].saved : disk[f] = mem[c].id
  /\ FilesFit

Inv == Types /\ Links /\ OneJob /\ IdsFree

IInv == Inv /\ Promise /\ Whole

LEMMA TypeParts == Inv => TypeOK
<1> QED BY DEF TypeOK, Inv, Types, Links, KnowsId, Known, Waits

----------------------------------------------------------------------------
(* Rows, days and jobs.                                                     *)

LEMMA RowIsRow == \A row \in Row : row # NoRow
<1> SUFFICES ASSUME NEW row \in Row, row = NoRow PROVE FALSE
  OBVIOUS
<1>1. "issue" \in DOMAIN row
  BY DEF Row
<1>2. "issue" \notin DOMAIN NoRow
  BY DEF NoRow
<1> QED BY <1>1, <1>2

LEMMA ExistingRow == ASSUME Types, NEW i \in Ids PROVE Exists(i) <=> rows[i] \in Row
BY RowIsRow DEF Types, Exists

LEMMA Product ==
  ASSUME NEW a \in Nat, NEW b \in Nat, NEW d \in Nat, a <= b
  PROVE  a * d \in Nat /\ b * d \in Nat /\ a * d <= b * d
BY SMT

LEMMA Quotient ==
  ASSUME NEW a \in Int, NEW d \in Nat \ {0}
  PROVE  a \div d \in Int /\ (a \div d) * d <= a /\ a < (a \div d) * d + d
BY SMT

LEMMA ExpiryIsNat ==
  /\ \A row \in Row : Expiry(row) \in Nat
  /\ \A j \in Job : JobEnd(j) \in Nat
BY Product, CliAssumption DEF Expiry, JobEnd, Row, Job

LEMMA ClampIsNat ==
  ASSUME Types, CanIssue, NEW days \in Nat
  PROVE  Clamp(days) \in Nat
BY Quotient, CliAssumption DEF Types, CanIssue, DaysLeft, Clamp

(* A renewal for renewDays lasts, or it ends with the CA.                   *)
LEMMA ClampLasts ==
  ASSUME Types, CanIssue, NEW due \in Nat, due <= now + RenewWithin * DayLen
  PROVE  Lasts(now + Clamp(RenewDays) * DayLen, due)
<1> DEFINE left == (caEnd - now) \div DayLen
<1>1. /\ left \in Int /\ left * DayLen \in Int
      /\ caEnd - now < left * DayLen + DayLen
  BY Quotient, CliAssumption DEF Types
<1>2. Clamp(RenewDays) = (IF RenewDays > left THEN left ELSE RenewDays)
  BY DEF Clamp, DaysLeft
<1> HIDE DEF left
<1>3. RenewWithin * DayLen <= RenewDays * DayLen /\ RenewWithin * DayLen \in Nat
      /\ RenewDays * DayLen \in Nat
  BY Product, CliAssumption
<1>4. CASE RenewDays > left
  BY <1>1, <1>2, <1>4, CliAssumption DEF Lasts, Types
<1>5. CASE ~(RenewDays > left)
  BY <1>2, <1>3, <1>5, CliAssumption DEF Lasts, Types
<1> QED BY <1>4, <1>5

LEMMA LaterLasts ==
  ASSUME caEnd \in Nat, NEW due \in Nat, NEW e \in Nat, NEW l \in Nat, Lasts(e, due), e <= l
  PROVE  Lasts(l, due)
BY CliAssumption DEF Lasts

LEMMA AbandonedJobs ==
  ASSUME Types, NEW c \in Clients
  PROVE  /\ Abandoned(c) \subseteq Job
         /\ \A a \in Abandoned(c) : \E j \in jobs :
              /\ a.client = (IF j.client = c THEN None ELSE j.client)
              /\ a.op = j.op /\ a.cert = j.cert /\ a.at = j.at /\ a.days = j.days
              /\ a = [j EXCEPT !.client = IF @ = c THEN None ELSE @]
         /\ \A j \in jobs : [j EXCEPT !.client = IF @ = c THEN None ELSE @] \in Abandoned(c)
BY DEF Abandoned, Types, Job

LEMMA NewJob ==
  ASSUME Types, CanIssue, NEW i \in Ids, NEW days \in Nat,
         NEW c \in Clients \union {None}
  PROVE  /\ RenewJob(i, days, c) \in Job
         /\ [op |-> "create", client |-> c, cert |-> i, at |-> now, days |-> Clamp(days)] \in Job
BY ClampIsNat DEF RenewJob, Job, Types

LEMMA StoredType ==
  ASSUME Types, NEW j \in jobs, CanCommit(j)
  PROVE  /\ Stored(j) \in [Ids -> Row \union {NoRow}]
         /\ j.cert \in Ids
         /\ Stored(j)[j.cert] \in Row
         /\ \A i \in Ids \ {j.cert} : Stored(j)[i] = rows[i]
<1>1. j \in Job /\ j.cert \in Ids /\ j.op \in {"create", "renew"}
  BY DEF Types, Job
<1>2. CASE j.op = "create"
  <2>1. NewRow(j) \in Row
    BY <1>1 DEF NewRow, Row, Types, Job
  <2> QED BY <1>1, <1>2, <2>1 DEF Stored, Types
<1>3. CASE j.op = "renew"
  <2>1. rows[j.cert] \in Row
    BY <1>1, <1>3, ExistingRow DEF CanCommit, Active
  <2>2. (j.at + j.days * DayLen < Expiry(rows[j.cert])) \in BOOLEAN
    OBVIOUS
  <2>3. RenewedRow(j) \in Row
    BY <1>1, <2>1, <2>2 DEF RenewedRow, Row, Job
  <2> QED BY <1>1, <1>3, <2>3 DEF Stored, Types
<1> QED BY <1>1, <1>2, <1>3

----------------------------------------------------------------------------
(* Types.                                                                   *)

LEMMA TypesRun ==
  ASSUME Types, Links, NEW c \in Clients, Run(c)
  PROVE  Types'
<1> USE CliAssumption
<1>1. CASE Probe(c)
  <2>1. mem' \in [Clients -> Mem]
    BY <1>1 DEF Probe, Types, Mem
  <2>2. pc' \in [Clients -> Pc]
    BY <1>1 DEF Probe, Types, Goto, Pc
  <2>3. UNCHANGED <<now, server, disk, torn>>
    BY <1>1 DEF Probe
  <2> QED BY <2>1, <2>2, <2>3 DEF Types, server
<1>2. CASE Inspect(c)
  <2>1. now + RenewWithin * DayLen \in Nat
    BY Product DEF Types
  <2>2. IF NeedsRenew(rows[mem[c].id]) THEN "expiring" \in Pc ELSE "downloading" \in Pc
    BY DEF Pc
  <2> QED BY <1>2, <2>1, <2>2 DEF Inspect, Types, Mem, Goto, Pc, server
<1>3. CASE SendRenew(c)
  <2>1. mem[c].id \in Ids
    BY <1>3 DEF SendRenew, Links, KnowsId, Known, Types, Mem
  <2>2. RenewJob(mem[c].id, RenewDays, c) \in Job
    BY <1>3, <2>1, NewJob DEF SendRenew, Renewable
  <2> QED BY <1>3, <2>2 DEF SendRenew, AddJob, Types, Goto, Pc
<1>4. CASE RenewPointless(c)
  BY <1>4 DEF RenewPointless, Types, Goto, Pc, server
<1>5. CASE RenewFails(c)
  <2>1. mem' \in [Clients -> Mem] /\ pc' \in [Clients -> Pc]
    BY <1>5 DEF RenewFails, Refused, Types, Mem, Goto, Pc
  <2> QED BY <1>5, <2>1, AbandonedJobs DEF RenewFails, Types
<1>6. CASE \E i \in Ids, days \in AskedDays : SendCreate(c, i, days)
  <2>1. PICK i \in Ids, days \in AskedDays : SendCreate(c, i, days)
    BY <1>6
  <2>2. [op |-> "create", client |-> c, cert |-> i, at |-> now, days |-> Clamp(days)] \in Job
    BY <2>1, NewJob DEF SendCreate
  <2> QED BY <2>1, <2>2 DEF SendCreate, AddJob, Types, Goto, Pc
<1>7. CASE Download(c)
  BY <1>7 DEF Download, Types, Mem, Goto, Pc, server
<1>8. CASE BeginSave(c)
  <2>1. mem' \in [Clients -> Mem]
    <3>1. \A m \in Mem, a \in BOOLEAN :
            /\ [m EXCEPT !.saved = 1, !.alone = a] \in Mem
            /\ [m EXCEPT !.alone = a] \in Mem
      <4>1. 1 \in 0..LastFile
        OBVIOUS
      <4>2. ASSUME NEW m \in Mem, NEW a \in BOOLEAN
            PROVE  [m EXCEPT !.alone = a] \in Mem
        BY DEF Mem
      <4>3. ASSUME NEW m \in Mem, NEW a \in BOOLEAN
            PROVE  [m EXCEPT !.saved = 1, !.alone = a] \in Mem
        BY <4>1 DEF Mem
      <4> QED BY <4>2, <4>3
    <3>2. (\A d \in Clients \ {c} : ~Saving(d)) \in BOOLEAN
      OBVIOUS
    <3> QED BY <1>8, <3>1, <3>2 DEF BeginSave, Types
  <2>2. disk' \in [File -> Ids \union {None}]
    BY <1>8 DEF BeginSave, Types, Mem, Write
  <2>3. torn' \in BOOLEAN
    BY <1>8 DEF BeginSave, Types
  <2> QED BY <1>8, <2>1, <2>2, <2>3 DEF BeginSave, Types, Goto, Pc, server
<1>9. CASE Save(c)
  <2>1. mem' \in [Clients -> Mem]
    BY <1>9 DEF Save, Types, Mem
  <2>2. disk' \in [File -> Ids \union {None}]
    BY <1>9 DEF Save, Types, Mem, Write
  <2> QED BY <1>9, <2>1, <2>2 DEF Save, Types, server
<1>10. CASE SaveLast(c)
  <2>1. mem' \in [Clients -> Mem]
    BY <1>10 DEF SaveLast, Types, Mem, NoMem
  <2>2. disk' \in [File -> Ids \union {None}]
    BY <1>10 DEF SaveLast, Types, Mem, Write
  <2> QED BY <1>10, <2>1, <2>2 DEF SaveLast, Types, server, Goto, Pc
<1>11. CASE Stop(c)
  <2>1. mem' \in [Clients -> Mem]
    BY <1>11 DEF Stop, Types, Mem, NoMem
  <2>2. torn' \in BOOLEAN
    BY <1>11 DEF Stop, Types
  <2> QED BY <1>11, <2>1, <2>2, AbandonedJobs DEF Stop, Types, Goto, Pc
<1> QED BY <1>1, <1>2, <1>3, <1>4, <1>5, <1>6, <1>7, <1>8, <1>9, <1>10, <1>11 DEF Run

LEMMA TypesServer ==
  ASSUME Types, NEW j \in jobs, Commit(j) \/ Drop(j)
  PROVE  Types'
<1>1. j \in Job /\ j.cert \in Ids /\ j.client \in Clients \union {None}
  BY DEF Types, Job
<1>2. CASE Commit(j)
  <2>1. mem' \in [Clients -> Mem]
    BY <1>1, <1>2 DEF Commit, Answer, Types, Mem
  <2>2. pc' \in [Clients -> Pc]
    BY <1>1, <1>2 DEF Commit, Answer, Types, Goto, Pc
  <2> QED BY <1>2, <2>1, <2>2, StoredType DEF Commit, Types
<1>3. CASE Drop(j)
  <2>1. CASE j.client = None
    BY <1>3, <2>1 DEF Drop, Types
  <2>2. CASE j.client # None /\ j.op = "renew"
    <3>1. Refused(j.client) /\ j.client \in Clients
      BY <1>1, <1>3, <2>2 DEF Drop
    <3>2. mem' \in [Clients -> Mem] /\ pc' \in [Clients -> Pc]
      BY <3>1 DEF Refused, Types, Mem, Goto, Pc
    <3> QED BY <1>3, <3>2 DEF Drop, Types
  <2>3. CASE j.client # None /\ j.op # "renew"
    <3>1. mem' \in [Clients -> Mem] /\ pc' \in [Clients -> Pc]
      <4>1. /\ Goto(j.client, "idle") /\ j.client \in Clients
            /\ mem' = [mem EXCEPT ![j.client] = NoMem]
        BY <1>1, <1>3, <2>3 DEF Drop
      <4>2. NoMem \in Mem
        BY CliAssumption DEF NoMem, Mem
      <4> QED BY <4>1, <4>2 DEF Types, Goto, Pc
    <3> QED BY <1>3, <3>1 DEF Drop, Types
  <2> QED BY <2>1, <2>2, <2>3
<1> QED BY <1>2, <1>3

LEMMA TypesAdmin ==
  ASSUME Types, Admin
  PROVE  Types'
<1>1. PICK i \in Ids : \/ Revoke(i) \/ Delete(i) \/ Restore(i)
                       \/ \E days \in AskedDays : AdminRenews(i, days)
  BY DEF Admin
<1>2. CASE Revoke(i)
  BY <1>2, ExistingRow DEF Revoke, Active, Types, Row
<1>3. CASE Delete(i)
  BY <1>3, ExistingRow DEF Delete, Active, Types, Row
<1>4. CASE Restore(i)
  BY <1>4, ExistingRow DEF Restore, Types, Row
<1>5. CASE \E days \in AskedDays : AdminRenews(i, days)
  <2>1. PICK days \in AskedDays : AdminRenews(i, days)
    BY <1>5
  <2>2. RenewJob(i, days, None) \in Job
    BY <2>1, NewJob, CliAssumption DEF AdminRenews, Renewable
  <2> QED BY <2>1, <2>2 DEF AdminRenews, AddJob, Types
<1> QED BY <1>1, <1>2, <1>3, <1>4, <1>5

LEMMA TypesStep ==
  ASSUME Types, Links, [Next]_vars
  PROVE  Types'
<1>1. CASE \E c \in Clients : Run(c)
  BY <1>1, TypesRun
<1>2. CASE \E j \in jobs : Commit(j) \/ Drop(j)
  BY <1>2, TypesServer
<1>3. CASE Admin
  BY <1>3, TypesAdmin
<1>4. CASE Tick
  BY <1>4 DEF Tick, Types, server
<1>5. CASE UNCHANGED vars
  BY <1>5 DEF vars, server, Types
<1> QED BY <1>1, <1>2, <1>3, <1>4, <1>5 DEF Next

----------------------------------------------------------------------------
(* The jobs and the runs that wait for them.                                *)

Waiting == {"creating", "renewing"}

SameRows == \A i \in Ids : Exists(i)' <=> Exists(i)

(* c goes on, the other runs do not.                                        *)
Others(c) == \A d \in Clients \ {c} : pc'[d] = pc[d] /\ mem'[d].id = mem[d].id

Arrives(c) ==
  /\ pc'[c] \notin Waiting
  /\ pc'[c] \in KnowsId => Known(c)'

Linked == Links /\ OneJob /\ IdsFree

(* A known id stays known while rows stay.                                  *)
LEMMA KnownStays ==
  ASSUME Inv, NEW c \in Clients, Known(c), SameRows, mem'[c].id = mem[c].id
  PROVE  Known(c)'
<1>1. mem[c].id \in Ids
  BY DEF Inv, Types, Mem, Known
<1>2. Exists(mem[c].id)
  BY DEF Known
<1>3. rows'[mem[c].id] # NoRow
  BY <1>1, <1>2 DEF SameRows, Exists
<1> QED BY <1>3 DEF Known, Exists

LEMMA JobFields ==
  ASSUME Types, NEW j \in jobs
  PROVE  j \in Job /\ j.client \in Clients \union {None} /\ j.cert \in Ids
         /\ j.op \in {"create", "renew"}
BY DEF Types, Job

LEMMA LinksQuiet ==
  ASSUME Inv, Types', NEW c \in Clients, jobs' = jobs, SameRows,
         pc[c] \notin Waiting, Others(c), Arrives(c)
  PROVE  Linked'
<1>1. IdsFree' /\ OneJob'
  BY JobFields DEF Inv, IdsFree, OneJob, SameRows
<1>2. ASSUME NEW d \in Clients
      PROVE  /\ pc'[d] = "creating" <=> Waits(d, "create")'
             /\ pc'[d] = "renewing" <=> Waits(d, "renew")'
             /\ pc'[d] \in KnowsId => Known(d)'
  <2>1. Waits(d, "create")' = Waits(d, "create") /\ Waits(d, "renew")' = Waits(d, "renew")
    BY DEF Waits
  <2>2. CASE d = c
    BY <2>1, <2>2 DEF Arrives, Waiting, Inv, Links
  <2>3. CASE d # c
    BY <2>1, <2>3, KnownStays DEF Others, Inv, Links
  <2> QED BY <2>2, <2>3
<1> QED BY <1>1, <1>2 DEF Linked, Links

LEMMA LinksAbandoned ==
  ASSUME Inv, Types', NEW c \in Clients, jobs' = Abandoned(c), rows' = rows,
         Others(c), Arrives(c)
  PROVE  Linked'
<1> USE DEF Inv
<1>1. \A i \in Ids : Exists(i)' <=> Exists(i)
  BY DEF Exists
<1>2. IdsFree'
  BY <1>1, AbandonedJobs, JobFields DEF IdsFree
<1>3. OneJob'
  <2> SUFFICES ASSUME NEW a \in Abandoned(c), NEW b \in Abandoned(c), a # b
               PROVE  /\ a.client = b.client => a.client = None
                      /\ a.cert = b.cert => a.op = "renew"
    BY DEF OneJob
  <2>1. PICK j \in jobs : /\ a.client = (IF j.client = c THEN None ELSE j.client)
                          /\ a.op = j.op /\ a.cert = j.cert
                          /\ a = [j EXCEPT !.client = IF @ = c THEN None ELSE @]
    BY AbandonedJobs
  <2>2. PICK k \in jobs : /\ b.client = (IF k.client = c THEN None ELSE k.client)
                          /\ b.op = k.op /\ b.cert = k.cert
                          /\ b = [k EXCEPT !.client = IF @ = c THEN None ELSE @]
    BY AbandonedJobs
  <2>3. j # k
    BY <2>1, <2>2
  <2> QED BY <2>1, <2>2, <2>3 DEF OneJob
<1>4. ASSUME NEW d \in Clients
      PROVE  /\ pc'[d] = "creating" <=> Waits(d, "create")'
             /\ pc'[d] = "renewing" <=> Waits(d, "renew")'
             /\ pc'[d] \in KnowsId => Known(d)'
  <2>1. CASE d = c
    <3>1. \A a \in Abandoned(c) : a.client # c
      BY AbandonedJobs, CliAssumption
    <3> QED BY <2>1, <3>1 DEF Arrives, Waits, Waiting
  <2>2. CASE d # c
    <3>1. ASSUME NEW op PROVE Waits(d, op)' <=> Waits(d, op)
      <4>1. ASSUME NEW j \in jobs, j.client = d
            PROVE  j \in Abandoned(c)
        <5>1. [j EXCEPT !.client = IF @ = c THEN None ELSE @] = j
          BY <2>2, <4>1, JobFields DEF Job
        <5> QED BY <5>1, AbandonedJobs
      <4>2. ASSUME NEW a \in Abandoned(c), a.client = d
            PROVE  a \in jobs
        <5>1. PICK j \in jobs : /\ a.client = (IF j.client = c THEN None ELSE j.client)
                                /\ a = [j EXCEPT !.client = IF @ = c THEN None ELSE @]
          BY AbandonedJobs
        <5>2. j.client = d
          BY <4>2, <5>1, CliAssumption
        <5>3. [j EXCEPT !.client = IF @ = c THEN None ELSE @] = j
          BY <2>2, <5>2, JobFields DEF Job
        <5> QED BY <5>1, <5>3
      <4> QED BY <4>1, <4>2 DEF Waits
    <3>2. Waits(d, "create")' <=> Waits(d, "create")
      BY <3>1
    <3>3. Waits(d, "renew")' <=> Waits(d, "renew")
      BY <3>1
    <3> QED BY <1>1, <2>2, <3>2, <3>3, KnownStays DEF Links, Others, SameRows
  <2> QED BY <2>1, <2>2
<1> QED BY <1>2, <1>3, <1>4 DEF Linked, Links

LEMMA LinksAdded ==
  ASSUME Inv, Types', NEW j \in Job, jobs' = jobs \union {j}, rows' = rows, mem' = mem,
         j.op = "renew" => Exists(j.cert),
         j.op = "create" => ~Exists(j.cert) /\ \A k \in jobs : k.cert # j.cert,
         \/ j.client = None /\ pc' = pc
         \/ /\ j.client \in Clients
            /\ pc[j.client] \notin Waiting
            /\ pc[j.client] \in KnowsId \/ j.op = "create"
            /\ pc' = [pc EXCEPT ![j.client] = IF j.op = "create" THEN "creating" ELSE "renewing"]
  PROVE  Linked'
<1> USE DEF Inv
<1>1. j.op \in {"create", "renew"} /\ None \notin Clients
  BY CliAssumption DEF Job
<1>2. \A i : Exists(i)' <=> Exists(i)
  BY DEF Exists
<1>3. IdsFree'
  BY <1>1, <1>2 DEF IdsFree
<1>4. ASSUME NEW k \in jobs, k # j
      PROVE  /\ k.client = j.client => k.client = None
             /\ k.cert = j.cert => k.op = "renew" /\ j.op = "renew"
  <2>1. k.client = j.client => k.client = None
    BY JobFields DEF Links, Waits, Waiting
  <2>2. k.cert = j.cert => k.op = "renew" /\ j.op = "renew"
    BY <1>1, JobFields DEF IdsFree
  <2> QED BY <2>1, <2>2
<1>5. OneJob'
  BY <1>4 DEF OneJob
<1>6. ASSUME NEW d \in Clients
      PROVE  /\ pc'[d] = "creating" <=> Waits(d, "create")'
             /\ pc'[d] = "renewing" <=> Waits(d, "renew")'
             /\ pc'[d] \in KnowsId => Known(d)'
  <2>1. Known(d)' <=> Known(d)
    BY DEF Known, Exists
  <2>2. /\ Waits(d, "create")' <=> Waits(d, "create") \/ (j.client = d /\ j.op = "create")
        /\ Waits(d, "renew")' <=> Waits(d, "renew") \/ (j.client = d /\ j.op = "renew")
    BY DEF Waits
  <2>3. CASE j.client = d
    <3>1. pc'[d] = IF j.op = "create" THEN "creating" ELSE "renewing"
      BY <1>1, <2>3 DEF Types
    <3>2. ~Waits(d, "create") /\ ~Waits(d, "renew")
      BY <1>1, <2>3 DEF Links, Waiting
    <3>3. "creating" \notin KnowsId /\ "renewing" \in KnowsId
      BY DEF KnowsId
    <3> QED BY <1>1, <2>1, <2>2, <2>3, <3>1, <3>2, <3>3 DEF Links
  <2>4. CASE j.client # d
    <3>1. pc'[d] = pc[d]
      BY <2>4 DEF Types
    <3> QED BY <2>1, <2>2, <2>4, <3>1 DEF Links
  <2> QED BY <2>3, <2>4
<1> QED BY <1>3, <1>5, <1>6 DEF Linked, Links

LEMMA LinksRemoved ==
  ASSUME Inv, Types', NEW j \in jobs, jobs' = jobs \ {j},
         \A i \in Ids : Exists(i)' <=> Exists(i) \/ (rows' # rows /\ i = j.cert),
         rows' = rows \/ Exists(j.cert)',
         \/ j.client = None /\ pc' = pc /\ \A d \in Clients : mem'[d].id = mem[d].id
         \/ j.client \in Clients /\ Others(j.client) /\ Arrives(j.client)
  PROVE  Linked'
<1> USE DEF Inv
<1>1. j.op \in {"create", "renew"} /\ None \notin Clients
  BY JobFields, CliAssumption
<1>2. OneJob'
  BY DEF OneJob
<1>3. IdsFree'
  <2> SUFFICES ASSUME NEW k \in jobs, k # j PROVE k.op = "create" <=> ~Exists(k.cert)'
    BY DEF IdsFree
  <2>1. k.cert = j.cert => k.op = "renew" /\ j.op = "renew"
    BY JobFields DEF OneJob, IdsFree
  <2> QED BY <2>1, JobFields DEF IdsFree
<1>4. ASSUME NEW d \in Clients, Known(d), mem'[d].id = mem[d].id
      PROVE  Known(d)'
  <2>1. mem[d].id \in Ids /\ Exists(mem[d].id)
    BY <1>4 DEF Known, Types, Mem
  <2>2. rows'[mem[d].id] # NoRow
    BY <2>1 DEF Exists
  <2> QED BY <1>4, <2>2 DEF Known, Exists
<1>5. ASSUME NEW d \in Clients
      PROVE  /\ pc'[d] = "creating" <=> Waits(d, "create")'
             /\ pc'[d] = "renewing" <=> Waits(d, "renew")'
             /\ pc'[d] \in KnowsId => Known(d)'
  <2>1. CASE j.client = d
    <3>1. \A k \in jobs \ {j} : k.client # d
      BY <1>1, <2>1 DEF OneJob
    <3>2. ~Waits(d, "create")' /\ ~Waits(d, "renew")'
      BY <3>1 DEF Waits
    <3> QED BY <1>1, <2>1, <3>2 DEF Arrives, Waiting
  <2>2. CASE j.client # d
    <3>1. /\ Waits(d, "create")' <=> Waits(d, "create")
          /\ Waits(d, "renew")' <=> Waits(d, "renew")
      BY <2>2 DEF Waits
    <3>2. pc'[d] = pc[d] /\ mem'[d].id = mem[d].id
      BY <2>2 DEF Others
    <3> QED BY <1>4, <3>1, <3>2 DEF Links
  <2> QED BY <2>1, <2>2
<1> QED BY <1>2, <1>3, <1>5 DEF Linked, Links

LEMMA LinksRun ==
  ASSUME Inv, Types', NEW c \in Clients, Run(c)
  PROVE  Linked'
<1> USE DEF Inv
<1>1. rows' = rows
  BY DEF Run, Probe, Inspect, SendRenew, RenewPointless, RenewFails, SendCreate,
         Download, BeginSave, Save, SaveLast, Stop, server
<1>2. SameRows
  BY <1>1 DEF SameRows, Exists
<1>3. ASSUME Known(c), mem'[c].id = mem[c].id PROVE Known(c)'
  BY <1>2, <1>3, KnownStays
<1>4. CASE Probe(c)
  <2>1. jobs' = jobs /\ pc[c] \notin Waiting /\ Others(c)
    BY <1>4 DEF Probe, Goto, Types, Others, Waiting, server
  <2>2. Arrives(c)
    <3>1. CASE pc'[c] = "absent"
      BY <3>1 DEF Arrives, Waiting, KnowsId
    <3>2. CASE pc'[c] # "absent"
      <4>1. PICK i \in Ids : /\ Active(i)
                             /\ mem' = [mem EXCEPT ![c].id = i]
                             /\ Goto(c, "getting")
        BY <1>4, <3>2 DEF Probe, Goto, Types
      <4>2. mem'[c].id = i /\ pc'[c] = "getting"
        BY <4>1 DEF Goto, Types, Mem
      <4> QED BY <1>1, <4>1, <4>2, CliAssumption DEF Arrives, Waiting, Known, Active, Exists
    <3> QED BY <3>1, <3>2
  <2> QED BY <1>2, <2>1, <2>2, LinksQuiet
<1>5. CASE Inspect(c)
  <2>1. /\ jobs' = jobs /\ pc[c] \notin Waiting /\ Others(c)
        /\ pc[c] \in KnowsId /\ pc'[c] \notin Waiting /\ mem'[c].id = mem[c].id
    BY <1>5 DEF Inspect, Goto, Types, Mem, Others, Waiting, KnowsId, server
  <2> QED BY <1>2, <1>3, <2>1, LinksQuiet DEF Arrives, Links
<1>6. CASE SendRenew(c)
  <2> DEFINE j == RenewJob(mem[c].id, RenewDays, c)
  <2>1. Exists(mem[c].id) /\ mem[c].id \in Ids
    BY <1>6 DEF SendRenew, Renewable, Active, Links, KnowsId, Known, Types, Mem
  <2>2. j \in Job
    BY <1>6, <2>1, NewJob, CliAssumption DEF SendRenew, Renewable
  <2>3. j.op = "renew" /\ j.client = c /\ j.cert = mem[c].id
    BY DEF RenewJob
  <2>4. /\ jobs' = jobs \union {j} /\ mem' = mem
        /\ pc[c] \notin Waiting /\ pc[c] \in KnowsId
        /\ pc' = [pc EXCEPT ![c] = "renewing"]
    BY <1>6 DEF SendRenew, AddJob, Goto, Waiting, KnowsId
  <2> HIDE DEF j
  <2> QED BY <1>1, <2>1, <2>2, <2>3, <2>4, LinksAdded
<1>7. CASE RenewPointless(c)
  <2>1. /\ jobs' = jobs /\ pc[c] \notin Waiting /\ Others(c)
        /\ pc[c] \in KnowsId /\ pc'[c] \notin Waiting /\ mem'[c].id = mem[c].id
    BY <1>7 DEF RenewPointless, Goto, Types, Others, Waiting, KnowsId, server
  <2> QED BY <1>2, <1>3, <2>1, LinksQuiet DEF Arrives, Links
<1>8. CASE RenewFails(c)
  <2>1. /\ jobs' = Abandoned(c) /\ Others(c)
        /\ pc[c] \in KnowsId /\ pc'[c] \notin Waiting /\ mem'[c].id = mem[c].id
    BY <1>8 DEF RenewFails, Refused, Goto, Types, Mem, Others, Waiting, KnowsId
  <2> QED BY <1>1, <1>3, <2>1, LinksAbandoned DEF Arrives, Links
<1>9. CASE \E i \in Ids, days \in AskedDays : SendCreate(c, i, days)
  <2>1. PICK i \in Ids, days \in AskedDays : SendCreate(c, i, days)
    BY <1>9
  <2> DEFINE j == [op |-> "create", client |-> c, cert |-> i, at |-> now, days |-> Clamp(days)]
  <2>2. j \in Job
    BY <2>1, NewJob, CliAssumption DEF SendCreate
  <2>3. ~Exists(i) /\ \A k \in jobs : k.cert # i
    BY <2>1 DEF SendCreate, Fresh
  <2>4. /\ jobs' = jobs \union {j} /\ mem' = mem /\ pc[c] \notin Waiting
        /\ pc' = [pc EXCEPT ![c] = "creating"]
    BY <2>1 DEF SendCreate, AddJob, Goto, Waiting
  <2>5. j.op = "create" /\ j.client = c /\ j.cert = i
    OBVIOUS
  <2> HIDE DEF j
  <2> QED BY <1>1, <2>2, <2>3, <2>4, <2>5, LinksAdded
<1>10. CASE Download(c)
  <2>1. /\ jobs' = jobs /\ pc[c] \notin Waiting /\ Others(c)
        /\ pc[c] \in KnowsId /\ pc'[c] \notin Waiting /\ mem'[c].id = mem[c].id
    BY <1>10 DEF Download, Goto, Types, Mem, Others, Waiting, KnowsId, server
  <2> QED BY <1>2, <1>3, <2>1, LinksQuiet DEF Arrives, Links
<1>11. CASE BeginSave(c)
  <2>1. /\ jobs' = jobs /\ pc[c] \notin Waiting
        /\ pc[c] \in KnowsId /\ pc'[c] \notin Waiting
    BY <1>11 DEF BeginSave, Goto, Types, Waiting, KnowsId, server
  <2>2. \A d \in Clients : mem'[d].id = mem[d].id
    BY <1>11 DEF BeginSave, Types, Mem
  <2>3. Others(c)
    BY <1>11, <2>2 DEF BeginSave, Goto, Types, Others
  <2> QED BY <1>2, <1>3, <2>1, <2>2, <2>3, LinksQuiet DEF Arrives, Links
<1>12. CASE Save(c)
  <2>1. /\ jobs' = jobs /\ pc[c] \notin Waiting /\ Others(c)
        /\ pc[c] \in KnowsId /\ pc'[c] \notin Waiting /\ mem'[c].id = mem[c].id
    BY <1>12 DEF Save, Saving, Types, Mem, Others, Waiting, KnowsId, server
  <2> QED BY <1>2, <1>3, <2>1, LinksQuiet DEF Arrives, Links
<1>13. CASE SaveLast(c)
  <2>1. /\ jobs' = jobs /\ pc[c] \notin Waiting /\ Others(c)
        /\ pc'[c] \notin Waiting /\ pc'[c] \notin KnowsId
    BY <1>13 DEF SaveLast, Saving, Goto, Types, Others, Waiting, KnowsId, server
  <2> QED BY <1>2, <2>1, LinksQuiet DEF Arrives
<1>14. CASE Stop(c)
  <2>1. /\ jobs' = Abandoned(c) /\ Others(c)
        /\ pc'[c] \notin Waiting /\ pc'[c] \notin KnowsId
    BY <1>14 DEF Stop, Goto, Types, Others, Waiting, KnowsId
  <2> QED BY <1>1, <2>1, LinksAbandoned DEF Arrives
<1> QED BY <1>4, <1>5, <1>6, <1>7, <1>8, <1>9, <1>10, <1>11, <1>12, <1>13, <1>14 DEF Run

LEMMA LinksServer ==
  ASSUME Inv, Types', NEW j \in jobs, Commit(j) \/ Drop(j)
  PROVE  Linked'
<1> USE DEF Inv
<1>1. /\ j.client \in Clients \union {None} /\ j.cert \in Ids
      /\ j.op \in {"create", "renew"} /\ None \notin Clients
  BY JobFields, CliAssumption
<1>2. CASE Commit(j)
  <2>1. jobs' = jobs \ {j}
    BY <1>2 DEF Commit
  <2>2. rows'[j.cert] \in Row /\ \A i \in Ids \ {j.cert} : rows'[i] = rows[i]
    BY <1>2, StoredType DEF Commit
  <2>3. Exists(j.cert)'
    BY <2>2, RowIsRow DEF Exists
  <2>4. \A i \in Ids : Exists(i)' <=> Exists(i) \/ (rows' # rows /\ i = j.cert)
    <3>1. \A i \in Ids \ {j.cert} : Exists(i)' <=> Exists(i)
      BY <2>2 DEF Exists
    <3>2. rows' = rows => (Exists(j.cert)' <=> Exists(j.cert))
      BY DEF Exists
    <3> QED BY <2>3, <3>1, <3>2
  <2>5. CASE j.client = None
    BY <1>2, <2>1, <2>3, <2>4, <2>5, LinksRemoved DEF Commit, Answer
  <2>6. CASE j.client # None
    <3> DEFINE c == j.client
    <3>1. /\ c \in Clients
          /\ pc' = [pc EXCEPT ![c] = IF j.op = "create" THEN "fetching" ELSE "downloading"]
          /\ mem' = [mem EXCEPT ![c].id = j.cert]
      BY <1>1, <1>2, <2>6 DEF Commit, Answer, Goto
    <3>2. Others(c)
      BY <3>1 DEF Others, Types
    <3>3. mem'[c].id = j.cert
      BY <3>1 DEF Types, Mem
    <3>4. pc'[c] \notin Waiting
      BY <3>1 DEF Types, Waiting
    <3>5. Known(c)'
      BY <1>1, <2>3, <3>3, CliAssumption DEF Known, Exists
    <3> QED BY <2>1, <2>3, <2>4, <3>1, <3>2, <3>4, <3>5, LinksRemoved DEF Arrives
  <2> QED BY <2>5, <2>6
<1>3. CASE Drop(j)
  <2>1. jobs' = jobs \ {j} /\ rows' = rows
    BY <1>3 DEF Drop
  <2>2. SameRows
    BY <2>1 DEF SameRows, Exists
  <2>3. CASE j.client = None
    BY <1>3, <2>1, <2>2, <2>3, LinksRemoved DEF Drop, SameRows
  <2>4. CASE j.client # None
    <3> DEFINE c == j.client
    <3>1. c \in Clients
      BY <1>1, <2>4
    <3>2. CASE j.op = "renew"
      <4>1. Refused(c)
        BY <1>3, <2>4, <3>2 DEF Drop
      <4>2. /\ Others(c) /\ mem'[c].id = mem[c].id
            /\ pc'[c] \notin Waiting
        BY <3>1, <4>1 DEF Refused, Goto, Others, Types, Mem, Waiting
      <4>3. Known(c)
        BY <3>1, <3>2 DEF Links, Waits, KnowsId
      <4>4. Arrives(c)
        BY <2>2, <3>1, <4>2, <4>3, KnownStays DEF Arrives
      <4> QED BY <2>1, <2>2, <3>1, <4>2, <4>4, LinksRemoved DEF SameRows
    <3>3. CASE j.op # "renew"
      <4>1. Goto(c, "idle") /\ mem' = [mem EXCEPT ![c] = NoMem]
        BY <1>3, <2>4, <3>3 DEF Drop
      <4>2. Others(c) /\ Arrives(c)
        BY <3>1, <4>1 DEF Goto, Others, Arrives, Types, Waiting, KnowsId
      <4> QED BY <2>1, <2>2, <3>1, <4>2, LinksRemoved DEF SameRows
    <3> QED BY <3>2, <3>3
  <2> QED BY <2>3, <2>4
<1> QED BY <1>2, <1>3

(* Admins and the clock leave the runs alone.                               *)
LEMMA LinksStill ==
  ASSUME Inv, Types', jobs' = jobs, SameRows, pc' = pc, mem' = mem
  PROVE  Linked'
<1> USE DEF Inv
<1>1. IdsFree' /\ OneJob'
  BY JobFields DEF IdsFree, OneJob, SameRows
<1>2. ASSUME NEW d \in Clients, Known(d) PROVE Known(d)'
  BY <1>2, KnownStays
<1> QED BY <1>1, <1>2 DEF Linked, Links, Waits

(* What admins do to rows: they stay, and keep their expiry.                *)
LEMMA AdminRows ==
  ASSUME Types, NEW i \in Ids, Revoke(i) \/ Delete(i) \/ Restore(i)
  PROVE  /\ SameRows
         /\ \A k \in Ids : Exists(k) =>
              Expiry(rows'[k]) = Expiry(rows[k]) /\ rows'[k].fell = rows[k].fell
         /\ UNCHANGED <<now, caEnd, jobs, pc, mem, disk, torn>>
<1>1. rows[i] \in Row
  BY ExistingRow DEF Revoke, Delete, Restore, Active
<1>2. \/ rows' = [rows EXCEPT ![i].revoked = TRUE]
      \/ rows' = [rows EXCEPT ![i].deleted = TRUE]
      \/ rows' = [rows EXCEPT ![i].deleted = FALSE]
  BY DEF Revoke, Delete, Restore
<1>3. /\ rows'[i] \in Row
      /\ rows'[i].issue = rows[i].issue /\ rows'[i].days = rows[i].days
      /\ rows'[i].fell = rows[i].fell
      /\ \A k \in Ids \ {i} : rows'[k] = rows[k]
  <2>1. \A k \in Ids \ {i} : rows'[k] = rows[k]
    BY <1>2 DEF Types
  <2>2. \/ rows'[i] = [rows[i] EXCEPT !.revoked = TRUE]
        \/ rows'[i] = [rows[i] EXCEPT !.deleted = TRUE]
        \/ rows'[i] = [rows[i] EXCEPT !.deleted = FALSE]
    BY <1>2 DEF Types
  <2>3. /\ rows'[i] \in Row
        /\ rows'[i].issue = rows[i].issue /\ rows'[i].days = rows[i].days
        /\ rows'[i].fell = rows[i].fell
    BY <1>1, <2>2 DEF Row
  <2> QED BY <2>1, <2>3
<1>4. Expiry(rows'[i]) = Expiry(rows[i])
  BY <1>3 DEF Expiry
<1>5. Exists(i)' /\ Exists(i)
  BY <1>1, <1>3, RowIsRow DEF Exists
<1>6. SameRows
  BY <1>3, <1>5 DEF SameRows, Exists
<1>7. \A k \in Ids : Expiry(rows'[k]) = Expiry(rows[k]) /\ rows'[k].fell = rows[k].fell
  BY <1>3, <1>4
<1> QED BY <1>6, <1>7 DEF Revoke, Delete, Restore

LEMMA LinksAdmin ==
  ASSUME Inv, Types', Admin
  PROVE  Linked'
<1>1. PICK i \in Ids : \/ Revoke(i) \/ Delete(i) \/ Restore(i)
                       \/ \E days \in AskedDays : AdminRenews(i, days)
  BY DEF Admin
<1>2. CASE Revoke(i) \/ Delete(i) \/ Restore(i)
  BY <1>2, AdminRows, LinksStill DEF Inv
<1>3. CASE \E days \in AskedDays : AdminRenews(i, days)
  <2>1. PICK days \in AskedDays : AdminRenews(i, days)
    BY <1>3
  <2> DEFINE j == RenewJob(i, days, None)
  <2>2. j \in Job
    BY <2>1, NewJob, CliAssumption DEF AdminRenews, Renewable, Inv
  <2>3. j.op = "renew" /\ j.client = None /\ j.cert = i
    BY DEF RenewJob
  <2>4. /\ jobs' = jobs \union {j} /\ rows' = rows /\ mem' = mem /\ pc' = pc
        /\ Exists(i)
    BY <2>1 DEF AdminRenews, AddJob, Renewable, Active
  <2> HIDE DEF j
  <2> QED BY <2>2, <2>3, <2>4, LinksAdded
<1> QED BY <1>1, <1>2, <1>3

LEMMA InvInit == Init => Inv
<1> SUFFICES ASSUME Init PROVE Inv
  OBVIOUS
<1>1. Types
  <2>1. now \in Nat /\ caEnd \in Nat /\ torn \in BOOLEAN /\ jobs \subseteq Job
    BY CliAssumption DEF Init
  <2>2. NoMem \in Mem /\ "idle" \in Pc
    BY CliAssumption DEF NoMem, Mem, Pc
  <2>3. /\ rows \in [Ids -> Row \union {NoRow}]
        /\ disk \in [File -> Ids \union {None}]
    BY DEF Init
  <2> QED BY <2>1, <2>2, <2>3 DEF Init, Types
<1>2. jobs = {} /\ \A c \in Clients : pc[c] = "idle"
  BY DEF Init
<1>3. Links
  BY <1>2 DEF Links, Waits, KnowsId
<1>4. OneJob /\ IdsFree
  BY <1>2 DEF OneJob, IdsFree
<1> QED BY <1>1, <1>3, <1>4 DEF Inv

LEMMA InvStep ==
  ASSUME Inv, [Next]_vars
  PROVE  Inv'
<1>1. Types'
  BY TypesStep DEF Inv
<1>2. CASE \E c \in Clients : Run(c)
  BY <1>1, <1>2, LinksRun DEF Linked, Inv
<1>3. CASE \E j \in jobs : Commit(j) \/ Drop(j)
  BY <1>1, <1>3, LinksServer DEF Linked, Inv
<1>4. CASE Admin
  BY <1>1, <1>4, LinksAdmin DEF Linked, Inv
<1>5. CASE Tick \/ UNCHANGED vars
  <2>1. jobs' = jobs /\ SameRows /\ pc' = pc /\ mem' = mem
    BY <1>5 DEF Tick, vars, server, SameRows, Exists
  <2> QED BY <1>1, <2>1, LinksStill DEF Linked, Inv
<1> QED BY <1>2, <1>3, <1>4, <1>5 DEF Next

----------------------------------------------------------------------------
(* What a run downloads lasts.                                              *)

(* A commit leaves a row that exists, and moves its expiry back only with   *)
(* the audit.                                                               *)
LEMMA CommitExtends ==
  ASSUME Inv, NEW j \in jobs, Commit(j), NEW i \in Ids, Exists(i)
  PROVE  /\ rows[i].fell => rows'[i].fell
         /\ Expiry(rows[i]) <= Expiry(rows'[i]) \/ rows'[i].fell
         /\ j.op = "renew" /\ i = j.cert => Expiry(rows'[i]) = JobEnd(j)
<1> USE DEF Inv
<1>1. rows[i] \in Row /\ Expiry(rows[i]) \in Nat
  BY ExistingRow, ExpiryIsNat
<1>2. CASE i # j.cert
  <2>1. rows'[i] = rows[i]
    BY <1>2, StoredType DEF Commit
  <2> QED BY <1>1, <1>2, <2>1
<1>3. CASE i = j.cert
  <2>1. j.op = "renew" /\ j \in Job
    BY <1>3, JobFields DEF IdsFree
  <2>2. rows'[i] = RenewedRow(j)
    BY <1>3, <2>1 DEF Commit, Stored, Types
  <2>3. (JobEnd(j) < Expiry(rows[i])) \in BOOLEAN
    OBVIOUS
  <2>4. /\ rows'[i].issue = j.at /\ rows'[i].days = j.days
        /\ rows[i].fell => rows'[i].fell
        /\ JobEnd(j) < Expiry(rows[i]) => rows'[i].fell
    BY <1>1, <1>3, <2>2 DEF RenewedRow, Row, JobEnd
  <2>5. Expiry(rows'[i]) = JobEnd(j)
    BY <2>4 DEF Expiry, JobEnd
  <2>6. JobEnd(j) \in Nat
    BY <2>1, ExpiryIsNat
  <2> QED BY <1>1, <2>4, <2>5, <2>6
<1> QED BY <1>2, <1>3

(* What the run c knows, and what the job for it promises.                  *)
Fine(c) ==
  /\ pc[c] = "expiring" => mem[c].due <= now + RenewWithin * DayLen
  /\ pc[c] = "downloading" =>
       \/ Lasts(Expiry(rows[mem[c].id]), mem[c].due)
       \/ rows[mem[c].id].fell

Agrees(j) ==
  j.client # None /\ j.op = "renew" =>
     j.cert = mem[j.client].id /\ Lasts(JobEnd(j), mem[j.client].due)

LEMMA PromiseParts ==
  Promise <=> (\A c \in Clients : Fine(c)) /\ (\A j \in jobs : Agrees(j))
BY DEF Promise, Fine, Agrees

LEMMA DueIsNat == ASSUME Types, NEW c \in Clients PROVE mem[c].due \in Nat
BY DEF Types, Mem

(* A run that stays where it is has what it had, whatever else happens.     *)
LEMMA FineStays ==
  ASSUME Inv, Types', NEW c \in Clients, Fine(c), pc'[c] = pc[c],
         mem'[c].id = mem[c].id, mem'[c].due = mem[c].due,
         now <= now', caEnd' = caEnd,
         \A i \in Ids : Exists(i) =>
            /\ rows[i].fell => rows'[i].fell
            /\ Expiry(rows[i]) <= Expiry(rows'[i]) \/ rows'[i].fell
            /\ rows'[i] \in Row
  PROVE  Fine(c)'
<1> USE DEF Inv
<1>1. RenewWithin * DayLen \in Nat /\ mem[c].due \in Nat
  BY Product, CliAssumption, DueIsNat
<1>2. (pc[c] = "expiring" => mem[c].due <= now + RenewWithin * DayLen)'
  BY <1>1 DEF Fine, Types
<1>3. ASSUME pc[c] = "downloading"
      PROVE  (\/ Lasts(Expiry(rows[mem[c].id]), mem[c].due)
              \/ rows[mem[c].id].fell)'
  <2> DEFINE i == mem[c].id
  <2>1. Known(c)
    BY <1>3 DEF Links, KnowsId
  <2>2. i \in Ids /\ Exists(i)
    BY <2>1 DEF Known, Types, Mem
  <2>3. rows[i] \in Row /\ rows'[i] \in Row
    BY <2>2, ExistingRow
  <2>4. Expiry(rows[i]) \in Nat /\ Expiry(rows'[i]) \in Nat
    BY <2>3, ExpiryIsNat
  <2>5. rows[i].fell \/ Lasts(Expiry(rows[i]), mem[c].due)
    BY <1>3 DEF Fine
  <2>6. rows'[i].fell \/ Lasts(Expiry(rows'[i]), mem[c].due)
    BY <1>1, <2>2, <2>4, <2>5, LaterLasts DEF Types
  <2> QED BY <2>6 DEF Lasts
<1> QED BY <1>2, <1>3 DEF Fine

LEMMA PromiseQuiet ==
  ASSUME Inv, Inv', Promise, NEW c \in Clients, UNCHANGED <<rows, now, caEnd>>,
         \A d \in Clients \ {c} :
            pc'[d] = pc[d] /\ mem'[d].id = mem[d].id /\ mem'[d].due = mem[d].due,
         pc'[c] # "renewing",
         \A j \in jobs' : j.client # None => j \in jobs,
         Fine(c)'
  PROVE  Promise'
<1>1. \A i \in Ids : Exists(i) =>
         /\ rows[i].fell => rows'[i].fell
         /\ Expiry(rows[i]) <= Expiry(rows'[i])
         /\ rows'[i] \in Row
  <2> SUFFICES ASSUME NEW i \in Ids, Exists(i)
               PROVE Expiry(rows[i]) <= Expiry(rows[i]) /\ rows[i] \in Row
    OBVIOUS
  <2> QED BY ExistingRow, ExpiryIsNat DEF Inv
<1>2. ASSUME NEW d \in Clients PROVE Fine(d)'
  <2>1. CASE d = c
    BY <2>1
  <2>2. CASE d # c
    BY <1>1, <2>2, FineStays, PromiseParts DEF Inv, Types
  <2> QED BY <2>1, <2>2
<1>3. ASSUME NEW j \in jobs' PROVE Agrees(j)'
  <2> SUFFICES ASSUME j.client # None, j.op = "renew"
               PROVE  j.cert = mem'[j.client].id /\ Lasts(JobEnd(j), mem[j.client].due)'
    BY DEF Agrees
  <2>1. j \in jobs /\ j.client \in Clients
    BY JobFields DEF Inv
  <2>2. j.client # c
    BY <2>1 DEF Inv, Links, Waits
  <2>3. Agrees(j)
    BY <2>1, PromiseParts
  <2> QED BY <2>1, <2>2, <2>3 DEF Agrees, Lasts
<1> QED BY <1>2, <1>3, PromiseParts DEF Promise, Fine, Agrees

LEMMA PromiseRun ==
  ASSUME Inv, Inv', Promise, NEW c \in Clients, Run(c)
  PROVE  Promise'
<1> USE DEF Inv
<1>1. UNCHANGED <<rows, now, caEnd>>
  BY DEF Run, Probe, Inspect, SendRenew, RenewPointless, RenewFails, SendCreate,
         Download, BeginSave, Save, SaveLast, Stop, server
<1>2. \A d \in Clients \ {c} :
         pc'[d] = pc[d] /\ mem'[d].id = mem[d].id /\ mem'[d].due = mem[d].due
  <2> SUFFICES ASSUME NEW d \in Clients \ {c}
               PROVE  pc'[d] = pc[d] /\ mem'[d].id = mem[d].id /\ mem'[d].due = mem[d].due
    OBVIOUS
  <2>1. CASE BeginSave(c)
    BY <2>1 DEF BeginSave, Goto, Types, Mem
  <2>2. CASE ~BeginSave(c)
    BY <2>2 DEF Run, Probe, Inspect, SendRenew, RenewPointless, RenewFails, Refused,
           SendCreate, Download, Save, SaveLast, Stop, Goto, Types
  <2> QED BY <2>1, <2>2
<1>3. ASSUME jobs' = jobs \/ jobs' = Abandoned(c)
      PROVE  \A j \in jobs' : j.client # None => j \in jobs
  <2>1. ASSUME NEW a \in Abandoned(c), a.client # None PROVE a \in jobs
    <3>1. PICK j \in jobs : /\ a.client = (IF j.client = c THEN None ELSE j.client)
                            /\ a = [j EXCEPT !.client = IF @ = c THEN None ELSE @]
      BY AbandonedJobs
    <3>2. [j EXCEPT !.client = IF @ = c THEN None ELSE @] = j
      BY <2>1, <3>1, JobFields DEF Job
    <3> QED BY <3>1, <3>2
  <2> QED BY <1>3, <2>1
<1>4. ASSUME pc'[c] \notin {"expiring", "downloading", "renewing"},
             jobs' = jobs \/ jobs' = Abandoned(c)
      PROVE  Promise'
  <2>1. Fine(c)'
    BY <1>4 DEF Fine
  <2> QED BY <1>1, <1>2, <1>3, <1>4, <2>1, PromiseQuiet
<1>5. CASE Probe(c) \/ Download(c) \/ BeginSave(c) \/ Save(c) \/ SaveLast(c) \/ Stop(c)
  <2>1. pc'[c] \in {"getting", "absent", "fetching", "saving", "idle"}
    BY <1>5 DEF Probe, Download, BeginSave, Save, Saving, SaveLast, Stop, Goto, Types
  <2>2. jobs' = jobs \/ jobs' = Abandoned(c)
    BY <1>5 DEF Probe, Download, BeginSave, Save, SaveLast, Stop, server
  <2> QED BY <1>4, <2>1, <2>2
<1>6. CASE Inspect(c)
  <2> DEFINE row == rows[mem[c].id]
             span == RenewWithin * DayLen
  <2>1. row \in Row /\ Expiry(row) \in Nat
    BY <1>6, ExistingRow, ExpiryIsNat DEF Inspect, Links, KnowsId, Known, Types, Mem
  <2>2. span \in Nat
    BY Product, CliAssumption
  <2>3. /\ mem'[c].due = now + span /\ mem'[c].id = mem[c].id
        /\ pc'[c] = (IF Expiry(row) - now < span THEN "expiring" ELSE "downloading")
    BY <1>6 DEF Inspect, NeedsRenew, Goto, Types, Mem
  <2> HIDE DEF span
  <2>4. pc'[c] = "downloading" => Expiry(row) >= mem'[c].due
    BY <2>1, <2>2, <2>3 DEF Types
  <2>5. Fine(c)'
    <3>1. (pc[c] = "expiring" => mem[c].due <= now + RenewWithin * DayLen)'
      BY <1>1, <2>2, <2>3 DEF span, Types
    <3>2. (pc[c] = "downloading" => Lasts(Expiry(rows[mem[c].id]), mem[c].due))'
      BY <1>1, <2>3, <2>4 DEF Lasts
    <3> QED BY <3>1, <3>2 DEF Fine
  <2>6. jobs' = jobs /\ pc'[c] # "renewing"
    BY <1>6, <2>3 DEF Inspect, server
  <2> QED BY <1>1, <1>2, <1>3, <2>5, <2>6, PromiseQuiet
<1>7. CASE SendRenew(c)
  <2>0. PICK j : j = RenewJob(mem[c].id, RenewDays, c)
    OBVIOUS
  <2>1. /\ jobs' = jobs \union {j} /\ mem' = mem /\ pc[c] = "expiring"
        /\ pc'[c] = "renewing" /\ CanIssue
    BY <1>7, <2>0 DEF SendRenew, AddJob, Goto, Types, Renewable
  <2>2. /\ j.client = c /\ j.cert = mem[c].id
        /\ JobEnd(j) = now + Clamp(RenewDays) * DayLen
    BY <2>0 DEF RenewJob, JobEnd
  <2>3. mem[c].due <= now + RenewWithin * DayLen
    BY <2>1 DEF Promise
  <2>4. Lasts(JobEnd(j), mem[c].due)
    BY <2>1, <2>2, <2>3, ClampLasts, DueIsNat
  <2>5. Agrees(j)'
    BY <1>1, <2>1, <2>2, <2>4 DEF Agrees, Lasts
  <2>6. \A k \in jobs : Agrees(k)'
    BY <1>1, <2>1, PromiseParts DEF Agrees, Lasts
  <2>7. \A d \in Clients : Fine(d)'
    BY <1>1, <1>2, <2>1, PromiseParts DEF Fine, Lasts
  <2> QED BY <2>1, <2>5, <2>6, <2>7, PromiseParts DEF Promise, Fine, Agrees
<1>8. CASE RenewPointless(c)
  <2>1. /\ jobs' = jobs /\ mem' = mem /\ pc[c] = "expiring"
        /\ pc'[c] = "downloading" /\ CanIssue
        /\ ~(now + Clamp(RenewDays) * DayLen > Expiry(rows[mem[c].id]))
    BY <1>8 DEF RenewPointless, Renewable, Extends, Goto, Types, server
  <2>2. rows[mem[c].id] \in Row
    BY <1>8, ExistingRow DEF RenewPointless, Links, KnowsId, Known, Types, Mem
  <2>3. Expiry(rows[mem[c].id]) \in Nat
    BY <2>2, ExpiryIsNat
  <2>4. Clamp(RenewDays) \in Nat
    BY <2>1, ClampIsNat, CliAssumption
  <2>5. Clamp(RenewDays) * DayLen \in Nat
    BY <2>4, Product, CliAssumption
  <2>6. Lasts(now + Clamp(RenewDays) * DayLen, mem[c].due)
    BY <2>1, ClampLasts, DueIsNat DEF Promise
  <2> DEFINE end == now + Clamp(RenewDays) * DayLen
  <2>7. end \in Nat /\ end <= Expiry(rows[mem[c].id])
    BY <2>1, <2>3, <2>5 DEF Types
  <2> HIDE DEF end
  <2>8. Lasts(Expiry(rows[mem[c].id]), mem[c].due)
    BY <2>3, <2>6, <2>7, LaterLasts, DueIsNat DEF Types, end
  <2>9. Fine(c)'
    BY <1>1, <2>1, <2>8 DEF Fine, Lasts
  <2> QED BY <1>1, <1>2, <1>3, <2>1, <2>9, PromiseQuiet
<1>9. CASE RenewFails(c)
  <2>1. /\ jobs' = Abandoned(c) /\ pc'[c] = "downloading" /\ pc[c] \in KnowsId
        /\ mem'[c].due = 0 /\ mem'[c].id = mem[c].id
    BY <1>9 DEF RenewFails, Refused, Goto, Types, Mem, KnowsId
  <2>2. Expiry(rows[mem[c].id]) \in Nat
    BY <2>1, ExistingRow, ExpiryIsNat DEF Links, Known, Types, Mem
  <2>3. Fine(c)'
    BY <1>1, <2>1, <2>2 DEF Fine, Lasts
  <2> QED BY <1>1, <1>2, <1>3, <2>1, <2>3, PromiseQuiet
<1>10. CASE \E i \in Ids, days \in AskedDays : SendCreate(c, i, days)
  <2>1. PICK i \in Ids, days \in AskedDays : SendCreate(c, i, days)
    BY <1>10
  <2>0. PICK j : j = [op |-> "create", client |-> c, cert |-> i, at |-> now, days |-> Clamp(days)]
    OBVIOUS
  <2>2. jobs' = jobs \union {j} /\ mem' = mem /\ pc'[c] = "creating"
    BY <2>0, <2>1 DEF SendCreate, AddJob, Goto, Types
  <2>3. j.op = "create"
    BY <2>0
  <2>4. Agrees(j)'
    BY <2>3 DEF Agrees
  <2>5. \A k \in jobs : Agrees(k)'
    BY <1>1, <2>2, PromiseParts DEF Agrees, Lasts
  <2>6. \A d \in Clients : Fine(d)'
    BY <1>1, <1>2, <2>2, PromiseParts DEF Fine, Lasts
  <2> QED BY <2>2, <2>4, <2>5, <2>6, PromiseParts DEF Promise, Fine, Agrees
<1> QED BY <1>5, <1>6, <1>7, <1>8, <1>9, <1>10 DEF Run

(* A job goes: the others agree as before, and the run that waited is fine. *)
LEMMA PromiseRemoved ==
  ASSUME Inv, Inv', Promise, NEW j \in jobs, jobs' = jobs \ {j}, UNCHANGED <<now, caEnd>>,
         \A d \in Clients : d # j.client =>
            pc'[d] = pc[d] /\ mem'[d].id = mem[d].id /\ mem'[d].due = mem[d].due,
         \A i \in Ids : Exists(i) =>
            /\ rows[i].fell => rows'[i].fell
            /\ Expiry(rows[i]) <= Expiry(rows'[i]) \/ rows'[i].fell
            /\ rows'[i] \in Row,
         j.client \in Clients => Fine(j.client)'
  PROVE  Promise'
<1> USE DEF Inv
<1>1. ASSUME NEW d \in Clients PROVE Fine(d)'
  <2>1. CASE d = j.client
    BY <2>1
  <2>2. CASE d # j.client
    BY <2>2, FineStays, PromiseParts DEF Types
  <2> QED BY <2>1, <2>2
<1>2. ASSUME NEW k \in jobs' PROVE Agrees(k)'
  <2> SUFFICES ASSUME k.client # None, k.op = "renew"
               PROVE  k.cert = mem'[k.client].id /\ Lasts(JobEnd(k), mem[k.client].due)'
    BY DEF Agrees
  <2>1. k \in jobs /\ k # j /\ k.client \in Clients
    BY JobFields
  <2>2. k.client # j.client
    BY <2>1 DEF OneJob
  <2>3. Agrees(k)
    BY <2>1, PromiseParts
  <2> QED BY <2>1, <2>2, <2>3 DEF Agrees, Lasts
<1> QED BY <1>1, <1>2, PromiseParts DEF Promise, Fine, Agrees

LEMMA PromiseServer ==
  ASSUME Inv, Inv', Promise, NEW j \in jobs, Commit(j) \/ Drop(j)
  PROVE  Promise'
<1> USE DEF Inv
<1>1. j.client \in Clients \union {None} /\ j.cert \in Ids /\ j.op \in {"create", "renew"}
      /\ None \notin Clients
  BY JobFields, CliAssumption
<1>2. jobs' = jobs \ {j} /\ UNCHANGED <<now, caEnd>>
  BY DEF Commit, Drop
<1>3. CASE Commit(j)
  <2>1. ASSUME NEW d \in Clients, d # j.client
        PROVE  pc'[d] = pc[d] /\ mem'[d].id = mem[d].id /\ mem'[d].due = mem[d].due
    BY <1>1, <1>3, <2>1 DEF Commit, Answer, Goto, Types
  <2>2. ASSUME NEW i \in Ids, Exists(i)
        PROVE  /\ rows[i].fell => rows'[i].fell
               /\ Expiry(rows[i]) <= Expiry(rows'[i]) \/ rows'[i].fell
               /\ rows'[i] \in Row
    <3>1. rows[i] \in Row
      BY <2>2, ExistingRow
    <3>2. rows'[i] \in Row
      BY <1>3, <3>1, StoredType DEF Commit
    <3> QED BY <1>3, <2>2, <3>2, CommitExtends
  <2>3. ASSUME j.client \in Clients PROVE Fine(j.client)'
    <3> DEFINE c == j.client
    <3>1. /\ pc'[c] = (IF j.op = "create" THEN "fetching" ELSE "downloading")
          /\ mem'[c].id = j.cert /\ mem'[c].due = mem[c].due
      BY <1>1, <1>3, <2>3 DEF Commit, Answer, Goto, Types, Mem
    <3>2. CASE j.op = "create"
      BY <3>1, <3>2 DEF Fine
    <3>3. CASE j.op = "renew"
      <4>1. Lasts(JobEnd(j), mem[c].due)
        BY <1>1, <2>3, <3>3 DEF Promise
      <4>2. Exists(j.cert)
        BY <3>3 DEF IdsFree
      <4>3. Expiry(rows'[j.cert]) = JobEnd(j)
        BY <1>1, <1>3, <3>3, <4>2, CommitExtends
      <4> QED BY <1>2, <3>1, <3>3, <4>1, <4>3 DEF Fine, Lasts, Expiry
    <3> QED BY <1>1, <3>2, <3>3
  <2> QED BY <1>2, <2>1, <2>2, <2>3, PromiseRemoved
<1>4. CASE Drop(j)
  <2>1. ASSUME NEW d \in Clients, d # j.client
        PROVE  pc'[d] = pc[d] /\ mem'[d].id = mem[d].id /\ mem'[d].due = mem[d].due
    <3>1. CASE j.client = None
      BY <1>4, <3>1 DEF Drop
    <3>2. CASE j.client # None
      BY <1>1, <1>4, <2>1, <3>2 DEF Drop, Refused, Goto, Types
    <3> QED BY <3>1, <3>2
  <2>2. ASSUME NEW i \in Ids, Exists(i)
        PROVE  /\ rows[i].fell => rows'[i].fell
               /\ Expiry(rows[i]) <= Expiry(rows'[i])
               /\ rows'[i] \in Row
    <3>1. rows' = rows /\ rows[i] \in Row /\ Expiry(rows[i]) \in Nat
      BY <1>4, <2>2, ExistingRow, ExpiryIsNat DEF Drop
    <3> QED BY <3>1
  <2>3. ASSUME j.client \in Clients PROVE Fine(j.client)'
    <3> DEFINE c == j.client
    <3>1. CASE j.op = "renew"
      <4>1. pc'[c] = "downloading" /\ mem'[c].due = 0 /\ mem'[c].id = mem[c].id
        BY <1>1, <1>4, <2>3, <3>1 DEF Drop, Refused, Goto, Types, Mem
      <4>2. j.cert = mem[c].id /\ Exists(j.cert) /\ rows' = rows
        BY <1>1, <1>4, <2>3, <3>1 DEF Promise, IdsFree, Drop
      <4>3. Expiry(rows[mem[c].id]) \in Nat
        BY <1>1, <4>2, ExistingRow, ExpiryIsNat
      <4> QED BY <4>1, <4>2, <4>3 DEF Fine, Lasts
    <3>2. CASE j.op # "renew"
      <4>1. pc'[c] = "idle"
        BY <1>1, <1>4, <2>3, <3>2 DEF Drop, Goto, Types
      <4> QED BY <4>1 DEF Fine
    <3> QED BY <3>1, <3>2
  <2> QED BY <1>2, <2>1, <2>2, <2>3, PromiseRemoved
<1> QED BY <1>3, <1>4

(* Admins and the clock.                                                    *)
LEMMA PromiseStill ==
  ASSUME Inv, Inv', Promise, UNCHANGED <<caEnd, pc, mem>>, now <= now',
         \A j \in jobs' : j \in jobs \/ j.client = None,
         \A i \in Ids : Exists(i) =>
            Expiry(rows'[i]) = Expiry(rows[i]) /\ rows'[i].fell = rows[i].fell /\ Exists(i)'
  PROVE  Promise'
<1> USE DEF Inv
<1>1. ASSUME NEW i \in Ids, Exists(i)
      PROVE  /\ rows[i].fell => rows'[i].fell
             /\ Expiry(rows[i]) <= Expiry(rows'[i])
             /\ rows'[i] \in Row
  <2>1. Expiry(rows[i]) \in Nat
    BY <1>1, ExistingRow, ExpiryIsNat
  <2>2. rows'[i] \in Row
    BY <1>1 DEF Types, Exists
  <2> QED BY <1>1, <2>1, <2>2
<1>2. ASSUME NEW d \in Clients PROVE Fine(d)'
  BY <1>1, FineStays, PromiseParts DEF Types
<1>3. ASSUME NEW j \in jobs' PROVE Agrees(j)'
  <2>1. CASE j \in jobs
    <3>1. Agrees(j)
      BY <2>1, PromiseParts
    <3> QED BY <3>1 DEF Agrees, Lasts
  <2>2. CASE j.client = None
    BY <2>2 DEF Agrees
  <2> QED BY <2>1, <2>2
<1> QED BY <1>2, <1>3, PromiseParts DEF Promise, Fine, Agrees

LEMMA PromiseStep ==
  ASSUME Inv, Inv', Promise, [Next]_vars
  PROVE  Promise'
<1>1. CASE \E c \in Clients : Run(c)
  BY <1>1, PromiseRun
<1>2. CASE \E j \in jobs : Commit(j) \/ Drop(j)
  BY <1>2, PromiseServer
<1>3. CASE Admin
  <2>1. PICK i \in Ids : \/ Revoke(i) \/ Delete(i) \/ Restore(i)
                         \/ \E days \in AskedDays : AdminRenews(i, days)
    BY <1>3 DEF Admin
  <2>2. CASE Revoke(i) \/ Delete(i) \/ Restore(i)
    BY <2>2, AdminRows, PromiseStill DEF Inv, Types, SameRows
  <2>3. CASE \E days \in AskedDays : AdminRenews(i, days)
    <3>1. PICK days \in AskedDays : AdminRenews(i, days)
      BY <2>3
    <3>2. \A j \in jobs' : j \in jobs \/ j.client = None
      BY <3>1 DEF AdminRenews, AddJob, RenewJob
    <3> QED BY <3>1, <3>2, PromiseStill DEF AdminRenews, Inv, Types, Exists
  <2> QED BY <2>1, <2>2, <2>3
<1>4. CASE Tick \/ UNCHANGED vars
  <2>1. UNCHANGED <<caEnd, pc, mem, rows, jobs>> /\ now <= now'
    BY <1>4 DEF Tick, vars, server, Inv, Types
  <2> QED BY <2>1, PromiseStill DEF Exists
<1> QED BY <1>1, <1>2, <1>3, <1>4 DEF Next

----------------------------------------------------------------------------
(* The files fit.                                                           *)

Undisturbed(c) ==
  Saving(c) =>
     /\ mem[c].saved \in 1..LastFile - 1
     /\ ~torn => mem[c].alone
     /\ mem[c].alone =>
          /\ \A d \in Clients \ {c} : ~Saving(d)
          /\ \A f \in 1..mem[c].saved : disk[f] = mem[c].id

LEMMA WholeParts == Whole <=> (\A c \in Clients : Undisturbed(c)) /\ FilesFit
BY DEF Whole, Undisturbed

(* Nobody starts or ends to save.                                           *)
LEMMA WholeQuiet ==
  ASSUME Types, Types', Whole, UNCHANGED <<disk, torn>>,
         \A c \in Clients : Saving(c)' <=> Saving(c),
         \A c \in Clients : Saving(c) => mem'[c] = mem[c]
  PROVE  Whole'
<1>1. ASSUME NEW c \in Clients PROVE Undisturbed(c)'
  BY WholeParts DEF Undisturbed
<1>2. FilesFit'
  BY DEF Whole, FilesFit
<1> QED BY <1>1, <1>2, WholeParts DEF Whole, Undisturbed

LEMMA WholeBegin ==
  ASSUME Types, Types', Whole, NEW c \in Clients, BeginSave(c)
  PROVE  Whole'
<1> DEFINE alone == \A d \in Clients \ {c} : ~Saving(d)
<1>1. /\ disk' = [disk EXCEPT ![1] = mem[c].id]
      /\ mem' = [d \in Clients |->
                   IF d = c THEN [mem[c] EXCEPT !.saved = 1, !.alone = alone]
                   ELSE [mem[d] EXCEPT !.alone = FALSE]]
      /\ torn' = (torn \/ ~alone)
      /\ pc' = [pc EXCEPT ![c] = "saving"] /\ pc[c] = "fetching"
  BY DEF BeginSave, Write, Goto
<1>2. \A d \in Clients \ {c} : Saving(d)' <=> Saving(d)
  BY <1>1 DEF Saving, Types
<1>3. Saving(c)'
  BY <1>1 DEF Saving, Types
<1>4. Undisturbed(c)'
  <2>1. mem'[c].saved = 1 /\ mem'[c].id = mem[c].id /\ mem'[c].alone = alone
    <3>1. PICK a \in BOOLEAN : a = alone
      OBVIOUS
    <3>2. mem'[c] = [mem[c] EXCEPT !.saved = 1, !.alone = a]
      BY <1>1, <3>1
    <3>3. mem[c] \in Mem
      BY DEF Types
    <3>4. mem'[c].saved = 1 /\ mem'[c].id = mem[c].id /\ mem'[c].alone = a
      BY <3>2, <3>3 DEF Mem
    <3> QED BY <3>1, <3>4
  <2>2. mem'[c].alone = alone
    BY <2>1
  <2>3. 1 \in File
    BY CliAssumption DEF File
  <2>4. disk'[1] = mem'[c].id
    BY <1>1, <2>1, <2>3 DEF Types
  <2>5. ~torn' => mem'[c].alone
    BY <1>1, <2>2
  <2>6. mem'[c].alone => \A d \in Clients \ {c} : ~Saving(d)'
    BY <1>2, <2>2
  <2>7. mem'[c].saved \in 1..LastFile - 1
    BY <2>1, CliAssumption
  <2>8. \A f \in 1..mem'[c].saved : disk'[f] = mem'[c].id
    BY <2>1, <2>4
  <2> QED BY <2>5, <2>6, <2>7, <2>8 DEF Undisturbed
<1>5. ASSUME NEW d \in Clients, d # c PROVE Undisturbed(d)'
  <2>1. mem'[d].saved = mem[d].saved /\ mem'[d].alone = FALSE
    BY <1>1, <1>5 DEF Types, Mem
  <2>2. Saving(d)' => Saving(d) /\ torn'
    <3> SUFFICES ASSUME Saving(d)' PROVE Saving(d) /\ torn'
      OBVIOUS
    <3>1. Saving(d)
      BY <1>2, <1>5
    <3>2. ~alone
      BY <1>5, <3>1
    <3> QED BY <1>1, <3>1, <3>2
  <2> QED BY <2>1, <2>2, WholeParts DEF Undisturbed
<1>6. FilesFit'
  BY <1>3 DEF FilesFit
<1> QED BY <1>4, <1>5, <1>6, WholeParts DEF Whole, Undisturbed

LEMMA WholeSave ==
  ASSUME Types, Types', Whole, NEW c \in Clients, Save(c)
  PROVE  Whole'
<1> DEFINE n == mem[c].saved + 1
<1>0. Saving(c) /\ mem[c].saved \in 1..LastFile - 1 /\ mem[c].saved < LastFile - 1
  BY WholeParts DEF Save, Undisturbed
<1>1. /\ mem' = [mem EXCEPT ![c].saved = @ + 1] /\ UNCHANGED <<pc, torn>>
      /\ disk' = [disk EXCEPT ![n] = mem[c].id]
  BY DEF Save, Write
<1>2. n \in File /\ n \in 1..LastFile - 1
  BY <1>0, CliAssumption DEF File
<1> HIDE DEF n
<1>3. /\ mem'[c].saved = n /\ mem'[c].id = mem[c].id /\ mem'[c].alone = mem[c].alone
      /\ \A d \in Clients \ {c} : mem'[d] = mem[d]
  BY <1>1 DEF n, Types, Mem
<1>4. \A d \in Clients : Saving(d)' <=> Saving(d)
  BY <1>1 DEF Saving
<1>5. Undisturbed(c)'
  <2>1. mem[c].alone => \A f \in 1..n : disk'[f] = mem[c].id
    <3> SUFFICES ASSUME mem[c].alone, NEW f \in 1..n PROVE disk'[f] = mem[c].id
      OBVIOUS
    <3>1. CASE f = n
      BY <1>1, <1>2, <3>1 DEF Types
    <3>2. CASE f # n
      <4>1. f \in 1..mem[c].saved /\ f \in File
        BY <1>0, <1>2, <3>2, CliAssumption DEF n, File
      <4>2. disk[f] = mem[c].id
        BY <1>0, <4>1, WholeParts DEF Undisturbed
      <4> QED BY <1>1, <3>2, <4>1, <4>2 DEF Types
    <3> QED BY <3>1, <3>2
  <2> QED BY <1>0, <1>1, <1>2, <1>3, <1>4, <2>1, WholeParts DEF Undisturbed
<1>6. ASSUME NEW d \in Clients, d # c PROVE Undisturbed(d)'
  <2>1. Saving(d) => ~mem[d].alone /\ mem[d].saved \in 1..LastFile - 1 /\ torn
    BY <1>0, <1>6, WholeParts DEF Undisturbed
  <2> QED BY <1>1, <1>3, <1>4, <1>6, <2>1 DEF Undisturbed
<1>7. FilesFit'
  BY <1>0, <1>4 DEF FilesFit
<1> QED BY <1>5, <1>6, <1>7, WholeParts DEF Whole, Undisturbed

LEMMA WholeLast ==
  ASSUME Types, Types', Whole, NEW c \in Clients, SaveLast(c)
  PROVE  Whole'
<1>1. /\ Saving(c) /\ mem[c].saved = LastFile - 1
      /\ disk' = [disk EXCEPT ![LastFile] = mem[c].id]
      /\ mem' = [mem EXCEPT ![c] = NoMem] /\ pc' = [pc EXCEPT ![c] = "idle"]
      /\ torn' = (torn /\ ~mem[c].alone)
  <2>1. mem[c].saved + 1 = LastFile
    BY CliAssumption DEF SaveLast
  <2> QED BY <2>1 DEF SaveLast, Write, Goto
<1>2. ~Saving(c)' /\ \A d \in Clients \ {c} : (Saving(d)' <=> Saving(d)) /\ mem'[d] = mem[d]
  BY <1>1 DEF Saving, Types
<1>3. ASSUME NEW d \in Clients, Saving(d)' PROVE Undisturbed(d)'
  <2>1. Saving(d) /\ d # c /\ mem'[d] = mem[d]
    BY <1>2, <1>3
  <2>2. ~mem[d].alone /\ ~mem[c].alone /\ mem[d].saved \in 1..LastFile - 1
    BY <1>1, <2>1, WholeParts DEF Undisturbed
  <2>3. torn'
    BY <1>1, <2>1, <2>2, WholeParts DEF Undisturbed
  <2> QED BY <2>1, <2>2, <2>3 DEF Undisturbed
<1>4. FilesFit'
  <2> SUFFICES ASSUME ~torn', NEW f \in File PROVE disk'[f] = mem[c].id
    BY DEF FilesFit
  <2>1. mem[c].alone
    BY <1>1, WholeParts DEF Undisturbed, Types
  <2>2. CASE f = LastFile
    BY <1>1, <2>2 DEF Types
  <2>3. CASE f # LastFile
    <3>1. f \in 1..mem[c].saved
      BY <1>1, <2>3, CliAssumption DEF File
    <3>2. disk[f] = mem[c].id
      BY <1>1, <2>1, <3>1, WholeParts DEF Undisturbed
    <3> QED BY <1>1, <2>3, <3>2 DEF Types
  <2> QED BY <2>2, <2>3
<1> QED BY <1>3, <1>4, WholeParts DEF Whole, Undisturbed

LEMMA WholeStop ==
  ASSUME Types, Types', Whole, NEW c \in Clients, Stop(c)
  PROVE  Whole'
<1>1. /\ mem' = [mem EXCEPT ![c] = NoMem] /\ pc' = [pc EXCEPT ![c] = "idle"]
      /\ torn' = (torn \/ Saving(c)) /\ disk' = disk
  BY DEF Stop, Goto
<1>2. ~Saving(c)' /\ \A d \in Clients \ {c} : (Saving(d)' <=> Saving(d)) /\ mem'[d] = mem[d]
  BY <1>1 DEF Saving, Types
<1>3. ASSUME NEW d \in Clients, Saving(d)' PROVE Undisturbed(d)'
  <2>1. Saving(d) /\ d # c /\ mem'[d] = mem[d]
    BY <1>2, <1>3
  <2>2. /\ mem'[d].saved \in 1..LastFile - 1
        /\ ~torn' => mem'[d].alone
    BY <1>1, <2>1, WholeParts DEF Undisturbed
  <2>3. mem'[d].alone => \A e \in Clients \ {d} : ~Saving(e)'
    BY <1>2, <2>1, WholeParts DEF Undisturbed
  <2>4. mem'[d].alone => \A f \in 1..mem'[d].saved : disk'[f] = mem'[d].id
    BY <1>1, <2>1, WholeParts DEF Undisturbed
  <2> QED BY <2>2, <2>3, <2>4 DEF Undisturbed
<1>4. FilesFit'
  BY <1>1, <1>2 DEF FilesFit, Whole
<1> QED BY <1>3, <1>4, WholeParts DEF Whole, Undisturbed

LEMMA WholeStep ==
  ASSUME Inv, Types', Whole, [Next]_vars
  PROVE  Whole'
<1> USE DEF Inv
<1>1. ASSUME NEW c \in Clients, Run(c), ~BeginSave(c), ~Save(c), ~SaveLast(c), ~Stop(c)
      PROVE  Whole'
  <2>1. UNCHANGED <<disk, torn>> /\ ~Saving(c) /\ pc'[c] # "saving"
    BY <1>1 DEF Run, Probe, Inspect, SendRenew, RenewPointless, RenewFails, Refused,
           SendCreate, Download, Saving, Goto, Types, server
  <2>2. \A d \in Clients \ {c} : pc'[d] = pc[d] /\ mem'[d] = mem[d]
    BY <1>1 DEF Run, Probe, Inspect, SendRenew, RenewPointless, RenewFails, Refused,
           SendCreate, Download, Goto, Types, server
  <2> QED BY <2>1, <2>2, WholeQuiet DEF Saving
<1>2. CASE \E c \in Clients : Run(c)
  BY <1>1, <1>2, WholeBegin, WholeSave, WholeLast, WholeStop
<1>3. ASSUME NEW j \in jobs, Commit(j) \/ Drop(j)
      PROVE  Whole'
  <2>1. UNCHANGED <<disk, torn>>
    BY <1>3 DEF Commit, Drop
  <2>2. j.op \in {"create", "renew"} /\ j.client \in Clients \union {None}
    BY JobFields
  <2>3. CASE j.client = None
    BY <1>3, <2>1, <2>3, WholeQuiet DEF Commit, Drop, Answer, Saving
  <2>4. CASE j.client # None
    <3> DEFINE c == j.client
    <3>1. c \in Clients /\ pc[c] \in Waiting
      BY <2>2, <2>4 DEF Links, Waits, Waiting
    <3>2. /\ pc'[c] # "saving"
          /\ \A d \in Clients \ {c} : pc'[d] = pc[d] /\ mem'[d] = mem[d]
      BY <1>3, <2>2, <2>4, <3>1 DEF Commit, Answer, Drop, Refused, Goto, Types
    <3> QED BY <2>1, <3>1, <3>2, WholeQuiet DEF Saving, Waiting
  <2> QED BY <2>3, <2>4
<1>4. CASE Admin \/ Tick \/ UNCHANGED vars
  <2>1. UNCHANGED <<disk, torn, pc, mem>>
    BY <1>4 DEF Admin, Revoke, Delete, Restore, AdminRenews, Tick, vars, server
  <2> QED BY <2>1, WholeQuiet DEF Saving
<1> QED BY <1>2, <1>3, <1>4 DEF Next

----------------------------------------------------------------------------
(* The inductive invariant.                                                 *)
THEOREM Invariance == Spec => []IInv
<1>1. Init => IInv
  <2>1. Init => Promise
    BY DEF Init, Promise
  <2>2. Init => Whole
    BY DEF Init, Whole, FilesFit, Saving
  <2> QED BY <2>1, <2>2, InvInit DEF IInv
<1>2. IInv /\ [Next]_vars => IInv'
  <2> SUFFICES ASSUME IInv, [Next]_vars PROVE IInv'
    OBVIOUS
  <2>1. Inv'
    BY InvStep DEF IInv
  <2>2. Promise'
    BY <2>1, PromiseStep DEF IInv
  <2>3. Whole'
    BY <2>1, WholeStep DEF IInv, Inv
  <2> QED BY <2>1, <2>2, <2>3 DEF IInv
<1> QED BY <1>1, <1>2, PTL DEF Spec

(* Type correctness, and which run and which job wait for each other        *)
(* (http.Client in newClient).                                              *)
THEOREM Typing == Spec => []TypeOK
<1>1. IInv => TypeOK
  BY TypeParts DEF IInv
<1> QED BY <1>1, Invariance, PTL

(* What a run downloads lasts renewWithinDays, or to within a day of the    *)
(* end of the CA, unless the renewal failed or an overlapping one moved the *)
(* expiry back (runCert).                                                   *)
THEOREM Durability == Spec => LastsAWhile
<1> DEFINE Lasting == \A c \in Clients : pc[c] = "downloading" /\ pc'[c] = "fetching" =>
                        LET row == rows[mem[c].id]
                        IN \/ Expiry(row) >= mem[c].due
                           \/ Expiry(row) > caEnd - DayLen
                           \/ row.fell
<1>1. IInv /\ [Next]_vars => [Lasting]_vars
  BY DEF IInv, Promise, Lasts
<1>2. Spec => [][Lasting]_vars
  BY <1>1, Invariance, PTL DEF Spec
<1> QED BY <1>2 DEF LastsAWhile

(* Whatever runs overlap or are cut short, the key in the directory fits    *)
(* the certificate, once an undisturbed save came last (saveBundle).        *)
THEOREM FilesTogether == Spec => []FilesFit
<1>1. IInv => FilesFit
  BY DEF IInv, Whole
<1> QED BY <1>1, Invariance, PTL
=============================================================================
