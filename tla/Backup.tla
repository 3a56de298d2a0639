------------------------------- MODULE Backup -------------------------------
(***************************************************************************)
(* What happens to the whole database: backups are exported and restored,  *)
(* everything is nuked, and minica --import-legacy, a process of its own,  *)
(* walks a 1.0.x directory tree and inserts what it finds, while requests  *)
(* go on creating and deleting (service.rs, db.rs, legacy.rs).             *)
(*                                                                         *)
(* A CA is its serial counter and its deleted flag, a certificate its CA,  *)
(* its serial and its deleted flag; users and templates are ids.  Rows     *)
(* also have the flag of the metadata repair (meta_version).  What single  *)
(* requests do between their database calls is in CaSigning, Login and     *)
(* Templates; here each of them is its commit.                             *)
(*                                                                         *)
(* The time stamps of a backup, its format version and the contents that   *)
(* backup_to_snapshot decodes are left out: a file that is restored is one *)
(* this program exported.  What the repair writes is in Validity.          *)
(***************************************************************************)
EXTENDS Naturals, Sequences, FiniteSets

CONSTANTS
    CaIds, CertIds, UserIds,    \* ids; users stand for templates, too
    Items,          \* the legacy tree: [ca, cert] in the order of the walk
    Dotted,         \* ids with a dot in them: names of legacy directories
    Requests,       \* restore requests of the server
    Start,          \* the database at the start
    None,           \* no row, no certificate, no file
    MaxOps,         \* bound: operations of admins
    MaxRuns,        \* bound: runs of the importer
    MaxCrashes      \* bound: ends of the server

\* A CA comes before its certificates, and every id once (1.0.x drew them at random).
ASSUME BackupAssumption ==
    /\ Items \in Seq([ca : CaIds, cert : CertIds \cup {None}])
    /\ \A i, j \in DOMAIN Items :
          /\ Items[i].cert = Items[j].cert
          /\ Items[i].cert = None => Items[i].ca = Items[j].ca
          => i = j
    /\ \A i \in DOMAIN Items : Items[i].cert # None =>
          \E j \in 1..(i - 1) : /\ Items[j] = [ca |-> Items[i].ca, cert |-> None]
                                /\ \A k \in j..i : Items[k].ca = Items[i].ca
    /\ Dotted \subseteq CaIds \cup CertIds
    /\ {MaxOps, MaxRuns, MaxCrashes} \subseteq Nat

Boot == "boot"      \* the start of the server, which repairs before it listens
Actors == Requests \cup {Boot}

LegacyCas == {Items[i].ca : i \in DOMAIN Items}
LegacyCerts == {Items[i].cert : i \in DOMAIN Items} \ {None}

VARIABLES
    db,         \* the tables: [cas, certs, users]
    locked,     \* the CAs whose lock row names the importer
    files,      \* the backups exported so far
    pc, file,   \* of restore requests, and of the start of the server
    todo,       \* rows listed for repair
    up,         \* the server runs
    at, step,   \* the importer: its item, and where it is with it
    bad,        \* it has failures to report
    \* bounds
    ops, runs, crashes,
    \* audit variables
    base,       \* what the database was restored to, or emptied
    touched,    \* ids changed since
    wiped,      \* a nuke since the importer started
    unrepaired  \* a repair has failed

tables == <<db, locked, base, touched>>
server == <<files, pc, file, todo, up, unrepaired>>
importer == <<at, step, bad, wiped>>
bounds == <<ops, runs, crashes>>
vars == <<tables, server, importer, bounds>>

CaRow == [del : BOOLEAN, next : Nat, checked : BOOLEAN]
CertRow == [ca : CaIds, serial : Nat, del : BOOLEAN, checked : BOOLEAN]
Tables == [cas : [CaIds -> CaRow \cup {None}], certs : [CertIds -> CertRow \cup {None}],
           users : SUBSET UserIds]
File == [rows : Tables, of : Tables]

\* Serials other than those of imported certificates, which are 0 here, are of one
\* certificate of the CA ...
Apart(t) ==
    \A x, y \in CertIds :
        /\ x # y /\ t.certs[x] # None /\ t.certs[y] # None
        /\ t.certs[x].ca = t.certs[y].ca /\ t.certs[x].serial # 0
        => t.certs[x].serial # t.certs[y].serial

\* ... and of those its counter has counted; certificates have a CA.
Counted(t) ==
    \A x \in CertIds : t.certs[x] # None =>
        /\ t.cas[t.certs[x].ca] # None
        /\ t.certs[x].serial # 0 => t.certs[x].serial < t.cas[t.certs[x].ca].next

\* What was imported from the tree is where it is in the tree.
InPlace(t) ==
    \A i \in DOMAIN Items :
        /\ Items[i].cert # None /\ t.certs[Items[i].cert] # None
        => t.certs[Items[i].cert].ca = Items[i].ca

\* The server starts with a database that this program has written.
ASSUME StartAssumption ==
    /\ None \notin CaRow \cup CertRow
    /\ Start \in Tables
    /\ Apart(Start) /\ Counted(Start) /\ InPlace(Start)

TypeOK ==
    /\ db \in Tables
    /\ locked \subseteq CaIds
    /\ files \in Seq(File)
    /\ pc \in [Actors -> {"idle", "validated", "listing", "cas", "certs", "refused", "failed"}]
    /\ file \in [Actors -> 0..Len(files)]
    /\ todo \in [Actors -> SUBSET (CaIds \cup CertIds)]
    /\ up \in BOOLEAN
    /\ at \in 1..(Len(Items) + 1)
    /\ step \in {"off", "looking", "inserting", "locking", "holding", "reported"}
    /\ {bad, wiped, unrepaired} \subseteq BOOLEAN
    /\ ops \in 0..MaxOps /\ runs \in 0..MaxRuns /\ crashes \in 0..MaxCrashes
    /\ base \in Tables
    /\ touched \subseteq CaIds \cup CertIds \cup UserIds

----------------------------------------------------------------------------
(* The tables.                                                             *)

EmptyTables == [cas |-> [c \in CaIds |-> None], certs |-> [x \in CertIds |-> None], users |-> {}]

\* Mutant of IsEmpty: what is deleted is not counted.
NothingActive ==
    /\ db.users = {}
    /\ \A c \in CaIds : db.cas[c] # None => db.cas[c].del
    /\ \A x \in CertIds : db.certs[x] # None => db.certs[x].del

\* is_empty_conn counts deleted rows, too.
IsEmpty == db = EmptyTables

CaExists(c) == db.cas[c] # None
CertExists(x) == db.certs[x] # None
CaLive(c) == CaExists(c) /\ ~db.cas[c].del

\* insert_ca and insert_cert_with_state: rows of this version need no repair.
PutCa(c, row) == db' = [db EXCEPT !.cas[c] = row]
PutCert(x, row) == db' = [db EXCEPT !.certs[x] = row]

NewCa == [del |-> FALSE, next |-> 1, checked |-> TRUE]
NewCert(c, n) == [ca |-> c, serial |-> n, del |-> FALSE, checked |-> TRUE]

\* The rows of one id, with or without the flag of the repair.
Content(t, id) ==
    IF id \in UserIds THEN id \in t.users
    ELSE IF id \in CaIds
         THEN IF t.cas[id] = None THEN <<>> ELSE <<t.cas[id].del, t.cas[id].next>>
    ELSE IF t.certs[id] = None THEN <<>>
    ELSE <<t.certs[id].ca, t.certs[id].serial, t.certs[id].del>>

Unchecked(t) ==
    {c \in CaIds : t.cas[c] # None /\ ~t.cas[c].checked}
        \cup {x \in CertIds : t.certs[x] # None /\ ~t.certs[x].checked}

Init ==
    /\ db = Start
    /\ locked = {}
    /\ files = <<>>
    /\ pc = [a \in Actors |-> "idle"]
    /\ file = [a \in Actors |-> 0]
    /\ todo = [a \in Actors |-> {}]
    /\ up = TRUE
    /\ at = 1 /\ step = "off"
    /\ bad = FALSE /\ wiped = FALSE /\ unrepaired = FALSE
    /\ ops = 0 /\ runs = 0 /\ crashes = 0
    /\ base = db
    /\ touched = {}

----------------------------------------------------------------------------
(* Operations of admins through the server.                                *)

Serving == up /\ pc[Boot] = "idle"

Operates ==
    /\ Serving
    /\ ops < MaxOps
    /\ ops' = ops + 1
    /\ UNCHANGED <<runs, crashes>>

Touches(id) == touched' = touched \cup {id} /\ UNCHANGED <<locked, base>>

CreateUser(u) ==
    /\ Operates
    /\ u \notin db.users
    /\ db' = [db EXCEPT !.users = @ \cup {u}]
    /\ Touches(u)
    /\ UNCHANGED <<server, importer>>

CreateCa(c) ==
    /\ Operates
    /\ c \notin LegacyCas /\ ~CaExists(c)
    /\ PutCa(c, NewCa)
    /\ Touches(c)
    /\ UNCHANGED <<server, importer>>

\* create_cert: the row, and the state of the CA, under its lock.
CreateCert(x, c) ==
    /\ Operates
    /\ x \notin LegacyCerts /\ ~CertExists(x)
    /\ CaLive(c) /\ c \notin locked
    /\ db' = [db EXCEPT !.certs[x] = NewCert(c, db.cas[c].next), !.cas[c].next = @ + 1]
    /\ touched' = touched \cup {x, c}
    /\ UNCHANGED <<locked, base, server, importer>>

\* delete_ca and restore_ca; the certificates keep their own flags.
FlipCa(c) ==
    /\ Operates
    /\ CaExists(c)
    /\ db' = [db EXCEPT !.cas[c].del = ~@]
    /\ Touches(c)
    /\ UNCHANGED <<server, importer>>

FlipCert(x) ==
    /\ Operates
    /\ CertExists(x)
    /\ db' = [db EXCEPT !.certs[x].del = ~@]
    /\ Touches(x)
    /\ UNCHANGED <<server, importer>>

NukeAll ==
    /\ Operates
    /\ db' = EmptyTables /\ base' = EmptyTables
    /\ locked' = {} /\ touched' = {}
    /\ wiped' = TRUE
    /\ UNCHANGED <<server, at, step, bad>>

----------------------------------------------------------------------------
(* Backups.                                                                *)

\* backup_snapshot: every row, deleted ones too, in one read transaction.
Snapshot == db

ExportBackup ==
    /\ Operates
    /\ files' = Append(files, [rows |-> Snapshot, of |-> db])
    /\ UNCHANGED <<tables, pc, file, todo, up, unrepaired, importer>>

\* backup_to_snapshot, which knows the ids that short_id makes.
Ids(t) == {c \in CaIds : t.cas[c] # None} \cup {x \in CertIds : t.certs[x] # None}
ValidBackup(t) == Ids(t) \cap Dotted = {}

\* import_backup_yaml, up to the transaction.
BeginRestore(r, i) ==
    /\ Operates
    /\ pc[r] = "idle"
    /\ file' = [file EXCEPT ![r] = i]
    /\ pc' = [pc EXCEPT ![r] = IF ValidBackup(files[i].rows) THEN "validated" ELSE "refused"]
    /\ UNCHANGED <<tables, files, todo, up, unrepaired, importer>>

\* Mutant of RestoredCa: a restored CA starts with a fresh serial.txt.
RestoredFresh(row) == [row EXCEPT !.next = 1, !.checked = FALSE]

\* insert_ca_row, insert_cert_row: as they were, but to be looked at by the repair.
RestoredCa(row) == [row EXCEPT !.checked = FALSE]
RestoredCert(row) == [row EXCEPT !.checked = FALSE]

\* The inserts; a row with an id or a user name that is there makes them fail.
Clash(t) == Ids(t) \cap Ids(db) # {} \/ t.users \cap db.users # {}
Inserted(t) ==
    [cas |-> [c \in CaIds |-> IF t.cas[c] = None THEN db.cas[c] ELSE RestoredCa(t.cas[c])],
     certs |-> [x \in CertIds |-> IF t.certs[x] = None THEN db.certs[x] ELSE RestoredCert(t.certs[x])],
     users |-> db.users \cup t.users]

\* restore_backup: the check and all inserts are one transaction.
RestoreBackup(r) ==
    LET f == files[file[r]] IN
    /\ Serving
    /\ pc[r] = "validated"
    /\ \/ /\ IsEmpty /\ ~Clash(f.rows)
          /\ db' = Inserted(f.rows)
          /\ base' = f.of
          /\ touched' = {}
          /\ pc' = [pc EXCEPT ![r] = "listing"]
       \/ /\ ~IsEmpty \/ Clash(f.rows)
          /\ pc' = [pc EXCEPT ![r] = "failed"]
          /\ UNCHANGED <<db, base, touched>>
    /\ UNCHANGED <<locked, files, file, todo, up, unrepaired, importer, bounds>>

\* The request answers.
EndRestore(r) ==
    /\ pc[r] \in {"refused", "failed"}
    /\ pc' = [pc EXCEPT ![r] = "idle"]
    /\ file' = [file EXCEPT ![r] = 0]
    /\ UNCHANGED <<tables, files, todo, up, unrepaired, importer, bounds>>

----------------------------------------------------------------------------
(* repair_stale_metadata, after a restore and at the start of the server:  *)
(* it lists the CAs and marks one after the other, then the certificates.  *)
(* A row that is gone by then is marked in vain.                           *)

RepairRow(a, id) ==
    /\ id \in todo[a]
    /\ todo' = [todo EXCEPT ![a] = @ \ {id}]
    /\ db' = IF id \in CaIds /\ CaExists(id) THEN [db EXCEPT !.cas[id].checked = TRUE]
             ELSE IF id \in CertIds /\ CertExists(id) THEN [db EXCEPT !.certs[id].checked = TRUE]
             ELSE db
    /\ UNCHANGED <<locked, base, touched, files, pc, file, up, unrepaired, importer, bounds>>

\* list_cas_for_repair, list_certs_for_repair.
RepairList(a, from, to, ids) ==
    /\ pc[a] = from
    /\ todo[a] = {}
    /\ todo' = [todo EXCEPT ![a] = Unchecked(db) \cap ids]
    /\ pc' = [pc EXCEPT ![a] = to]
    /\ UNCHANGED <<tables, files, file, up, unrepaired, importer, bounds>>

\* No work directory to be had: the repair is given up with a warning.
RepairFails(a) ==
    /\ pc[a] \in {"cas", "certs"}
    /\ todo[a] # {}
    /\ todo' = [todo EXCEPT ![a] = {}]
    /\ pc' = [pc EXCEPT ![a] = "idle"]
    /\ unrepaired' = TRUE
    /\ UNCHANGED <<tables, files, file, up, importer, bounds>>

Crash ==
    /\ up
    /\ crashes < MaxCrashes
    /\ crashes' = crashes + 1
    /\ up' = FALSE
    /\ pc' = [a \in Actors |-> "idle"]
    /\ file' = [a \in Actors |-> 0]
    /\ todo' = [a \in Actors |-> {}]
    /\ UNCHANGED <<tables, files, unrepaired, importer, ops, runs>>

\* Mutant of BootRepair: the repair belongs to the restore only.
BootServes == "idle"

BootRepair == "listing"

\* start_server.
StartServer ==
    /\ ~up
    /\ up' = TRUE
    /\ pc' = [pc EXCEPT ![Boot] = BootRepair]
    /\ UNCHANGED <<tables, files, file, todo, unrepaired, importer, bounds>>

----------------------------------------------------------------------------
(* The importer, minica --import-legacy.                                   *)

Item == Items[at]
ById == IF Item.cert = None THEN CaExists(Item.ca) ELSE CertExists(Item.cert)

StartImport ==
    /\ step \in {"off", "reported"}
    /\ runs < MaxRuns
    /\ runs' = runs + 1
    /\ at' = 1 /\ step' = "looking"
    /\ bad' = FALSE /\ wiped' = FALSE
    /\ UNCHANGED <<tables, server, ops, crashes>>

\* The item after this one, or after all of this CA.
Following == at + 1
NextCa ==
    CHOOSE i \in (at + 1)..(Len(Items) + 1) :
        /\ i \in DOMAIN Items => Items[i].cert = None
        /\ \A j \in (at + 1)..(i - 1) : Items[j].cert # None

\* Mutant of AfterSkip: a CA that is there has been imported, with all it has.
SkipWithCerts == IF Item.cert = None THEN NextCa ELSE Following

AfterSkip == Following

Proceed(i) == at' = i /\ step' = "looking"

Failed ==
    /\ bad' = TRUE
    /\ Proceed(IF Item.cert = None THEN NextCa ELSE Following)

\* ca_exists, cert_exists: an id that is there is left alone, whatever it is.  A
\* directory that cannot be listed counts as all its entries failing.
Look ==
    /\ step = "looking"
    /\ \/ at > Len(Items) /\ step' = "reported" /\ UNCHANGED <<at, bad>>
       \/ at <= Len(Items) /\ ById /\ Proceed(AfterSkip) /\ UNCHANGED bad
       \/ /\ at <= Len(Items) /\ ~ById
          /\ step' = IF Item.cert = None THEN "inserting" ELSE "locking"
          /\ UNCHANGED <<at, bad>>
       \/ at <= Len(Items) /\ Failed
    /\ UNCHANGED <<tables, server, wiped, bounds>>

\* import_ca_with_id, by its last call: unreadable files, a name that is taken and
\* a row that has come in between all fail.
ImportCa ==
    /\ step = "inserting"
    /\ \/ /\ ~CaExists(Item.ca)
          /\ PutCa(Item.ca, NewCa)
          /\ Touches(Item.ca)
          /\ Proceed(Following)
          /\ UNCHANGED bad
       \/ Failed /\ UNCHANGED tables
    /\ UNCHANGED <<server, wiped, bounds>>

\* import_cert_with: get_ca, cert_exists and acquire_ca_lock, which are all looked
\* at again by the commit.
LockCa ==
    /\ step = "locking"
    /\ \/ /\ CaLive(Item.ca) /\ ~CertExists(Item.cert) /\ Item.ca \notin locked
          /\ locked' = locked \cup {Item.ca}
          /\ step' = "holding"
          /\ UNCHANGED <<db, base, touched, at, bad>>
       \/ Failed /\ UNCHANGED tables
    /\ UNCHANGED <<server, wiped, bounds>>

\* insert_cert_with_state verifies the lock; the serial is not one of the counter.
\* On any failure the lock is released.
ImportCert ==
    /\ step = "holding"
    /\ \/ /\ Item.ca \in locked /\ CaLive(Item.ca) /\ ~CertExists(Item.cert)
          /\ PutCert(Item.cert, NewCert(Item.ca, 0))
          /\ touched' = touched \cup {Item.cert}
          /\ Proceed(Following)
          /\ UNCHANGED bad
       \/ Failed /\ UNCHANGED <<db, touched>>
    /\ locked' = locked \ {Item.ca}
    /\ UNCHANGED <<base, server, wiped, bounds>>

\* 120 s later, or at the next attempt of anyone to lock the CA.
LockExpires ==
    /\ locked # {}
    /\ \E c \in locked : locked' = locked \ {c}
    /\ UNCHANGED <<db, base, touched, server, importer, bounds>>

\* Killed; the lock row stays until it expires.
StopImport ==
    /\ step \notin {"off", "reported"}
    /\ at' = 1 /\ step' = "off"
    /\ UNCHANGED <<tables, server, bad, wiped, bounds>>

----------------------------------------------------------------------------
Admin ==
    \/ \E u \in UserIds : CreateUser(u)
    \/ \E c \in CaIds : CreateCa(c) \/ FlipCa(c)
    \/ \E x \in CertIds : FlipCert(x) \/ (\E c \in CaIds : CreateCert(x, c))
    \/ NukeAll
    \/ ExportBackup

Restore(r) ==
    \/ \E i \in DOMAIN files : BeginRestore(r, i)
    \/ RestoreBackup(r)
    \/ EndRestore(r)

Repair(a) ==
    \/ RepairList(a, "listing", "cas", CaIds)
    \/ RepairList(a, "cas", "certs", CertIds)
    \/ RepairList(a, "certs", "idle", {})
    \/ \E id \in CaIds \cup CertIds : RepairRow(a, id)

Import == Look \/ ImportCa \/ LockCa \/ ImportCert

Next ==
    \/ Admin
    \/ \E r \in Requests : Restore(r)
    \/ \E a \in Actors : Repair(a) \/ RepairFails(a)
    \/ Crash \/ StartServer
    \/ StartImport \/ Import \/ StopImport \/ LockExpires

Fairness == WF_vars(StartServer) /\ \A a \in Actors : WF_vars(Repair(a))

Spec == Init /\ [][Next]_vars /\ Fairness

----------------------------------------------------------------------------
(* Properties.                                                             *)

\* The database is the backup it was last restored from, with nothing but what was
\* done since: a restore is all or nothing, brings back every row as it was at one
\* moment, and does not mix with rows of requests or of an import that were
\* committed while it was prepared (db.rs, backup_snapshot and restore_backup).
RestoreKept ==
    \A id \in (CaIds \cup CertIds \cup UserIds) \ touched : Content(db, id) = Content(base, id)

\* Certificates of one CA that are in the database together, other than imported
\* ones, have serials of their own, also those issued before a backup and after its restore: the serial
\* counter is restored with the certificates it has counted (insert_ca_row).
SerialsApart == Apart(db)

\* An import that reports no failure has everything in the database, after however
\* many runs that failed or were killed, unless it was nuked meanwhile (legacy.rs,
\* import_tree: "a run can be repeated after fixing a reported failure").
ImportComplete ==
    step = "reported" /\ ~bad /\ ~wiped =>
        \A i \in DOMAIN Items :
            IF Items[i].cert = None THEN CaExists(Items[i].ca)
            ELSE CertExists(Items[i].cert) /\ db.certs[Items[i].cert].ca = Items[i].ca

\* A row that was restored is looked at by the repair, also if the server dies
\* first, if no repair fails (service.rs, repair_stale_metadata; main.rs,
\* start_server).
RowsGetChecked == Unchecked(db) # {} ~> Unchecked(db) = {} \/ unrepaired

\* README.md: "One YAML export captures everything durable [...] and restores
\* byte-for-byte into an empty database": no backup of this program is refused.  TLC
\* refutes it: ids of legacy directories may have dots (README).
ExportsRestore == \A r \in Requests : pc[r] # "refused"
=============================================================================
