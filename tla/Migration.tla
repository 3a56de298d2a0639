----------------------------- MODULE Migration -----------------------------
(***************************************************************************)
(* Opening and migrating the database file (Db::open of src/src/db.rs).    *)
(* Every process, the server and `minica --import-legacy' beside it, opens *)
(* the file the same way:                                                  *)
(*                                                                         *)
(*   off -> [creating] -> opening -> [copying -> pruning] -> migrating     *)
(*       -> serving                                                        *)
(*                                                                         *)
(* and when the migration fails                                            *)
(*                                                                         *)
(*   migrating -> restoring -> refilling -> off                            *)
(*                                                                         *)
(* A transaction of SQLite is one step, but copies of the whole file       *)
(* (fs::copy) are not: the copy before the migration reads while another   *)
(* process may commit, and the one after a failure empties the database    *)
(* file first and fills it again.                                          *)
(*                                                                         *)
(* A file is what a process that opens it finds: whether it is whole, its  *)
(* schema version, whether all required columns are there, and its rows.   *)
(* `committed' and `spoilt' are audit variables.                           *)
(***************************************************************************)
EXTENDS Naturals, FiniteSets

CONSTANTS
  Procs,                \* processes that open the database
  Initial,              \* what the database file may be at first
  SchemaVersion,        \* SCHEMA_VERSION
  MaxMigrationBackups,  \* MAX_MIGRATION_BACKUPS
  MaxRow,               \* bound: the last row that is written
  MaxCopies             \* bound: how many copies are made

File == [whole : BOOLEAN, version : Nat, complete : BOOLEAN, rows : SUBSET Nat]

\* No file.
Missing == [missing |-> TRUE]

\* A file of no bytes is a database without tables.
Empty == [whole |-> TRUE, version |-> 0, complete |-> FALSE, rows |-> {}]

\* A part of a database: SQLite finds fewer pages than the header says.
Damaged == [whole |-> FALSE, version |-> 0, complete |-> FALSE, rows |-> {}]

ASSUME MigrationAssumption ==
  /\ SchemaVersion \in Nat \ {0}
  /\ MaxMigrationBackups \in Nat \ {0}
  /\ Initial \subseteq File \union {Missing}
  /\ \A f \in Initial \ {Missing} : f.whole

VARIABLES
  db,         \* the database file
  backups,    \* the pre-migrate copies: the order they were made in, and the file
  pc,         \* where each process is
  existed,    \* db_existed of each process
  copy,       \* number of the copy a process has made, 0 for none
  source,     \* what a copy in progress has found in the file it reads
  made,       \* how many copies were made, whole or in part
  committed,  \* the rows ever committed
  spoilt      \* copies made since a broken restore lost rows from the database

files == <<db, backups, made>>
procVars == <<pc, existed, copy, source>>
audit == <<committed, spoilt>>
vars == <<files, procVars, audit>>

Pc == {"off", "creating", "opening", "copying", "pruning", "migrating", "restoring",
       "refilling", "serving"}

Backup == [n : Nat \ {0}, file : File]

Rows(f) == IF f = Missing \/ ~f.whole THEN {} ELSE f.rows

\* The rows that are still in some file.
OnDisk == Rows(db) \union UNION {Rows(b.file) : b \in backups}

\* schema_is_current: the recorded version and the columns.
SchemaIsCurrent(f) == f.version = SchemaVersion /\ f.complete

Init ==
  /\ db \in Initial
  /\ backups = {}
  /\ pc = [p \in Procs |-> "off"]
  /\ existed = [p \in Procs |-> FALSE]
  /\ copy = [p \in Procs |-> 0]
  /\ source = [p \in Procs |-> Missing]
  /\ made = 0
  /\ committed = Rows(db)
  /\ spoilt = 0

----------------------------------------------------------------------------
Goto(p, to) == pc' = [pc EXCEPT ![p] = to]

(* Db::open looks whether there is a file.                                  *)
Open(p) ==
  /\ pc[p] = "off"
  /\ existed' = [existed EXCEPT ![p] = db # Missing]
  /\ copy' = [copy EXCEPT ![p] = 0]
  /\ source' = [source EXCEPT ![p] = Missing]
  /\ Goto(p, IF db = Missing THEN "creating" ELSE "opening")
  /\ UNCHANGED <<files, audit>>

(* create_private_file: fails when another process was faster.              *)
CreateFile(p) ==
  /\ pc[p] = "creating"
  /\ db = Missing
  /\ db' = Empty
  /\ Goto(p, "opening")
  /\ UNCHANGED <<backups, made, existed, copy, source, audit>>

(* schema_is_current: a damaged or a newer database is refused (Quit), a    *)
(* current one is served as it is, and only one that was there is copied.   *)
CheckOnly(p) ==   \* mutant: a database that was there is not copied
  /\ pc[p] = "opening"
  /\ db.whole
  /\ db.version <= SchemaVersion
  /\ Goto(p, IF SchemaIsCurrent(db) THEN "serving" ELSE "migrating")
  /\ UNCHANGED <<files, existed, copy, source, audit>>

CheckSchema(p) ==
  /\ pc[p] = "opening"
  /\ db.whole
  /\ db.version <= SchemaVersion
  /\ Goto(p, IF SchemaIsCurrent(db) THEN "serving"
             ELSE IF existed[p] THEN "copying" ELSE "migrating")
  /\ source' = [source EXCEPT ![p] = db]
  /\ UNCHANGED <<files, existed, copy, audit>>

(* What is in a copy that started with `from' and ends now: pages of both   *)
(* when the database was written meanwhile.                                 *)
CopyOf(from) == IF db = from THEN {db} ELSE {from, db, Damaged}

AddBackup(f) ==
  /\ made < MaxCopies
  /\ backups' = backups \union {[n |-> made + 1, file |-> f]}
  /\ made' = made + 1
  /\ spoilt' = IF committed \subseteq Rows(db) THEN spoilt ELSE spoilt + 1

(* copy_db_backup: fs::copy under a new name.                               *)
CopyBackup(p) ==
  /\ pc[p] = "copying"
  /\ \E f \in CopyOf(source[p]) : AddBackup(f)
  /\ copy' = [copy EXCEPT ![p] = made + 1]
  /\ Goto(p, "pruning")
  /\ UNCHANGED <<db, existed, source, committed>>

(* prune_migration_backups: all but the newest, never the one just made;    *)
(* a file that cannot be removed stays.                                     *)
ExcessOfOneMore == {b \in backups :   \* mutant: one copy too few is kept
  Cardinality({c \in backups : c.n > b.n}) >= MaxMigrationBackups - 1}

Excess == {b \in backups : Cardinality({c \in backups : c.n > b.n}) >= MaxMigrationBackups}

Prune(p) ==
  /\ pc[p] = "pruning"
  /\ \E removed \in SUBSET {b \in Excess : b.n # copy[p]} : backups' = backups \ removed
  /\ Goto(p, "migrating")
  /\ UNCHANGED <<db, made, existed, copy, source, audit>>

(* migrate, one transaction: tables and columns are added, rows stay.       *)
Migrate(p) ==
  /\ pc[p] = "migrating"
  /\ db.whole
  /\ db' = [db EXCEPT !.version = SchemaVersion, !.complete = TRUE]
  /\ Goto(p, "serving")
  /\ UNCHANGED <<backups, made, existed, copy, source, audit>>

(* The transaction fails (busy, full, read-only) and is rolled back; a      *)
(* database that was there is now restored from the copy.                   *)
MigrateFails(p) ==
  /\ pc[p] = "migrating"
  /\ Goto(p, IF existed[p] THEN "restoring" ELSE "off")
  /\ UNCHANGED <<files, existed, copy, source, audit>>

(* fs::copy of the copy over the database: it opens the copy, empties the   *)
(* database file, and fills it.  Who copies the database now gets a part.   *)
EmptyDatabase(p) ==
  /\ pc[p] = "restoring"
  /\ \E b \in backups :
        /\ b.n = copy[p]
        /\ source' = [q \in Procs |-> IF q = p THEN b.file
                                      ELSE IF pc[q] = "copying" THEN Damaged
                                      ELSE source[q]]
  /\ db' = Empty
  /\ Goto(p, "refilling")
  /\ UNCHANGED <<backups, made, existed, copy, audit>>

RefillDatabase(p) ==
  /\ pc[p] = "refilling"
  /\ db' = source[p]
  /\ Goto(p, "off")
  /\ UNCHANGED <<backups, made, existed, copy, source, audit>>

(* The rest of the program commits a row; it needs the tables.              *)
Write(p) ==
  /\ pc[p] = "serving"
  /\ db.whole /\ db.version > 0
  /\ \E row \in 1..MaxRow \ committed :
        /\ db' = [db EXCEPT !.rows = @ \union {row}]
        /\ committed' = committed \union {row}
  /\ UNCHANGED <<backups, made, procVars, spoilt>>

(* The process ends: an error other than that of the migration, a crash, or *)
(* an exit.  SQLite rolls back what was not committed; a copy of a file     *)
(* that is being made stays as far as it got.                               *)
Quit(p) ==
  /\ pc[p] # "off"
  /\ Goto(p, "off")
  /\ \/ /\ pc[p] = "copying"
        /\ \E f \in {Empty, Damaged} : AddBackup(f)
        /\ UNCHANGED <<db, committed>>
     \/ /\ pc[p] = "refilling"
        /\ db' \in {Empty, Damaged}
        /\ UNCHANGED <<backups, made, audit>>
     \/ UNCHANGED <<files, audit>>
  /\ UNCHANGED <<existed, copy, source>>

Next ==
  \E p \in Procs :
     \/ Open(p) \/ CreateFile(p) \/ CheckSchema(p) \/ CopyBackup(p) \/ Prune(p)
     \/ Migrate(p) \/ MigrateFails(p) \/ EmptyDatabase(p) \/ RefillDatabase(p)
     \/ Write(p) \/ Quit(p)

Spec == Init /\ [][Next]_vars

----------------------------------------------------------------------------
(* Properties.                                                              *)

(* The variables have their types; copies are numbered in the order they    *)
(* were made, and a process holds the number of its own (copy_db_backup).   *)
TypeOK ==
  /\ db \in File \union {Missing}
  /\ backups \subseteq Backup
  /\ \A b, c \in backups : b.n = c.n => b = c
  /\ \A b \in backups : b.n <= made
  /\ made \in Nat
  /\ pc \in [Procs -> Pc]
  /\ existed \in [Procs -> BOOLEAN]
  /\ copy \in [Procs -> 0..made]
  /\ source \in [Procs -> File \union {Missing}]
  /\ committed \subseteq Nat
  /\ spoilt \in 0..made
  /\ \A p \in Procs :
        /\ pc[p] \notin {"off", "creating"} => db # Missing
        /\ pc[p] \in {"copying", "refilling"} => source[p] \in File

(* One process: whatever fails or crashes, and however often it is started  *)
(* again, each committed row is in the database or in a copy, until as many *)
(* copies as are kept were made of a database that a broken restore had     *)
(* emptied (fs::copy in Db::open, prune_migration_backups).                 *)
SurvivesFailures ==
  spoilt < MaxMigrationBackups => committed \subseteq OnDisk

(* One process: a database is served with the present schema, also when its *)
(* version is the present one and a column is missing (schema_is_current).  *)
ServedIsCurrent ==
  \A p \in Procs : pc[p] = "serving" =>
     db.whole /\ db.version = SchemaVersion /\ db.complete

(* Before a database with rows is migrated, a copy of it, as it is, is on   *)
(* the disk (Db::open).                                                     *)
OldKept ==
  [][\A p \in Procs : pc[p] = "migrating" /\ pc'[p] = "serving" /\ ~SchemaIsCurrent(db)
        => Rows(db) = {} \/ \E b \in backups : b.file = db]_vars

(* "Another process (e.g. `minica --import-legacy` beside a running server) *)
(* may hold a write lock briefly; wait instead of failing" (Db::open), and  *)
(* "a copy of the old one is kept next to it": no committed row is lost.    *)
(* TLC refutes it with two processes: the one whose migration fails         *)
(* restores a copy made before the other one migrated and wrote (README).   *)
CommittedKept == committed \subseteq OnDisk
=============================================================================
