-------------------------- MODULE MigrationProofs --------------------------
(***************************************************************************)
(* The types for all processes, and what one process that opens and        *)
(* migrates its database promises, for all versions, numbers of copies     *)
(* kept and initial files: no committed row is lost, whatever fails.       *)
(***************************************************************************)
EXTENDS Migration, TLAPS, FiniteSetTheorems, FunctionTheorems

LEMMA MissingIsNoFile == Missing \notin File
<1> SUFFICES ASSUME Missing \in File PROVE FALSE
  OBVIOUS
<1>1. "whole" \in DOMAIN Missing
  BY DEF File
<1>2. "whole" \notin DOMAIN Missing
  BY DEF Missing
<1> QED BY <1>1, <1>2

LEMMA SpecialFiles == Empty \in File /\ Damaged \in File
BY DEF Empty, Damaged, File

(* What the present database, a file of one's own or the start of a copy    *)
(* makes of a copy.                                                         *)
LEMMA CopyOfIsFile ==
  ASSUME TypeOK, db # Missing, NEW from \in File
  PROVE  CopyOf(from) \subseteq File
BY SpecialFiles DEF CopyOf, TypeOK

(* A new copy is numbered above all others.                                 *)
LEMMA AddTyped ==
  ASSUME TypeOK, NEW f \in File, AddBackup(f)
  PROVE  /\ backups' \subseteq Backup
         /\ \A b, c \in backups' : b.n = c.n => b = c
         /\ \A b \in backups' : b.n <= made'
         /\ made' = made + 1 /\ made' \in Nat
         /\ spoilt' \in 0..made'
<1> DEFINE new == [n |-> made + 1, file |-> f]
<1>1. made \in Nat /\ made' = made + 1 /\ backups' = backups \union {new}
  BY DEF TypeOK, AddBackup
<1>2. new \in Backup /\ new.n = made + 1
  BY <1>1 DEF Backup
<1>3. \A b \in backups : b \in Backup /\ b.n \in Nat /\ b.n <= made
  BY DEF TypeOK, Backup
<1>4. backups' \subseteq Backup
  BY <1>1, <1>2, <1>3
<1>5. \A b \in backups' : b.n <= made'
  BY <1>1, <1>2, <1>3
<1>6. \A b, c \in backups' : b.n = c.n => b = c
  <2> SUFFICES ASSUME NEW b \in backups', NEW c \in backups', b.n = c.n PROVE b = c
    OBVIOUS
  <2>1. \A d \in backups : d.n # new.n
    BY <1>1, <1>2, <1>3
  <2>2. \A d, e \in backups : d.n = e.n => d = e
    BY DEF TypeOK
  <2> HIDE DEF new
  <2> QED BY <1>1, <2>1, <2>2
<1>7. spoilt' \in 0..made'
  <2>1. spoilt \in 0..made /\ spoilt' \in {spoilt, spoilt + 1}
    BY DEF TypeOK, AddBackup
  <2> QED BY <1>1, <2>1
<1> QED BY <1>1, <1>4, <1>5, <1>6, <1>7

LEMMA TypeInit == Init => TypeOK
<1> SUFFICES ASSUME Init PROVE TypeOK
  OBVIOUS
<1>1. db \in File \union {Missing}
  BY MigrationAssumption DEF Init
<1>2. committed \subseteq Nat
  BY <1>1 DEF Init, Rows, File
<1> QED BY <1>1, <1>2 DEF Init, TypeOK, Pc

(* No copy is made and no row is committed.                                 *)
LEMMA TypeOfProcs ==
  ASSUME TypeOK, backups' \subseteq backups, UNCHANGED <<made, audit>>, NEW p \in Procs,
         db' \in File \union {Missing},
         db' = Missing => db = Missing,
         existed' \in [Procs -> BOOLEAN],
         copy' \in [Procs -> 0..made],
         source' \in [Procs -> File \union {Missing}],
         \A q \in Procs \ {p} : pc[q] \in {"copying", "refilling"} /\ source[q] \in File
                                  => source'[q] \in File,
         NEW to \in Pc, Goto(p, to),
         to \notin {"off", "creating"} => db' # Missing,
         to \in {"copying", "refilling"} => source'[p] \in File
  PROVE  TypeOK'
<1>1. pc' \in [Procs -> Pc] /\ pc'[p] = to /\ \A q \in Procs \ {p} : pc'[q] = pc[q]
  BY DEF TypeOK, Goto
<1>2. \A q \in Procs :
        /\ pc'[q] \notin {"off", "creating"} => db' # Missing
        /\ pc'[q] \in {"copying", "refilling"} => source'[q] \in File
  BY <1>1 DEF TypeOK
<1>3. made' = made /\ committed' = committed /\ spoilt' = spoilt
  BY DEF audit
<1> QED BY <1>1, <1>2, <1>3 DEF TypeOK

LEMMA TypeOpen == ASSUME TypeOK, NEW p \in Procs, Open(p) PROVE TypeOK'
<1>1. copy' \in [Procs -> 0..made]
  <2>1. copy \in [Procs -> 0..made] /\ made \in Nat
    BY DEF TypeOK
  <2>2. copy' = [copy EXCEPT ![p] = 0]
    BY DEF Open
  <2>3. 0 \in 0..made
    BY <2>1
  <2> QED BY <2>1, <2>2, <2>3
<1>2. db' = db /\ existed' \in [Procs -> BOOLEAN]
      /\ source' \in [Procs -> File \union {Missing}]
  BY DEF Open, files, TypeOK
<1>3. \A q \in Procs \ {p} : source'[q] = source[q]
  BY DEF Open, TypeOK
<1>4. CASE db = Missing
  <2>1. Goto(p, "creating")
    BY <1>4 DEF Open
  <2> QED BY <1>1, <1>2, <1>3, <2>1, TypeOfProcs DEF Open, files, Pc, TypeOK
<1>5. CASE db # Missing
  <2>1. Goto(p, "opening")
    BY <1>5 DEF Open
  <2> QED BY <1>1, <1>2, <1>3, <1>5, <2>1, TypeOfProcs DEF Open, files, Pc, TypeOK
<1> QED BY <1>4, <1>5
LEMMA TypeCreateFile == ASSUME TypeOK, NEW p \in Procs, CreateFile(p) PROVE TypeOK'
<1>1. db' \in File /\ db' # Missing
  BY SpecialFiles, MissingIsNoFile DEF CreateFile
<1> QED BY <1>1, TypeOfProcs DEF CreateFile, Pc, TypeOK

LEMMA TypeCheckSchema == ASSUME TypeOK, NEW p \in Procs, CheckSchema(p) PROVE TypeOK'
<1>1. db' = db /\ db \in File /\ db # Missing
  BY DEF CheckSchema, files, TypeOK
<1>2. source' \in [Procs -> File \union {Missing}] /\ source'[p] \in File
      /\ \A q \in Procs \ {p} : source'[q] = source[q]
  BY <1>1 DEF CheckSchema, TypeOK
<1>3. \E to \in {"serving", "copying", "migrating"} : Goto(p, to)
  BY DEF CheckSchema
<1>4. backups' = backups /\ UNCHANGED <<made, audit>> /\ existed' = existed /\ copy' = copy
  BY DEF CheckSchema, files
<1> QED BY <1>1, <1>2, <1>3, <1>4, TypeOfProcs DEF Pc, TypeOK

LEMMA TypeCopyBackup == ASSUME TypeOK, NEW p \in Procs, CopyBackup(p) PROVE TypeOK'
<1>1. db # Missing /\ source[p] \in File
  BY DEF CopyBackup, TypeOK
<1>2. PICK f \in File : AddBackup(f)
  BY <1>1, CopyOfIsFile DEF CopyBackup
<1>3. made' = made + 1 /\ made \in Nat
  BY <1>2, AddTyped DEF TypeOK
<1>4. copy' \in [Procs -> 0..made']
  <2>1. copy \in [Procs -> 0..made] /\ copy' = [copy EXCEPT ![p] = made + 1]
    BY DEF CopyBackup, TypeOK
  <2>2. 0..made \subseteq 0..made' /\ made + 1 \in 0..made'
    BY <1>3
  <2>3. copy \in [Procs -> 0..made']
    BY <2>1, <2>2
  <2> QED BY <2>1, <2>2, <2>3
<1>5. db' = db /\ existed' = existed /\ source' = source /\ committed' = committed
  BY DEF CopyBackup
<1>6. pc' \in [Procs -> Pc] /\ pc'[p] = "pruning" /\ \A q \in Procs \ {p} : pc'[q] = pc[q]
  BY DEF CopyBackup, Goto, Pc, TypeOK
<1>7. \A q \in Procs :
        /\ pc'[q] \notin {"off", "creating"} => db' # Missing
        /\ pc'[q] \in {"copying", "refilling"} => source'[q] \in File
  BY <1>1, <1>5, <1>6 DEF TypeOK
<1>8. /\ backups' \subseteq Backup
      /\ \A b, c \in backups' : b.n = c.n => b = c
      /\ \A b \in backups' : b.n <= made'
      /\ made' \in Nat
      /\ spoilt' \in 0..made'
  BY <1>2, AddTyped
<1> QED BY <1>4, <1>5, <1>6, <1>7, <1>8 DEF TypeOK

LEMMA TypePrune == ASSUME TypeOK, NEW p \in Procs, Prune(p) PROVE TypeOK'
<1>1. backups' \subseteq backups
  BY DEF Prune
<1>2. db # Missing
  BY DEF Prune, TypeOK
<1> QED BY <1>1, <1>2, TypeOfProcs DEF Prune, Pc, TypeOK

LEMMA TypeMigrate == ASSUME TypeOK, NEW p \in Procs, Migrate(p) PROVE TypeOK'
<1>1. db \in File
  BY DEF Migrate, TypeOK
<1>2. db' \in File
  BY <1>1, MigrationAssumption DEF Migrate, File
<1>3. db' # Missing
  BY <1>2, MissingIsNoFile
<1> QED BY <1>2, <1>3, TypeOfProcs DEF Migrate, Pc, TypeOK

LEMMA TypeMigrateFails == ASSUME TypeOK, NEW p \in Procs, MigrateFails(p) PROVE TypeOK'
<1>1. \E to \in {"restoring", "off"} : Goto(p, to)
  BY DEF MigrateFails
<1>2. db' = db /\ db # Missing /\ backups' = backups /\ UNCHANGED <<made, audit>>
  BY DEF MigrateFails, files, TypeOK
<1> QED BY <1>1, <1>2, TypeOfProcs DEF MigrateFails, Pc, TypeOK

LEMMA TypeEmptyDatabase == ASSUME TypeOK, NEW p \in Procs, EmptyDatabase(p) PROVE TypeOK'
<1>1. db' \in File /\ db' # Missing
  BY SpecialFiles, MissingIsNoFile DEF EmptyDatabase
<1>2. PICK b \in backups :
        source' = [q \in Procs |-> IF q = p THEN b.file
                                   ELSE IF pc[q] = "copying" THEN Damaged ELSE source[q]]
  BY DEF EmptyDatabase
<1>3. b.file \in File
  BY DEF TypeOK, Backup
<1>4. source' \in [Procs -> File \union {Missing}] /\ source'[p] \in File
  BY <1>2, <1>3, SpecialFiles DEF TypeOK
<1>5. \A q \in Procs \ {p} : source[q] \in File => source'[q] \in File
  BY <1>2, SpecialFiles
<1> QED BY <1>1, <1>4, <1>5, TypeOfProcs DEF EmptyDatabase, Pc, TypeOK

LEMMA TypeRefillDatabase == ASSUME TypeOK, NEW p \in Procs, RefillDatabase(p) PROVE TypeOK'
<1>1. db' \in File /\ db' # Missing
  BY MissingIsNoFile DEF RefillDatabase, TypeOK
<1> QED BY <1>1, TypeOfProcs DEF RefillDatabase, Pc, TypeOK

LEMMA TypeWrite == ASSUME TypeOK, NEW p \in Procs, Write(p) PROVE TypeOK'
<1>1. PICK row \in 1..MaxRow \ committed :
        /\ db' = [db EXCEPT !.rows = @ \union {row}]
        /\ committed' = committed \union {row}
  BY DEF Write
<1>2. db \in File /\ row \in Nat
  BY DEF Write, TypeOK
<1>3. db' \in File /\ db' # Missing /\ committed' \subseteq Nat
  <2>1. db' \in File
    BY <1>1, <1>2 DEF File
  <2> QED BY <2>1, <1>1, <1>2, MissingIsNoFile DEF TypeOK
<1> QED BY <1>3 DEF Write, procVars, TypeOK

LEMMA TypeQuit == ASSUME TypeOK, NEW p \in Procs, Quit(p) PROVE TypeOK'
<1>1. pc' \in [Procs -> Pc] /\ pc'[p] = "off" /\ \A q \in Procs \ {p} : pc'[q] = pc[q]
  BY DEF Quit, Goto, Pc, TypeOK
<1>2. existed' = existed /\ copy' = copy /\ source' = source /\ Goto(p, "off")
  BY DEF Quit
<1>3. CASE /\ \E f \in {Empty, Damaged} : AddBackup(f)
           /\ UNCHANGED <<db, committed>>
  <2>1. PICK f \in File : AddBackup(f)
    BY <1>3, SpecialFiles
  <2>2. /\ backups' \subseteq Backup
        /\ \A b, c \in backups' : b.n = c.n => b = c
        /\ \A b \in backups' : b.n <= made'
        /\ made' \in Nat /\ made' = made + 1
        /\ spoilt' \in 0..made'
    BY <2>1, AddTyped
  <2>3. copy' \in [Procs -> 0..made']
    <3>1. made \in Nat /\ copy \in [Procs -> 0..made]
      BY DEF TypeOK
    <3>2. 0..made \subseteq 0..made'
      BY <2>2, <3>1
    <3> QED BY <1>2, <3>1, <3>2
  <2>4. \A q \in Procs :
          /\ pc'[q] \notin {"off", "creating"} => db' # Missing
          /\ pc'[q] \in {"copying", "refilling"} => source'[q] \in File
    BY <1>1, <1>2, <1>3 DEF TypeOK
  <2> QED BY <1>1, <1>2, <1>3, <2>2, <2>3, <2>4 DEF TypeOK
<1>4. CASE db' \in {Empty, Damaged} /\ UNCHANGED <<backups, made, audit>>
  <2>1. db' \in File /\ db' # Missing
    BY <1>4, SpecialFiles, MissingIsNoFile
  <2> QED BY <1>2, <1>4, <2>1, TypeOfProcs DEF Pc, TypeOK
<1>5. CASE UNCHANGED <<files, audit>>
  <2>1. db' = db /\ backups' = backups /\ made' = made
    BY <1>5 DEF files
  <2> QED BY <1>2, <1>5, <2>1, TypeOfProcs DEF Pc, TypeOK
<1> QED BY <1>3, <1>4, <1>5 DEF Quit

LEMMA TypeNext == TypeOK /\ [Next]_vars => TypeOK'
<1> SUFFICES ASSUME TypeOK, [Next]_vars PROVE TypeOK'
  OBVIOUS
<1>1. CASE UNCHANGED vars
  BY <1>1 DEF vars, files, procVars, audit, TypeOK
<1>2. ASSUME NEW p \in Procs,
             \/ Open(p) \/ CreateFile(p) \/ CheckSchema(p) \/ CopyBackup(p) \/ Prune(p)
             \/ Migrate(p) \/ MigrateFails(p) \/ EmptyDatabase(p) \/ RefillDatabase(p)
             \/ Write(p) \/ Quit(p)
      PROVE TypeOK'
  BY <1>2, TypeOpen, TypeCreateFile, TypeCheckSchema, TypeCopyBackup, TypePrune,
     TypeMigrate, TypeMigrateFails, TypeEmptyDatabase, TypeRefillDatabase, TypeWrite,
     TypeQuit
<1> QED BY <1>1, <1>2 DEF Next

(* The variables have their types, for every set of processes.              *)
THEOREM Typing == Spec => []TypeOK
BY TypeInit, TypeNext, PTL DEF Spec

----------------------------------------------------------------------------
(* One process.  Its own copy is the newest and holds the database until    *)
(* the migration commits or its failure is repaired; and a row that is not  *)
(* in the database is in a copy, younger than which only copies of a        *)
(* database without it are: prune takes it only when there are             *)
(* MaxMigrationBackups of those.                                            *)
Alone == \A p, q \in Procs : p = q

HasCopy(p) == \E b \in backups : b.n = copy[p] /\ b.n = made /\ b.file = db

Phases ==
  \A p \in Procs :
     /\ pc[p] \in {"pruning", "migrating", "restoring"} /\ existed[p] => HasCopy(p)
     /\ pc[p] = "restoring" => existed[p]
     /\ pc[p] = "copying" => existed[p] /\ source[p] = db
     /\ pc[p] = "creating" => ~existed[p]
     /\ pc[p] \in {"opening", "migrating"} /\ ~existed[p] => db = Empty
     /\ pc[p] = "pruning" => existed[p]
     /\ pc[p] = "refilling" => db = Empty
     /\ pc[p] = "serving" => db.whole /\ SchemaIsCurrent(db)

Found(row) == \E b \in backups : row \in Rows(b.file) /\ b.n + spoilt >= made

Kept ==
  spoilt < MaxMigrationBackups => \A row \in committed \ Rows(db) : Found(row)

IInv == TypeOK /\ IsFiniteSet(backups) /\ Phases /\ Kept

(* Copies made after b have numbers of their own above b.n.                 *)
LEMMA FewYounger ==
  ASSUME TypeOK, NEW b \in backups
  PROVE  Cardinality({c \in backups : c.n > b.n}) <= made - b.n
<1> DEFINE S == {c \in backups : c.n > b.n}
           T == (b.n + 1)..made
           f == [c \in S |-> c.n]
<1>1. b.n \in Nat /\ made \in Nat /\ b.n <= made
  BY DEF TypeOK, Backup
<1>2. \A c \in S : c.n \in T
  BY <1>1 DEF TypeOK, Backup
<1>3. \A c, d \in S : f[c] = f[d] => c = d
  BY DEF TypeOK
<1>4. f \in Injection(S, T)
  <2>1. f \in [S -> T]
    BY <1>2
  <2> QED BY <1>3, <2>1, Fun_IsInj
<1>5. IsFiniteSet(T) /\ Cardinality(T) = made - b.n
  <2>1. b.n + 1 \in Int /\ made \in Int
    BY <1>1
  <2>2. IsFiniteSet(T)
        /\ Cardinality(T) = IF b.n + 1 > made THEN 0 ELSE made - (b.n + 1) + 1
    BY <2>1, FS_Interval
  <2> QED BY <1>1, <2>2
<1>6. Cardinality(S) <= Cardinality(T)
  BY <1>4, <1>5, FS_Injection
<1> QED BY <1>5, <1>6

(* While copies lost rows, each row has its copy; prune never takes it.     *)
LEMMA PruneKeeps ==
  ASSUME IInv, NEW p \in Procs, Prune(p), spoilt < MaxMigrationBackups,
         NEW b \in backups, b.n + spoilt >= made
  PROVE  b \in backups'
<1>1. made \in Nat /\ spoilt \in Nat /\ b.n \in Nat /\ MaxMigrationBackups \in Nat
  BY MigrationAssumption DEF IInv, TypeOK, Backup
<1>2. Cardinality({c \in backups : c.n > b.n}) <= made - b.n
  BY FewYounger DEF IInv
<1>3. Cardinality({c \in backups : c.n > b.n}) \in Nat
  <2>1. IsFiniteSet({c \in backups : c.n > b.n})
    BY FS_Subset DEF IInv
  <2> QED BY <2>1, FS_CardinalityType
<1>4. ~(Cardinality({c \in backups : c.n > b.n}) >= MaxMigrationBackups)
  BY <1>1, <1>2, <1>3
<1>5. b \notin Excess
  BY <1>4 DEF Excess
<1> QED BY <1>5 DEF Prune

LEMMA FinitePreserved == IsFiniteSet(backups) /\ [Next]_vars => IsFiniteSet(backups)'
<1> SUFFICES ASSUME IsFiniteSet(backups), [Next]_vars PROVE IsFiniteSet(backups)'
  OBVIOUS
<1>1. CASE backups' \subseteq backups
  BY <1>1, FS_Subset
<1>2. CASE \E f : AddBackup(f)
  BY <1>2, FS_AddElement DEF AddBackup
<1>3. backups' \subseteq backups \/ \E f : AddBackup(f)
  <2>1. CASE UNCHANGED vars
    BY <2>1 DEF vars, files
  <2>2. CASE Next
    BY <2>2 DEF Next, Open, CreateFile, CheckSchema, CopyBackup, Prune, Migrate, MigrateFails,
       EmptyDatabase, RefillDatabase, Write, Quit, files
  <2> QED BY <2>1, <2>2
<1> QED BY <1>1, <1>2, <1>3

(* Nothing but a process' place changes the files: a row stays where it is. *)
LEMMA KeptUnchanged ==
  ASSUME IInv, UNCHANGED <<files, audit>>
  PROVE  Kept'
<1>1. db' = db /\ backups' = backups /\ made' = made /\ committed' = committed
      /\ spoilt' = spoilt
  BY DEF files, audit
<1>2. Rows(db)' = Rows(db) /\ \A row : Found(row)' = Found(row)
  BY <1>1 DEF Found, Rows
<1> QED BY <1>1, <1>2 DEF IInv, Kept

(* A change of the database that keeps its rows.                            *)
LEMMA KeptSameRows ==
  ASSUME IInv, UNCHANGED <<backups, made, audit>>, Rows(db) \subseteq Rows(db)'
  PROVE  Kept'
<1>1. backups' = backups /\ made' = made /\ committed' = committed /\ spoilt' = spoilt
  BY DEF audit
<1>2. \A row : Found(row)' = Found(row)
  BY <1>1 DEF Found, Rows
<1> QED BY <1>1, <1>2 DEF IInv, Kept

(* Another copy: it is above all others, and counts when rows are missing.  *)
LEMMA KeptAdd ==
  ASSUME IInv, UNCHANGED <<db, committed>>, NEW f \in File, AddBackup(f)
  PROVE  Kept'
<1>1. made' = made + 1 /\ backups \subseteq backups'
      /\ spoilt' = IF committed \subseteq Rows(db) THEN spoilt ELSE spoilt + 1
  BY DEF AddBackup
<1>2. Rows(db)' = Rows(db)
  BY DEF Rows
<1>3. made \in Nat /\ spoilt \in Nat /\ MaxMigrationBackups \in Nat
      /\ \A b \in backups : b.n \in Nat
  BY MigrationAssumption DEF IInv, TypeOK, Backup
<1>4. SUFFICES ASSUME spoilt' < MaxMigrationBackups, NEW row \in committed \ Rows(db)
               PROVE  Found(row)'
  BY <1>2 DEF Kept
<1>5. spoilt' = spoilt + 1
  BY <1>1, <1>4
<1>6. PICK b \in backups : row \in Rows(b.file) /\ b.n + spoilt >= made
  <2>1. spoilt < MaxMigrationBackups
    BY <1>3, <1>4, <1>5
  <2> QED BY <1>4, <2>1 DEF IInv, Kept, Found
<1>7. b \in backups' /\ b.n + spoilt' >= made'
  BY <1>1, <1>3, <1>5, <1>6
<1>8. Rows(b.file)' = Rows(b.file)
  BY DEF Rows
<1> QED BY <1>6, <1>7, <1>8 DEF Found

LEMMA InitSafe == Init => IInv
<1> SUFFICES ASSUME Init PROVE IInv
  OBVIOUS
<1>1. TypeOK /\ IsFiniteSet(backups)
  BY TypeInit, FS_EmptySet DEF Init
<1>2. Phases
  BY DEF Init, Phases
<1>3. Kept
  BY DEF Init, Kept
<1> QED BY <1>1, <1>2, <1>3 DEF IInv

LEMMA SafeOpen ==
  ASSUME Alone, IInv, NEW p \in Procs, Open(p) PROVE Phases' /\ Kept'
<1>1. pc'[p] \in {"creating", "opening"} /\ existed'[p] = (db # Missing)
      /\ (pc'[p] = "creating" <=> db = Missing)
  BY DEF Open, Goto, IInv, TypeOK
<1>2. \A q \in Procs : q = p
  BY DEF Alone
<1>3. Phases'
  BY <1>1, <1>2 DEF Phases
<1> QED BY <1>3, KeptUnchanged DEF Open

LEMMA SafeCreateFile ==
  ASSUME Alone, IInv, NEW p \in Procs, CreateFile(p) PROVE Phases' /\ Kept'
<1>1. pc'[p] = "opening" /\ db' = Empty
  BY DEF CreateFile, Goto, IInv, TypeOK
<1>2. \A q \in Procs : q = p
  BY DEF Alone
<1>3. Phases'
  BY <1>1, <1>2 DEF Phases
<1>4. Rows(db) = {}
  BY DEF CreateFile, Rows
<1> QED BY <1>3, <1>4, KeptSameRows DEF CreateFile

LEMMA SafeCheckSchema ==
  ASSUME Alone, IInv, NEW p \in Procs, CheckSchema(p) PROVE Phases' /\ Kept'
<1>1. /\ pc[p] = "opening" /\ db.whole
      /\ pc'[p] = IF SchemaIsCurrent(db) THEN "serving"
                  ELSE IF existed[p] THEN "copying" ELSE "migrating"
      /\ source'[p] = db
      /\ db' = db /\ existed' = existed
  BY DEF CheckSchema, Goto, files, IInv, TypeOK
<1>2. \A q \in Procs : q = p
  BY DEF Alone
<1>3. ~existed[p] => db = Empty
  BY <1>1 DEF IInv, Phases
<1>4. SchemaIsCurrent(db)' = SchemaIsCurrent(db)
  BY <1>1 DEF SchemaIsCurrent
<1>5. CASE SchemaIsCurrent(db)
  <2>1. pc'[p] = "serving"
    BY <1>1, <1>5
  <2> QED BY <1>1, <1>2, <1>4, <1>5, <2>1, KeptUnchanged DEF Phases, CheckSchema
<1>6. CASE ~SchemaIsCurrent(db) /\ existed[p]
  <2>1. pc'[p] = "copying"
    BY <1>1, <1>6
  <2> QED BY <1>1, <1>2, <1>6, <2>1, KeptUnchanged DEF Phases, CheckSchema
<1>7. CASE ~SchemaIsCurrent(db) /\ ~existed[p]
  <2>1. pc'[p] = "migrating"
    BY <1>1, <1>7
  <2> QED BY <1>1, <1>2, <1>3, <1>7, <2>1, KeptUnchanged DEF Phases, CheckSchema
<1> QED BY <1>5, <1>6, <1>7

LEMMA SafeCopyBackup ==
  ASSUME Alone, IInv, NEW p \in Procs, CopyBackup(p) PROVE Phases' /\ Kept'
<1>1. pc[p] = "copying" /\ pc'[p] = "pruning" /\ copy'[p] = made + 1
      /\ db' = db /\ existed' = existed /\ committed' = committed
  BY DEF CopyBackup, Goto, IInv, TypeOK
<1>2. existed[p] /\ source[p] = db
  BY <1>1 DEF IInv, Phases
<1>3. AddBackup(db)
  BY <1>2 DEF CopyBackup, CopyOf
<1>4. HasCopy(p)'
  <2>1. [n |-> made + 1, file |-> db] \in backups' /\ made' = made + 1
    BY <1>3 DEF AddBackup
  <2> QED BY <1>1, <2>1 DEF HasCopy
<1>5. \A q \in Procs : q = p
  BY DEF Alone
<1>6. Phases'
  BY <1>1, <1>2, <1>4, <1>5 DEF Phases
<1>7. db \in File
  BY <1>1 DEF IInv, TypeOK
<1> QED BY <1>1, <1>3, <1>6, <1>7, KeptAdd

LEMMA SafePrune ==
  ASSUME Alone, IInv, NEW p \in Procs, Prune(p) PROVE Phases' /\ Kept'
<1>1. pc[p] = "pruning" /\ pc'[p] = "migrating"
      /\ db' = db /\ made' = made /\ existed' = existed /\ copy' = copy
      /\ committed' = committed /\ spoilt' = spoilt
  BY DEF Prune, Goto, audit, IInv, TypeOK
<1>2. existed[p] /\ HasCopy(p)
  BY <1>1 DEF IInv, Phases
<1>3. HasCopy(p)'
  <2>1. PICK b \in backups : b.n = copy[p] /\ b.n = made /\ b.file = db
    BY <1>2 DEF HasCopy
  <2>2. b \in backups'
    BY <2>1 DEF Prune
  <2> QED BY <1>1, <2>1, <2>2 DEF HasCopy
<1>4. \A q \in Procs : q = p
  BY DEF Alone
<1>5. Phases'
  BY <1>1, <1>2, <1>3, <1>4 DEF Phases
<1>6. Kept'
  <2>1. SUFFICES ASSUME spoilt < MaxMigrationBackups, NEW row \in committed \ Rows(db)
                 PROVE  Found(row)'
    BY <1>1 DEF Kept, Rows
  <2>2. PICK b \in backups : row \in Rows(b.file) /\ b.n + spoilt >= made
    BY <2>1 DEF IInv, Kept, Found
  <2>3. b \in backups'
    BY <2>1, <2>2, PruneKeeps
  <2>4. Rows(b.file)' = Rows(b.file)
    BY DEF Rows
  <2> QED BY <1>1, <2>2, <2>3, <2>4 DEF Found
<1> QED BY <1>5, <1>6

LEMMA SafeMigrate ==
  ASSUME Alone, IInv, NEW p \in Procs, Migrate(p) PROVE Phases' /\ Kept'
<1>1. pc'[p] = "serving" /\ db.whole /\ db \in File
  BY DEF Migrate, Goto, IInv, TypeOK
<1>2. db' = [db EXCEPT !.version = SchemaVersion, !.complete = TRUE]
  BY DEF Migrate
<1>3. db'.whole /\ db'.version = SchemaVersion /\ db'.complete /\ db'.rows = db.rows
  BY <1>1, <1>2 DEF File
<1>4. db' \in File
  BY <1>1, <1>2, MigrationAssumption DEF File
<1>5. Rows(db) \subseteq Rows(db)'
  <2>1. db # Missing /\ db' # Missing
    BY <1>1, <1>4, MissingIsNoFile
  <2> QED BY <1>1, <1>3, <2>1 DEF Rows
<1>6. \A q \in Procs : q = p
  BY DEF Alone
<1>7. Phases'
  BY <1>1, <1>3, <1>6 DEF Phases, SchemaIsCurrent
<1> QED BY <1>5, <1>7, KeptSameRows DEF Migrate

LEMMA SafeMigrateFails ==
  ASSUME Alone, IInv, NEW p \in Procs, MigrateFails(p) PROVE Phases' /\ Kept'
<1>1. pc[p] = "migrating" /\ pc'[p] = IF existed[p] THEN "restoring" ELSE "off"
  BY DEF MigrateFails, Goto, IInv, TypeOK
<1>2. existed[p] => HasCopy(p)
  BY <1>1 DEF IInv, Phases
<1>3. UNCHANGED <<db, backups, made, existed, copy>>
  BY DEF MigrateFails, files
<1>4. HasCopy(p)' = HasCopy(p)
  BY <1>3 DEF HasCopy
<1>5. \A q \in Procs : q = p
  BY DEF Alone
<1>6. CASE existed[p]
  <2>1. pc'[p] = "restoring" /\ existed'[p]
    BY <1>1, <1>3, <1>6
  <2> QED BY <1>2, <1>4, <1>5, <1>6, <2>1, KeptUnchanged DEF Phases, MigrateFails
<1>7. CASE ~existed[p]
  <2>1. pc'[p] = "off"
    BY <1>1, <1>7
  <2> QED BY <1>5, <2>1, KeptUnchanged DEF Phases, MigrateFails
<1> QED BY <1>6, <1>7

(* Emptying the database: its rows are in the newest copy.                  *)
LEMMA SafeEmptyDatabase ==
  ASSUME Alone, IInv, NEW p \in Procs, EmptyDatabase(p) PROVE Phases' /\ Kept'
<1>1. pc[p] = "restoring" /\ pc'[p] = "refilling" /\ db' = Empty
      /\ backups' = backups /\ made' = made /\ committed' = committed /\ spoilt' = spoilt
  BY DEF EmptyDatabase, Goto, audit, IInv, TypeOK
<1>2. \A q \in Procs : q = p
  BY DEF Alone
<1>3. Phases'
  BY <1>1, <1>2 DEF Phases
<1>4. HasCopy(p)
  BY <1>1 DEF IInv, Phases
<1>5. PICK b \in backups : b.n = made /\ b.file = db
  BY <1>4 DEF HasCopy
<1>6. spoilt \in Nat /\ made \in Nat
  BY DEF IInv, TypeOK
<1>7. Kept'
  <2>1. SUFFICES ASSUME spoilt < MaxMigrationBackups, NEW row \in committed
                 PROVE  Found(row)'
    BY <1>1 DEF Kept
  <2>2. Found(row)
    <3>1. CASE row \in Rows(db)
      <4>1. row \in Rows(b.file) /\ b.n + spoilt >= made
        BY <1>5, <1>6, <3>1
      <4> QED BY <4>1 DEF Found
    <3>2. CASE row \notin Rows(db)
      BY <2>1, <3>2 DEF IInv, Kept
    <3> QED BY <3>1, <3>2
  <2> QED BY <1>1, <2>2 DEF Found, Rows
<1> QED BY <1>3, <1>7

LEMMA SafeRefillDatabase ==
  ASSUME Alone, IInv, NEW p \in Procs, RefillDatabase(p) PROVE Phases' /\ Kept'
<1>1. pc[p] = "refilling" /\ pc'[p] = "off"
  BY DEF RefillDatabase, Goto, IInv, TypeOK
<1>2. db = Empty
  BY <1>1 DEF IInv, Phases
<1>3. Rows(db) = {}
  BY <1>2 DEF Rows, Empty
<1>4. \A q \in Procs : q = p
  BY DEF Alone
<1>5. Phases'
  BY <1>1, <1>4 DEF Phases
<1> QED BY <1>3, <1>5, KeptSameRows DEF RefillDatabase

LEMMA SafeWrite ==
  ASSUME Alone, IInv, NEW p \in Procs, Write(p) PROVE Phases' /\ Kept'
<1>1. PICK row \in 1..MaxRow \ committed :
        /\ db' = [db EXCEPT !.rows = @ \union {row}]
        /\ committed' = committed \union {row}
  BY DEF Write
<1>2. pc[p] = "serving" /\ db.whole /\ db \in File /\ pc' = pc
      /\ backups' = backups /\ made' = made /\ spoilt' = spoilt
  BY DEF Write, procVars, IInv, TypeOK
<1>3. db'.whole /\ db'.version = db.version /\ db'.complete = db.complete
      /\ db'.rows = db.rows \union {row}
  BY <1>1, <1>2 DEF File
<1>4. db' \in File
  BY <1>1, <1>2 DEF File
<1>5. \A q \in Procs : q = p
  BY DEF Alone
<1>6. SchemaIsCurrent(db)
  BY <1>2 DEF IInv, Phases
<1>7. Phases'
  BY <1>2, <1>3, <1>5, <1>6 DEF Phases, SchemaIsCurrent
<1>8. Rows(db)' = Rows(db) \union {row}
  <2>1. db # Missing /\ db' # Missing
    BY <1>2, <1>4, MissingIsNoFile
  <2> QED BY <1>2, <1>3, <2>1 DEF Rows
<1>9. \A r : Found(r)' = Found(r)
  BY <1>2 DEF Found, Rows
<1> QED BY <1>1, <1>2, <1>7, <1>8, <1>9 DEF Kept, IInv

LEMMA SafeQuit ==
  ASSUME Alone, IInv, NEW p \in Procs, Quit(p) PROVE Phases' /\ Kept'
<1>1. pc'[p] = "off"
  BY DEF Quit, Goto, IInv, TypeOK
<1>2. \A q \in Procs : q = p
  BY DEF Alone
<1>3. Phases'
  BY <1>1, <1>2 DEF Phases
<1>4. CASE /\ \E f \in {Empty, Damaged} : AddBackup(f)
           /\ UNCHANGED <<db, committed>>
  BY <1>3, <1>4, SpecialFiles, KeptAdd
<1>5. CASE pc[p] = "refilling" /\ UNCHANGED <<backups, made, audit>>
  <2>1. Rows(db) = {}
    BY <1>5 DEF IInv, Phases, Rows, Empty
  <2> QED BY <1>3, <1>5, <2>1, KeptSameRows
<1>6. CASE UNCHANGED <<files, audit>>
  BY <1>3, <1>6, KeptUnchanged
<1> QED BY <1>4, <1>5, <1>6 DEF Quit

LEMMA NextSafe == Alone /\ IInv /\ [Next]_vars => IInv'
<1> SUFFICES ASSUME Alone, IInv, [Next]_vars PROVE IInv'
  OBVIOUS
<1>1. TypeOK' /\ IsFiniteSet(backups)'
  BY TypeNext, FinitePreserved DEF IInv
<1>2. CASE UNCHANGED vars
  <2>1. UNCHANGED <<files, audit>>
    BY <1>2 DEF vars
  <2>2. Phases'
    BY <1>2 DEF vars, files, procVars, IInv, Phases, HasCopy, SchemaIsCurrent
  <2> QED BY <1>1, <2>1, <2>2, KeptUnchanged DEF IInv
<1>3. ASSUME NEW p \in Procs,
             \/ Open(p) \/ CreateFile(p) \/ CheckSchema(p) \/ CopyBackup(p) \/ Prune(p)
             \/ Migrate(p) \/ MigrateFails(p) \/ EmptyDatabase(p) \/ RefillDatabase(p)
             \/ Write(p) \/ Quit(p)
      PROVE Phases' /\ Kept'
  BY <1>3, SafeOpen, SafeCreateFile, SafeCheckSchema, SafeCopyBackup, SafePrune, SafeMigrate,
     SafeMigrateFails, SafeEmptyDatabase, SafeRefillDatabase, SafeWrite, SafeQuit
<1> QED BY <1>1, <1>2, <1>3 DEF Next, IInv

THEOREM Invariance == ASSUME Alone PROVE Spec => []IInv
BY InitSafe, NextSafe, PTL DEF Spec

(* With one process each committed row is in the database or in a copy, for *)
(* all failures and crashes, until as many copies as are kept were made of  *)
(* a database that a broken restore emptied.                                *)
THEOREM Survival == ASSUME Alone PROVE Spec => []SurvivesFailures
<1>1. IInv => SurvivesFailures
  BY DEF IInv, Kept, Found, SurvivesFailures, OnDisk
<1> QED BY <1>1, Invariance, PTL

(* With one process only a database with the present schema is served.      *)
THEOREM Served == ASSUME Alone PROVE Spec => []ServedIsCurrent
<1>1. IInv => ServedIsCurrent
  BY DEF IInv, Phases, SchemaIsCurrent, ServedIsCurrent
<1> QED BY <1>1, Invariance, PTL

(* With one process a database with rows is on the disk, as it is, before   *)
(* its migration commits.                                                   *)
THEOREM OldIsKept == ASSUME Alone PROVE Spec => OldKept
<1> DEFINE A == \A p \in Procs : pc[p] = "migrating" /\ pc'[p] = "serving" /\ ~SchemaIsCurrent(db)
                    => Rows(db) = {} \/ \E b \in backups : b.file = db
<1>1. IInv => A
  <2> SUFFICES ASSUME IInv, NEW p \in Procs, pc[p] = "migrating"
               PROVE  Rows(db) = {} \/ \E b \in backups : b.file = db
    OBVIOUS
  <2>1. CASE existed[p]
    BY <2>1 DEF IInv, Phases, HasCopy
  <2>2. CASE ~existed[p]
    BY <2>2 DEF IInv, Phases, Rows, Empty
  <2> QED BY <2>1, <2>2
<1>2. IInv => [A]_vars
  BY <1>1
<1> QED BY <1>2, Invariance, PTL DEF OldKept
----------------------------------------------------------------------------
(* Any number of processes, as long as none restores.                       *)

(* The database is whole and has all rows, and is served current.           *)
Intact ==
  /\ db # Missing => db.whole
  /\ committed \subseteq Rows(db)
  /\ \A p \in Procs : pc[p] # "refilling" /\ (pc[p] = "serving" => SchemaIsCurrent(db))

(* The step of a process that changes no row.                               *)
LEMMA IntactMove ==
  ASSUME TypeOK, Intact, NEW p \in Procs, NEW to, Goto(p, to), committed' = committed,
         db' = db, to # "refilling", to = "serving" => SchemaIsCurrent(db)
  PROVE  Intact'
<1>1. pc'[p] = to /\ \A q \in Procs \ {p} : pc'[q] = pc[q]
  BY DEF TypeOK, Goto
<1>2. Rows(db)' = Rows(db) /\ SchemaIsCurrent(db)' = SchemaIsCurrent(db)
  BY DEF Rows, SchemaIsCurrent
<1> QED BY <1>1, <1>2 DEF Intact

LEMMA IntactStep ==
  TypeOK /\ Intact /\ [Next]_vars /\ [\A p \in Procs : ~EmptyDatabase(p)]_vars => Intact'
<1> SUFFICES ASSUME TypeOK, Intact, [Next]_vars, [\A p \in Procs : ~EmptyDatabase(p)]_vars
             PROVE  Intact'
  OBVIOUS
<1>1. CASE UNCHANGED vars
  <2>1. db' = db /\ pc' = pc /\ committed' = committed
    BY <1>1 DEF vars, files, procVars, audit
  <2> QED BY <2>1 DEF Intact, Rows, SchemaIsCurrent
<1>2. CASE Next /\ \A p \in Procs : ~EmptyDatabase(p)
  <2>0. PICK p \in Procs :
          \/ Open(p) \/ CreateFile(p) \/ CheckSchema(p) \/ CopyBackup(p) \/ Prune(p)
          \/ Migrate(p) \/ MigrateFails(p) \/ RefillDatabase(p) \/ Write(p) \/ Quit(p)
    BY <1>2 DEF Next
  <2>1. CASE Open(p) \/ Prune(p) \/ MigrateFails(p)
    <3>1. /\ db' = db /\ committed' = committed
          /\ \E to \in {"creating", "opening", "migrating", "restoring", "off"} : Goto(p, to)
      BY <2>1 DEF Open, Prune, MigrateFails, files, audit
    <3> QED BY <3>1, IntactMove
  <2>2. CASE CheckSchema(p)
    <3>1. db' = db /\ committed' = committed
      BY <2>2 DEF CheckSchema, files, audit
    <3>2. CASE SchemaIsCurrent(db)
      BY <2>2, <3>1, <3>2, IntactMove DEF CheckSchema
    <3>3. CASE ~SchemaIsCurrent(db)
      <4>1. Goto(p, "copying") \/ Goto(p, "migrating")
        BY <2>2, <3>3 DEF CheckSchema
      <4> QED BY <3>1, <4>1, IntactMove
    <3> QED BY <3>2, <3>3
  <2>3. CASE CopyBackup(p)
    BY <2>3, IntactMove DEF CopyBackup
  <2>4. CASE CreateFile(p)
    <3>1. /\ db = Missing /\ db' = Empty /\ committed' = committed /\ Goto(p, "opening")
          /\ Empty.whole
      BY <2>4 DEF CreateFile, audit, Empty
    <3>2. pc'[p] = "opening" /\ \A q \in Procs \ {p} : pc'[q] = pc[q]
      BY <3>1 DEF TypeOK, Goto
    <3>3. \A q \in Procs : pc[q] # "serving"
      BY <3>1 DEF TypeOK
    <3>4. committed' = {}
      BY <3>1 DEF Intact, Rows
    <3> QED BY <3>1, <3>2, <3>3, <3>4 DEF Intact
  <2>5. CASE Migrate(p)
    <3>1. /\ db \in File /\ committed' = committed /\ Goto(p, "serving")
          /\ db' = [db EXCEPT !.version = SchemaVersion, !.complete = TRUE]
      BY <2>5 DEF Migrate, audit, TypeOK
    <3>2. /\ db' \in File /\ db'.rows = db.rows /\ db'.whole = db.whole
          /\ db'.version = SchemaVersion /\ db'.complete
      BY <3>1, MigrationAssumption DEF File, MigrationAssumption
    <3>3. Rows(db)' = Rows(db)
      BY <3>1, <3>2, MissingIsNoFile DEF Rows
    <3>4. pc'[p] = "serving" /\ \A q \in Procs \ {p} : pc'[q] = pc[q]
      BY <3>1 DEF TypeOK, Goto
    <3> QED BY <3>1, <3>2, <3>3, <3>4, MissingIsNoFile DEF Intact, SchemaIsCurrent
  <2>6. CASE RefillDatabase(p)
    BY <2>6 DEF RefillDatabase, Intact
  <2>7. CASE Write(p)
    <3>1. PICK row \in 1..MaxRow \ committed :
            /\ db' = [db EXCEPT !.rows = @ \union {row}]
            /\ committed' = committed \union {row}
      BY <2>7 DEF Write
    <3>2. pc' = pc /\ db \in File
      BY <2>7 DEF Write, procVars, TypeOK
    <3>3. /\ db'.rows = db.rows \union {row} /\ db'.whole = db.whole
          /\ db'.version = db.version /\ db'.complete = db.complete /\ db.whole
      BY <2>7, <3>1, <3>2 DEF File, Write
    <3>4. db' # Missing
      <4>1. "whole" \in DOMAIN db'
        BY <3>1, <3>2 DEF File
      <4>2. "whole" \notin DOMAIN Missing
        BY DEF Missing
      <4> QED BY <4>1, <4>2
    <3>5. Rows(db)' = Rows(db) \union {row}
      BY <3>2, <3>3, <3>4, MissingIsNoFile DEF Rows
    <3>6. SchemaIsCurrent(db)' = SchemaIsCurrent(db)
      BY <3>3 DEF SchemaIsCurrent
    <3> QED BY <3>1, <3>2, <3>3, <3>5, <3>6 DEF Intact
  <2>8. CASE Quit(p)
    <3>1. db' = db /\ committed' = committed /\ Goto(p, "off")
      BY <2>8 DEF Quit, files, audit, Intact
    <3> QED BY <3>1, IntactMove
  <2> QED BY <2>0, <2>1, <2>2, <2>3, <2>4, <2>5, <2>6, <2>7, <2>8
<1> QED BY <1>1, <1>2

(* However many processes open, migrate and write to the database, and      *)
(* whenever they end: as long as none restores it from a copy, it has every *)
(* committed row and is served current.  A restore is all that two          *)
(* processes can lose rows by (Db::open).                                   *)
THEOREM OnlyRestoresLose ==
  Spec /\ [][\A p \in Procs : ~EmptyDatabase(p)]_vars
    => [](committed \subseteq Rows(db) /\ ServedIsCurrent)
<1>1. Init => Intact
  <2> SUFFICES ASSUME Init PROVE Intact
    OBVIOUS
  <2>1. db # Missing => db.whole
    BY MigrationAssumption DEF Init, MigrationAssumption
  <2>2. committed = Rows(db) /\ \A p \in Procs : pc[p] = "off"
    BY DEF Init
  <2> QED BY <2>1, <2>2 DEF Intact
<1>2. TypeOK /\ Intact => committed \subseteq Rows(db) /\ ServedIsCurrent
  BY DEF TypeOK, Intact, ServedIsCurrent, SchemaIsCurrent
<1> QED BY <1>1, <1>2, IntactStep, Typing, PTL DEF Spec
=============================================================================
