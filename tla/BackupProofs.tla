---------------------------- MODULE BackupProofs ----------------------------
(***************************************************************************)
(* What a backup brings back, that serials stay apart across a restore and *)
(* that an import without failures is complete, for every legacy tree,     *)
(* every number of requests, runs, ends of the server and operations.      *)
(*                                                                         *)
(* Every step that writes rows without emptying the database is an edit of *)
(* some ids (Edits): it keeps what identifies the rows that are there, and *)
(* says of which ids the contents may change.  The invariants follow from  *)
(* that; what is left is a lemma per action, that it is an edit.           *)
(***************************************************************************)
EXTENDS Backup, SequenceTheorems, WellFoundedInduction, TLAPS

----------------------------------------------------------------------------
(* The invariant.                                                           *)

Sound(t) == Apart(t) /\ Counted(t) /\ InPlace(t)

\* A request that is going to restore has a file.
FileChosen == \A a \in Actors : pc[a] = "validated" => file[a] # 0

\* A file holds the database of the moment it was exported.
FilesExact == \A i \in DOMAIN files : files[i].rows = files[i].of

RowsSound == Sound(db) /\ \A i \in DOMAIN files : Sound(files[i].rows)

\* Where the importer is.
Placed ==
    /\ step \in {"inserting", "locking", "holding"} => at \in DOMAIN Items
    /\ step = "inserting" => Item.cert = None
    /\ step \in {"locking", "holding"} => Item.cert # None
    /\ step = "reported" => at > Len(Items)

\* Item i is in tables t.
Present(t, i) ==
    IF Items[i].cert = None THEN t.cas[Items[i].ca] # None
    ELSE t.certs[Items[i].cert] # None /\ t.certs[Items[i].cert].ca = Items[i].ca

\* Whatever the importer has passed without a failure is in the database.
Imported ==
    step # "off" /\ ~bad /\ ~wiped => \A i \in DOMAIN Items : i < at => Present(db, i)

IInv == TypeOK /\ FileChosen /\ FilesExact /\ RowsSound /\ RestoreKept /\ Placed /\ Imported

----------------------------------------------------------------------------
(* Numbers.                                                                 *)

\* The order of the natural numbers, as a set.
LEMMA LessThan ==
  \E R : IsWellFoundedOn(R, Nat) /\ \A m, n \in Nat : m < n => <<m, n>> \in R
<1>1. \A m, n \in Nat : m < n => <<m, n>> \in OpToRel(<, Nat)
  BY Zenon DEF OpToRel
<1> QED BY <1>1, NatLessThanWellFounded, Zenon

LEMMA Least ==
  ASSUME NEW S, S \subseteq Nat, S # {}
  PROVE  \E m \in S : \A n \in S : m <= n
<1>1. PICK R : IsWellFoundedOn(R, Nat) /\ \A m, n \in Nat : m < n => <<m, n>> \in R
  BY LessThan
<1>2. PICK m \in S : \A n \in S : ~(<<n, m>> \in R)
  <2>1. IsWellFoundedOn(R, Nat)
    BY <1>1
  <2> QED BY <2>1, WFMin, Zenon
<1>3. \A n \in S : ~(n < m)
  BY <1>1, <1>2
<1> QED BY <1>2, <1>3

LEMMA ItemsType == Items \in Seq([ca : CaIds, cert : CertIds \cup {None}])
BY BackupAssumption, Zenon DEF BackupAssumption

LEMMA ItemsLen == Len(Items) \in Nat /\ DOMAIN Items = 1..Len(Items)
BY ItemsType

LEMMA FirstItem == 1 \in 1..(Len(Items) + 1)
BY ItemsLen

LEMMA ItemType ==
  ASSUME NEW i \in DOMAIN Items
  PROVE  Items[i].ca \in CaIds /\ Items[i].cert \in CertIds \cup {None}
<1> DEFINE T == [ca : CaIds, cert : CertIds \cup {None}]
<1>1. Items \in Seq(T) /\ i \in 1..Len(Items)
  BY ItemsType, ItemsLen
<1>2. Items[i] \in T
  <2> HIDE DEF T
  <2> QED BY <1>1, ElementOfSeq
<1> QED BY <1>2

\* There is a next CA, or the end of the tree.
LEMMA NextCaType ==
  ASSUME at \in DOMAIN Items
  PROVE  NextCa \in 1..(Len(Items) + 1)
<1> DEFINE S == {i \in (at + 1)..(Len(Items) + 1) : i \in DOMAIN Items => Items[i].cert = None}
<1>1. at \in Nat /\ at + 1 \in Nat /\ at + 1 <= Len(Items) + 1
  BY ItemsLen
<1>2. S \subseteq Nat /\ Len(Items) + 1 \in S
  BY <1>1, ItemsLen
<1>3. PICK m \in S : \A n \in S : m <= n
  BY <1>2, Least
<1>4. \A j \in (at + 1)..(m - 1) : Items[j].cert # None
  BY <1>1, <1>3, ItemsLen
<1>5. \E i \in (at + 1)..(Len(Items) + 1) :
        /\ i \in DOMAIN Items => Items[i].cert = None
        /\ \A j \in (at + 1)..(i - 1) : Items[j].cert # None
  BY <1>3, <1>4
<1>6. NextCa \in (at + 1)..(Len(Items) + 1)
  BY <1>5, Zenon DEF NextCa
<1> QED BY <1>1, <1>6

LEMMA FollowingType ==
  ASSUME at \in DOMAIN Items
  PROVE  Following \in 1..(Len(Items) + 1)
BY ItemsLen DEF Following

----------------------------------------------------------------------------
(* Tables.                                                                  *)

\* The rows of t are still there in u, certificates with the CA they had.
Grows(t, u) ==
    /\ \A c \in CaIds : t.cas[c] # None => u.cas[c] # None
    /\ \A x \in CertIds : t.certs[x] # None => u.certs[x] # None /\ u.certs[x].ca = t.certs[x].ca

LEMMA NoRow == None \notin CaRow /\ None \notin CertRow
BY StartAssumption, Zenon DEF StartAssumption

LEMMA Fields ==
  ASSUME NEW t \in Tables
  PROVE  /\ t.cas \in [CaIds -> CaRow \cup {None}]
         /\ t.certs \in [CertIds -> CertRow \cup {None}]
         /\ t.users \subseteq UserIds
         /\ t = [cas |-> t.cas, certs |-> t.certs, users |-> t.users]
BY DEF Tables

LEMMA CaFields ==
  ASSUME NEW t \in Tables, NEW c \in CaIds, t.cas[c] # None
  PROVE  t.cas[c] \in CaRow
BY Fields

LEMMA CertFields ==
  ASSUME NEW t \in Tables, NEW x \in CertIds, t.certs[x] # None
  PROVE  t.certs[x] \in CertRow
BY Fields

\* A table with one row put.
WithCa(t, c, row) == [t EXCEPT !.cas[c] = row]
WithCert(t, x, row) == [t EXCEPT !.certs[x] = row]

LEMMA CaPut ==
  ASSUME NEW t \in Tables, NEW c \in CaIds, NEW row \in CaRow, NEW u, u = WithCa(t, c, row)
  PROVE  /\ u \in Tables
         /\ u.certs = t.certs /\ u.users = t.users
         /\ u.cas[c] = row /\ \A d \in CaIds : d # c => u.cas[d] = t.cas[d]
         /\ row # None
<1>1. u.cas = [t.cas EXCEPT ![c] = row] /\ u.certs = t.certs /\ u.users = t.users
  BY DEF Tables, WithCa
<1>2. [t.cas EXCEPT ![c] = row] \in [CaIds -> CaRow \cup {None}]
  BY Fields
<1>3. u \in Tables
  BY <1>1, <1>2, Fields DEF Tables, WithCa
<1>4. u.cas[c] = row /\ \A d \in CaIds : d # c => u.cas[d] = t.cas[d]
  BY <1>1, Fields
<1> QED BY <1>1, <1>3, <1>4, NoRow

LEMMA CertPut ==
  ASSUME NEW t \in Tables, NEW x \in CertIds, NEW row \in CertRow, NEW u, u = WithCert(t, x, row)
  PROVE  /\ u \in Tables
         /\ u.cas = t.cas /\ u.users = t.users
         /\ u.certs[x] = row /\ \A y \in CertIds : y # x => u.certs[y] = t.certs[y]
         /\ row # None
<1>1. u.certs = [t.certs EXCEPT ![x] = row] /\ u.cas = t.cas /\ u.users = t.users
  BY DEF Tables, WithCert
<1>2. [t.certs EXCEPT ![x] = row] \in [CertIds -> CertRow \cup {None}]
  BY Fields
<1>3. u \in Tables
  BY <1>1, <1>2, Fields DEF Tables, WithCert
<1>4. u.certs[x] = row /\ \A y \in CertIds : y # x => u.certs[y] = t.certs[y]
  BY <1>1, Fields
<1> QED BY <1>1, <1>3, <1>4, NoRow

\* Tables without new certificates whose CAs have counted as far are as sound.
LEMMA SoundSame ==
  ASSUME NEW t \in Tables, NEW u \in Tables, Sound(t),
         \A x \in CertIds : u.certs[x] # None =>
            /\ t.certs[x] # None
            /\ u.certs[x].ca = t.certs[x].ca /\ u.certs[x].serial = t.certs[x].serial,
         \A c \in CaIds : t.cas[c] # None => u.cas[c] # None /\ t.cas[c].next <= u.cas[c].next
  PROVE  Sound(u)
<1>1. Apart(u)
  BY DEF Sound, Apart
<1>2. InPlace(u)
  <2> SUFFICES ASSUME NEW i \in DOMAIN Items, Items[i].cert # None, u.certs[Items[i].cert] # None
               PROVE  u.certs[Items[i].cert].ca = Items[i].ca
    BY DEF InPlace
  <2>1. Items[i].cert \in CertIds
    BY ItemType
  <2> QED BY <2>1 DEF Sound, InPlace
<1>3. Counted(u)
  <2> SUFFICES ASSUME NEW x \in CertIds, u.certs[x] # None
               PROVE  /\ u.cas[u.certs[x].ca] # None
                      /\ u.certs[x].serial # 0 => u.certs[x].serial < u.cas[u.certs[x].ca].next
    BY DEF Counted
  <2> DEFINE c == t.certs[x].ca
  <2>1. t.certs[x] \in CertRow
    BY CertFields
  <2>2. c \in CaIds /\ u.certs[x].ca = c /\ u.certs[x].serial = t.certs[x].serial /\ t.certs[x].serial \in Nat
    BY <2>1 DEF CertRow
  <2>3. t.cas[c] # None /\ (t.certs[x].serial # 0 => t.certs[x].serial < t.cas[c].next)
    BY DEF Sound, Counted
  <2>4. u.cas[c] # None /\ t.cas[c].next <= u.cas[c].next
    BY <2>2, <2>3
  <2>5. t.cas[c].next \in Nat /\ u.cas[c].next \in Nat
    <3>1. t.cas[c] \in CaRow /\ u.cas[c] \in CaRow
      BY <2>2, <2>3, <2>4, CaFields
    <3> QED BY <3>1 DEF CaRow
  <2> HIDE DEF c
  <2> QED BY <2>2, <2>3, <2>4, <2>5
<1> QED BY <1>1, <1>2, <1>3 DEF Sound

\* One new certificate n, in its place, imported or with a serial not counted before.
LEMMA SoundNew ==
  ASSUME NEW t \in Tables, NEW u \in Tables, Sound(t), NEW n \in CertIds, NEW c \in CaIds,
         u.certs[n] # None, u.certs[n].ca = c,
         \A x \in CertIds : x # n => u.certs[x] = t.certs[x],
         t.cas[c] # None,
         \A d \in CaIds : t.cas[d] # None => u.cas[d] # None /\ t.cas[d].next <= u.cas[d].next,
         u.certs[n].serial # 0 =>
            t.cas[c].next <= u.certs[n].serial /\ u.certs[n].serial < u.cas[c].next,
         \A i \in DOMAIN Items : Items[i].cert = n /\ n # None => Items[i].ca = c
  PROVE  Sound(u)
<1>1. u.certs[n] \in CertRow /\ u.certs[n].serial \in Nat
  BY CertFields DEF CertRow
<1>2. \A x \in CertIds : t.certs[x] # None =>
          /\ t.certs[x].ca \in CaIds /\ t.certs[x].serial \in Nat
          /\ t.cas[t.certs[x].ca] # None
          /\ t.certs[x].serial # 0 => t.certs[x].serial < t.cas[t.certs[x].ca].next
  BY CertFields DEF CertRow, Sound, Counted
<1>3. \A d \in CaIds : t.cas[d] # None => t.cas[d].next \in Nat /\ u.cas[d].next \in Nat
  BY CaFields DEF CaRow
<1>4. InPlace(u)
  <2> SUFFICES ASSUME NEW i \in DOMAIN Items, Items[i].cert # None, u.certs[Items[i].cert] # None
               PROVE  u.certs[Items[i].cert].ca = Items[i].ca
    BY DEF InPlace
  <2>1. Items[i].cert \in CertIds
    BY ItemType
  <2>2. CASE Items[i].cert = n
    BY <2>2
  <2>3. CASE Items[i].cert # n
    BY <2>1, <2>3 DEF Sound, InPlace
  <2> QED BY <2>2, <2>3
<1>5. Counted(u)
  <2> SUFFICES ASSUME NEW x \in CertIds, u.certs[x] # None
               PROVE  /\ u.cas[u.certs[x].ca] # None
                      /\ u.certs[x].serial # 0 => u.certs[x].serial < u.cas[u.certs[x].ca].next
    BY DEF Counted
  <2>1. CASE x = n
    BY <2>1
  <2>2. CASE x # n
    <3>1. u.certs[x] = t.certs[x] /\ t.certs[x] # None
      BY <2>2
    <3> DEFINE d == t.certs[x].ca
    <3>2. d \in CaIds /\ t.cas[d] # None /\ t.certs[x].serial \in Nat
          /\ (t.certs[x].serial # 0 => t.certs[x].serial < t.cas[d].next)
      BY <3>1, <1>2
    <3>3. u.cas[d] # None /\ t.cas[d].next <= u.cas[d].next
      BY <3>2
    <3> HIDE DEF d
    <3>4. u.certs[x].ca = d
      BY <3>1 DEF d
    <3> QED BY <3>1, <3>2, <3>3, <3>4, <1>3
  <2> QED BY <2>1, <2>2
<1>6. Apart(u)
  <2> SUFFICES ASSUME NEW x \in CertIds, NEW y \in CertIds,
                      x # y, u.certs[x] # None, u.certs[y] # None,
                      u.certs[x].ca = u.certs[y].ca, u.certs[x].serial # 0
               PROVE  u.certs[x].serial # u.certs[y].serial
    BY DEF Apart
  <2>1. CASE x # n /\ y # n
    BY <2>1 DEF Sound, Apart
  <2>2. CASE x = n
    <3>1. t.certs[y] # None /\ t.certs[y].ca = c /\ u.certs[y] = t.certs[y]
      BY <2>2
    <3>2. t.certs[y].serial \in Nat /\ (t.certs[y].serial # 0 => t.certs[y].serial < t.cas[c].next)
      BY <3>1, <1>2
    <3> QED BY <3>1, <3>2, <2>2, <1>1, <1>3
  <2>3. CASE y = n
    <3>1. t.certs[x] # None /\ t.certs[x].ca = c /\ u.certs[x] = t.certs[x]
      BY <2>3
    <3>2. t.certs[x].serial \in Nat /\ t.certs[x].serial < t.cas[c].next
      BY <3>1, <1>2
    <3> QED BY <3>1, <3>2, <2>3, <1>1, <1>3
  <2> QED BY <2>1, <2>2, <2>3
<1> QED BY <1>4, <1>5, <1>6 DEF Sound

\* Rows that differ in the flag of the repair only have the same contents.
LEMMA ContentSame ==
  ASSUME NEW t, NEW u, NEW id \in CaIds \cup CertIds \cup UserIds,
         id \in UserIds => (id \in t.users <=> id \in u.users),
         id \in CaIds =>
            \/ t.cas[id] = u.cas[id]
            \/ /\ t.cas[id] # None /\ u.cas[id] # None
               /\ t.cas[id].del = u.cas[id].del /\ t.cas[id].next = u.cas[id].next,
         id \in CertIds =>
            \/ t.certs[id] = u.certs[id]
            \/ /\ t.certs[id] # None /\ u.certs[id] # None
               /\ t.certs[id].ca = u.certs[id].ca /\ t.certs[id].serial = u.certs[id].serial
               /\ t.certs[id].del = u.certs[id].del
  PROVE  Content(t, id) = Content(u, id)
<1>1. CASE id \in UserIds
  <2>1. Content(t, id) = (id \in t.users) /\ Content(u, id) = (id \in u.users)
    BY <1>1, Zenon DEF Content
  <2>2. (id \in t.users) = (id \in u.users)
    BY <1>1
  <2> QED BY <2>1, <2>2, Zenon
<1>2. CASE id \notin UserIds /\ id \in CaIds
  BY <1>2 DEF Content
<1>3. CASE id \notin UserIds /\ id \notin CaIds
  BY <1>3 DEF Content
<1> QED BY <1>1, <1>2, <1>3

----------------------------------------------------------------------------
(* Edits of the tables.                                                     *)

AllIds == CaIds \cup CertIds \cup UserIds

\* A step that may change what ids contain, and nothing else.
Edits(ids) ==
    /\ db' \in Tables /\ Sound(db') /\ Grows(db, db')
    /\ \A id \in AllIds \ ids : Content(db', id) = Content(db, id)
    /\ base' = base
    /\ ids \subseteq AllIds /\ touched' = touched \cup ids

TablesOK == db \in Tables /\ base \in Tables /\ touched \subseteq AllIds

LEMMA NoEdit ==
  ASSUME db \in Tables, Sound(db), UNCHANGED <<db, base, touched>>
  PROVE  Edits({})
<1>1. db' = db /\ base' = base /\ touched' = touched \cup {}
  OBVIOUS
<1>2. Grows(db, db')
  BY <1>1 DEF Grows
<1> QED BY <1>1, <1>2 DEF Edits

\* A CA is put where there is none, or where one has counted no further.
LEMMA EditCa ==
  ASSUME db \in Tables, Sound(db),
         NEW c \in CaIds, NEW row \in CaRow, db' = WithCa(db, c, row),
         db.cas[c] # None => db.cas[c].next <= row.next,
         NEW ids \in SUBSET AllIds, base' = base, touched' = touched \cup ids,
         c \in ids \/ (db.cas[c] # None /\ row.del = db.cas[c].del /\ row.next = db.cas[c].next)
  PROVE  Edits(ids)
<1>1. /\ db' \in Tables /\ db'.certs = db.certs /\ db'.users = db.users
      /\ db'.cas[c] = row /\ row # None
      /\ \A d \in CaIds : d # c => db'.cas[d] = db.cas[d]
  BY CaPut
<1>2. \A d \in CaIds : db.cas[d] # None => db'.cas[d] # None /\ db.cas[d].next <= db'.cas[d].next
  <2> TAKE d \in CaIds
  <2> HAVE db.cas[d] # None
  <2>1. CASE d = c
    BY <1>1, <2>1
  <2>2. CASE d # c
    <3>1. db.cas[d].next \in Nat
      BY CaFields DEF CaRow
    <3> QED BY <1>1, <2>2, <3>1
  <2> QED BY <2>1, <2>2
<1>3. Sound(db')
  BY <1>1, <1>2, SoundSame
<1>4. Grows(db, db')
  BY <1>1, <1>2 DEF Grows
<1>5. ASSUME NEW id \in AllIds \ ids
      PROVE  Content(db', id) = Content(db, id)
  <2>1. id \in CaIds =>
          \/ db'.cas[id] = db.cas[id]
          \/ /\ db'.cas[id] # None /\ db.cas[id] # None
             /\ db'.cas[id].del = db.cas[id].del /\ db'.cas[id].next = db.cas[id].next
    BY <1>1
  <2> QED BY <1>1, <2>1, ContentSame DEF AllIds
<1> QED BY <1>1, <1>3, <1>4, <1>5 DEF Edits

\* A certificate that is there keeps its CA and its serial.
LEMMA EditCert ==
  ASSUME db \in Tables, Sound(db),
         NEW x \in CertIds, NEW row \in CertRow, db' = WithCert(db, x, row),
         db.certs[x] # None, row.ca = db.certs[x].ca, row.serial = db.certs[x].serial,
         NEW ids \in SUBSET AllIds, base' = base, touched' = touched \cup ids,
         x \in ids \/ row.del = db.certs[x].del
  PROVE  Edits(ids)
<1>1. /\ db' \in Tables /\ db'.cas = db.cas /\ db'.users = db.users
      /\ db'.certs[x] = row /\ row # None
      /\ \A y \in CertIds : y # x => db'.certs[y] = db.certs[y]
  BY CertPut
<1>2. \A y \in CertIds : db'.certs[y] # None =>
        /\ db.certs[y] # None
        /\ db'.certs[y].ca = db.certs[y].ca /\ db'.certs[y].serial = db.certs[y].serial
  BY <1>1
<1>3. \A c \in CaIds : db.cas[c] # None => db'.cas[c] # None /\ db.cas[c].next <= db'.cas[c].next
  BY <1>1, CaFields DEF CaRow
<1>4. Sound(db')
  BY <1>1, <1>2, <1>3, SoundSame
<1>5. Grows(db, db')
  BY <1>1 DEF Grows
<1>6. ASSUME NEW id \in AllIds \ ids
      PROVE  Content(db', id) = Content(db, id)
  <2>1. id \in CertIds =>
          \/ db'.certs[id] = db.certs[id]
          \/ /\ db'.certs[id] # None /\ db.certs[id] # None
             /\ db'.certs[id].ca = db.certs[id].ca /\ db'.certs[id].serial = db.certs[id].serial
             /\ db'.certs[id].del = db.certs[id].del
    BY <1>1
  <2>2. id \in CaIds \cup CertIds \cup UserIds
    BY DEF AllIds
  <2>3. db'.users = db.users /\ db'.cas = db.cas
    BY <1>1
  <2> QED BY <2>1, <2>2, <2>3, ContentSame
<1> QED BY <1>1, <1>4, <1>5, <1>6 DEF Edits

----------------------------------------------------------------------------
(* The actions, as edits.                                                   *)

LEMMA EditOfUser ==
  ASSUME IInv, NEW u \in UserIds, CreateUser(u)
  PROVE  Edits({u})
<1>1. db \in Tables /\ Sound(db)
  BY DEF IInv, TypeOK, RowsSound
<1>2. db' = [db EXCEPT !.users = @ \cup {u}] /\ touched' = touched \cup {u} /\ base' = base
  BY DEF CreateUser, Touches
<1>3. db' \in Tables /\ db'.cas = db.cas /\ db'.certs = db.certs /\ db'.users = db.users \cup {u}
  BY <1>1, <1>2, Fields DEF Tables
<1>4. \A c \in CaIds : db.cas[c] # None => db'.cas[c] # None /\ db.cas[c].next <= db'.cas[c].next
  BY <1>1, <1>3, CaFields DEF CaRow
<1>5. Sound(db')
  BY <1>1, <1>3, <1>4, SoundSame
<1>6. Grows(db, db')
  BY <1>3 DEF Grows
<1>7. ASSUME NEW id \in AllIds \ {u}
      PROVE  Content(db', id) = Content(db, id)
  BY <1>3, ContentSame DEF AllIds
<1> QED BY <1>2, <1>3, <1>5, <1>6, <1>7 DEF Edits, AllIds

LEMMA EditOfCa ==
  ASSUME IInv, NEW c \in CaIds, CreateCa(c)
  PROVE  Edits({c})
<1>1. db \in Tables /\ Sound(db)
  BY DEF IInv, TypeOK, RowsSound
<1>2. db' = WithCa(db, c, NewCa) /\ touched' = touched \cup {c} /\ base' = base
      /\ db.cas[c] = None
  BY DEF CreateCa, Touches, PutCa, CaExists, WithCa
<1>3. NewCa \in CaRow /\ {c} \in SUBSET AllIds
  BY DEF NewCa, CaRow, AllIds
<1> QED BY <1>1, <1>2, <1>3, EditCa

LEMMA EditOfFlipCa ==
  ASSUME IInv, NEW c \in CaIds, FlipCa(c)
  PROVE  Edits({c})
<1> DEFINE row == [db.cas[c] EXCEPT !.del = ~@]
<1>1. db \in Tables /\ Sound(db)
  BY DEF IInv, TypeOK, RowsSound
<1>2. db' = [db EXCEPT !.cas[c].del = ~@] /\ touched' = touched \cup {c} /\ base' = base
      /\ db.cas[c] # None
  BY DEF FlipCa, Touches, CaExists
<1>3. db' = WithCa(db, c, row)
  BY <1>2 DEF WithCa
<1>4. db.cas[c] \in CaRow
  BY <1>1, <1>2, CaFields
<1>5. row \in CaRow /\ row.next = db.cas[c].next /\ row.next \in Nat
  BY <1>4 DEF CaRow
<1>6. {c} \in SUBSET AllIds
  BY DEF AllIds
<1> HIDE DEF row
<1> QED BY <1>1, <1>2, <1>3, <1>5, <1>6, EditCa

LEMMA EditOfFlipCert ==
  ASSUME IInv, NEW x \in CertIds, FlipCert(x)
  PROVE  Edits({x})
<1> DEFINE row == [db.certs[x] EXCEPT !.del = ~@]
<1>1. db \in Tables /\ Sound(db)
  BY DEF IInv, TypeOK, RowsSound
<1>2. db' = [db EXCEPT !.certs[x].del = ~@] /\ touched' = touched \cup {x} /\ base' = base
      /\ db.certs[x] # None
  BY DEF FlipCert, Touches, CertExists
<1>3. db' = WithCert(db, x, row)
  BY <1>2 DEF WithCert
<1>4. db.certs[x] \in CertRow
  BY <1>1, <1>2, CertFields
<1>5. row \in CertRow /\ row.ca = db.certs[x].ca /\ row.serial = db.certs[x].serial
  BY <1>4 DEF CertRow
<1>6. {x} \in SUBSET AllIds
  BY DEF AllIds
<1> HIDE DEF row
<1> QED BY <1>1, <1>2, <1>3, <1>5, <1>6, EditCert

LEMMA EditOfCert ==
  ASSUME IInv, NEW x \in CertIds, NEW c \in CaIds, CreateCert(x, c)
  PROVE  Edits({x, c})
<1> DEFINE n == db.cas[c].next
           row == NewCert(c, n)
           ca == [db.cas[c] EXCEPT !.next = @ + 1]
           mid == WithCa(db, c, ca)
<1>1. db \in Tables /\ Sound(db)
  BY DEF IInv, TypeOK, RowsSound
<1>2. /\ db' = [db EXCEPT !.certs[x] = NewCert(c, db.cas[c].next), !.cas[c].next = @ + 1]
      /\ touched' = touched \cup {x, c} /\ base' = base
      /\ db.cas[c] # None /\ db.certs[x] = None /\ x \notin LegacyCerts
  BY DEF CreateCert, CaLive, CaExists, CertExists
<1>3. db.cas[c] \in CaRow /\ n \in Nat
  BY <1>1, <1>2, CaFields DEF CaRow
<1>4. ca \in CaRow /\ ca.next = n + 1
  BY <1>3 DEF CaRow
<1>5. row \in CertRow /\ row.ca = c /\ row.serial = n
  BY <1>3 DEF NewCert, CertRow
<1>6. db' = WithCert(mid, x, row)
  BY <1>1, <1>2 DEF Tables, WithCa, WithCert
<1> HIDE DEF row, ca
<1>7. /\ mid \in Tables /\ mid.certs = db.certs /\ mid.users = db.users
      /\ mid.cas[c] = ca /\ ca # None
      /\ \A d \in CaIds : d # c => mid.cas[d] = db.cas[d]
  BY <1>1, <1>4, CaPut
<1> HIDE DEF mid
<1>8. /\ db' \in Tables /\ db'.cas = mid.cas /\ db'.users = mid.users
      /\ db'.certs[x] = row /\ row # None
      /\ \A y \in CertIds : y # x => db'.certs[y] = mid.certs[y]
  BY <1>5, <1>6, <1>7, CertPut
<1>9. \A d \in CaIds : db.cas[d] # None => db'.cas[d] # None /\ db.cas[d].next <= db'.cas[d].next
  <2> TAKE d \in CaIds
  <2> HAVE db.cas[d] # None
  <2>1. db.cas[d].next \in Nat
    BY <1>1, CaFields DEF CaRow
  <2>2. CASE d = c
    BY <1>3, <1>4, <1>7, <1>8, <2>2
  <2>3. CASE d # c
    BY <1>7, <1>8, <2>1, <2>3
  <2> QED BY <2>2, <2>3
<1>10. \A i \in DOMAIN Items : Items[i].cert = x /\ x # None => Items[i].ca = c
  BY <1>2, Zenon DEF LegacyCerts
<1>11. db'.certs[x].serial # 0 =>
          db.cas[c].next <= db'.certs[x].serial /\ db'.certs[x].serial < db'.cas[c].next
  <2>1. db'.certs[x].serial = n /\ db'.cas[c].next = n + 1
    BY <1>4, <1>5, <1>7, <1>8
  <2> QED BY <2>1, <1>3
<1>12. db'.certs[x] # None /\ db'.certs[x].ca = c /\ \A y \in CertIds : y # x => db'.certs[y] = db.certs[y]
  BY <1>5, <1>7, <1>8
<1>13. Sound(db')
  <2> DEFINE u == db'
  <2>1. /\ u \in Tables /\ u.certs[x] # None /\ u.certs[x].ca = c
        /\ \A y \in CertIds : y # x => u.certs[y] = db.certs[y]
        /\ db.cas[c] # None
        /\ \A d \in CaIds : db.cas[d] # None => u.cas[d] # None /\ db.cas[d].next <= u.cas[d].next
        /\ u.certs[x].serial # 0 => db.cas[c].next <= u.certs[x].serial /\ u.certs[x].serial < u.cas[c].next
    BY <1>2, <1>8, <1>9, <1>11, <1>12
  <2> HIDE DEF u
  <2>2. Sound(u)
    BY <1>1, <1>10, <2>1, SoundNew, Zenon
  <2> QED BY <2>2 DEF u
<1>14. Grows(db, db')
  BY <1>2, <1>9, <1>12 DEF Grows
<1>15. ASSUME NEW id \in AllIds \ {x, c}
       PROVE  Content(db', id) = Content(db, id)
  BY <1>7, <1>8, ContentSame DEF AllIds
<1> QED BY <1>2, <1>8, <1>13, <1>14, <1>15 DEF Edits, AllIds

LEMMA EditOfRepair ==
  ASSUME IInv, NEW a \in Actors, NEW id \in CaIds \cup CertIds, RepairRow(a, id)
  PROVE  Edits({})
<1>1. db \in Tables /\ Sound(db)
  BY DEF IInv, TypeOK, RowsSound
<1>2. base' = base /\ touched' = touched \cup {} /\ {} \in SUBSET AllIds
  BY DEF RepairRow
<1>3. CASE id \in CaIds /\ CaExists(id)
  <2> DEFINE row == [db.cas[id] EXCEPT !.checked = TRUE]
  <2>1. db' = WithCa(db, id, row) /\ db.cas[id] # None
    BY <1>3 DEF RepairRow, CaExists, WithCa
  <2>2. db.cas[id] \in CaRow
    BY <1>1, <1>3, <2>1, CaFields
  <2>3. row \in CaRow /\ row.next = db.cas[id].next /\ row.next \in Nat /\ row.del = db.cas[id].del
    BY <2>2 DEF CaRow
  <2> HIDE DEF row
  <2> QED BY <1>1, <1>2, <1>3, <2>1, <2>3, EditCa
<1>4. CASE ~(id \in CaIds /\ CaExists(id)) /\ id \in CertIds /\ CertExists(id)
  <2> DEFINE row == [db.certs[id] EXCEPT !.checked = TRUE]
  <2>1. db' = WithCert(db, id, row) /\ db.certs[id] # None
    BY <1>4 DEF RepairRow, CertExists, WithCert
  <2>2. db.certs[id] \in CertRow
    BY <1>1, <1>4, <2>1, CertFields
  <2>3. row \in CertRow /\ row.ca = db.certs[id].ca /\ row.serial = db.certs[id].serial
        /\ row.del = db.certs[id].del
    BY <2>2 DEF CertRow
  <2> HIDE DEF row
  <2> QED BY <1>1, <1>2, <1>4, <2>1, <2>3, EditCert
<1>5. CASE ~(id \in CaIds /\ CaExists(id)) /\ ~(id \in CertIds /\ CertExists(id))
  <2>1. UNCHANGED <<db, base, touched>>
    BY <1>5 DEF RepairRow
  <2> QED BY <1>1, <2>1, NoEdit
<1> QED BY <1>3, <1>4, <1>5

LEMMA EditOfImportCa ==
  ASSUME IInv, ImportCa
  PROVE  Edits({}) \/ (Edits({Item.ca}) /\ db'.cas[Item.ca] # None)
<1>1. db \in Tables /\ Sound(db)
  BY DEF IInv, TypeOK, RowsSound
<1>2. Item.ca \in CaIds
  BY ItemType DEF IInv, Placed, ImportCa, Item
<1>3. CASE UNCHANGED tables
  BY <1>1, <1>3, NoEdit DEF tables
<1>4. CASE ~CaExists(Item.ca) /\ PutCa(Item.ca, NewCa) /\ Touches(Item.ca)
  <2>1. NewCa \in CaRow /\ {Item.ca} \in SUBSET AllIds
    BY <1>2 DEF NewCa, CaRow, AllIds
  <2>2. db' = WithCa(db, Item.ca, NewCa) /\ db.cas[Item.ca] = None
        /\ base' = base /\ touched' = touched \cup {Item.ca}
    BY <1>4 DEF CaExists, PutCa, Touches, WithCa
  <2>3. Edits({Item.ca})
    BY <1>1, <1>2, <2>1, <2>2, EditCa
  <2>4. db'.cas[Item.ca] = NewCa /\ NewCa # None
    BY <1>1, <1>2, <2>1, <2>2, CaPut
  <2> QED BY <2>3, <2>4
<1> QED BY <1>3, <1>4 DEF ImportCa

LEMMA EditOfImportCert ==
  ASSUME IInv, ImportCert
  PROVE  \/ Edits({})
         \/ Edits({Item.cert}) /\ db'.certs[Item.cert] # None /\ db'.certs[Item.cert].ca = Item.ca
<1>1. db \in Tables /\ Sound(db)
  BY DEF IInv, TypeOK, RowsSound
<1>2. at \in DOMAIN Items /\ Item.ca \in CaIds /\ Item.cert \in CertIds /\ Item.cert # None
  BY ItemType DEF IInv, Placed, ImportCert, Item
<1>3. CASE UNCHANGED <<db, touched>>
  <2>1. UNCHANGED <<db, base, touched>>
    BY <1>3 DEF ImportCert
  <2> QED BY <1>1, <2>1, NoEdit
<1>4. CASE /\ CaLive(Item.ca) /\ ~CertExists(Item.cert)
           /\ PutCert(Item.cert, NewCert(Item.ca, 0))
           /\ touched' = touched \cup {Item.cert}
  <2> DEFINE x == Item.cert
             c == Item.ca
             row == NewCert(c, 0)
  <2>1. db' = WithCert(db, x, row) /\ db.certs[x] = None /\ db.cas[c] # None
        /\ base' = base /\ touched' = touched \cup {x}
    BY <1>4 DEF CaLive, CaExists, CertExists, PutCert, WithCert, ImportCert
  <2>2. row \in CertRow /\ row.ca = c /\ row.serial = 0
    BY <1>2 DEF NewCert, CertRow
  <2>3. x \in CertIds /\ c \in CaIds
    BY <1>2
  <2>4. \A i \in DOMAIN Items : Items[i].cert = x /\ x # None => Items[i].ca = c
    <3>1. ASSUME NEW i \in DOMAIN Items, Items[i].cert = x, x # None
          PROVE  i = at
      BY <1>2, <3>1, BackupAssumption, Zenon DEF BackupAssumption, Item
    <3> QED BY <3>1 DEF Item
  <2> HIDE DEF row, x, c
  <2>5. /\ db' \in Tables /\ db'.cas = db.cas /\ db'.users = db.users
        /\ db'.certs[x] = row /\ row # None
        /\ \A y \in CertIds : y # x => db'.certs[y] = db.certs[y]
    BY <1>1, <2>1, <2>2, <2>3, CertPut
  <2>6. \A d \in CaIds : db.cas[d] # None => db'.cas[d] # None /\ db.cas[d].next <= db'.cas[d].next
    BY <1>1, <2>5, CaFields DEF CaRow
  <2>7. db'.certs[x] # None /\ db'.certs[x].ca = c /\ db'.certs[x].serial = 0
    BY <2>2, <2>5
  <2>8. Sound(db')
    BY <1>1, <2>1, <2>3, <2>4, <2>5, <2>6, <2>7, SoundNew
  <2>9. Grows(db, db')
    BY <2>1, <2>5 DEF Grows
  <2>10. ASSUME NEW id \in AllIds \ {x}
         PROVE  Content(db', id) = Content(db, id)
    BY <2>5, ContentSame DEF AllIds
  <2>11. Edits({x})
    BY <2>1, <2>3, <2>5, <2>8, <2>9, <2>10 DEF Edits, AllIds
  <2> QED BY <2>7, <2>11 DEF x, c
<1> QED BY <1>3, <1>4 DEF ImportCert

LEMMA EmptyRows ==
  /\ EmptyTables \in Tables /\ Sound(EmptyTables)
  /\ \A c \in CaIds : EmptyTables.cas[c] = None
  /\ \A x \in CertIds : EmptyTables.certs[x] = None
  /\ EmptyTables.users = {}
<1>1. EmptyTables.cas = [c \in CaIds |-> None] /\ EmptyTables.certs = [x \in CertIds |-> None]
      /\ EmptyTables.users = {}
  BY DEF EmptyTables
<1>2. EmptyTables \in Tables
  BY DEF EmptyTables, Tables
<1>3. \A x \in CertIds : EmptyTables.certs[x] = None
  BY <1>1
<1>4. \A i \in DOMAIN Items : Items[i].cert # None => Items[i].cert \in CertIds
  BY ItemType
<1>5. Sound(EmptyTables)
  BY <1>3, <1>4 DEF Sound, Apart, Counted, InPlace
<1> QED BY <1>1, <1>2, <1>3, <1>5

\* The rows of a file come back as they were, but for the flag of the repair.
LEMMA Restored ==
  ASSUME NEW t \in Tables, Sound(t), db = EmptyTables, NEW u, u = Inserted(t)
  PROVE  u \in Tables /\ Sound(u) /\ \A id \in AllIds : Content(u, id) = Content(t, id)
<1>1. /\ \A c \in CaIds : t.cas[c] # None =>
            /\ t.cas[c] \in CaRow
            /\ RestoredCa(t.cas[c]) \in CaRow
            /\ RestoredCa(t.cas[c]).del = t.cas[c].del /\ RestoredCa(t.cas[c]).next = t.cas[c].next
      /\ \A x \in CertIds : t.certs[x] # None =>
            /\ RestoredCert(t.certs[x]) \in CertRow
            /\ RestoredCert(t.certs[x]).ca = t.certs[x].ca
            /\ RestoredCert(t.certs[x]).serial = t.certs[x].serial
            /\ RestoredCert(t.certs[x]).del = t.certs[x].del
  <2>1. ASSUME NEW row \in CaRow
        PROVE  /\ RestoredCa(row) \in CaRow
               /\ RestoredCa(row).del = row.del /\ RestoredCa(row).next = row.next
    BY DEF CaRow, RestoredCa
  <2>2. ASSUME NEW row \in CertRow
        PROVE  /\ RestoredCert(row) \in CertRow /\ RestoredCert(row).ca = row.ca
               /\ RestoredCert(row).serial = row.serial /\ RestoredCert(row).del = row.del
    BY DEF CertRow, RestoredCert
  <2> QED BY <2>1, <2>2, CaFields, CertFields
<1>2. /\ u.cas = [c \in CaIds |-> IF t.cas[c] = None THEN db.cas[c] ELSE RestoredCa(t.cas[c])]
      /\ u.certs = [x \in CertIds |-> IF t.certs[x] = None THEN db.certs[x] ELSE RestoredCert(t.certs[x])]
      /\ u.users = db.users \cup t.users
  BY DEF Inserted
<1>3. /\ \A c \in CaIds : u.cas[c] = IF t.cas[c] = None THEN None ELSE RestoredCa(t.cas[c])
      /\ \A x \in CertIds : u.certs[x] = IF t.certs[x] = None THEN None ELSE RestoredCert(t.certs[x])
      /\ u.users = t.users
  BY <1>2, EmptyRows
<1>4. u.cas \in [CaIds -> CaRow \cup {None}] /\ u.certs \in [CertIds -> CertRow \cup {None}]
  BY <1>1, <1>2, <1>3
<1>5. u = [cas |-> u.cas, certs |-> u.certs, users |-> u.users]
  BY DEF Inserted
<1>6. u \in Tables
  BY <1>3, <1>4, <1>5, Fields DEF Tables
<1>7. /\ \A c \in CaIds : t.cas[c] # None => /\ u.cas[c] # None
                                             /\ u.cas[c].del = t.cas[c].del
                                             /\ u.cas[c].next = t.cas[c].next
                                             /\ t.cas[c].next <= u.cas[c].next
      /\ \A c \in CaIds : t.cas[c] = None => u.cas[c] = None
      /\ \A x \in CertIds : t.certs[x] # None => /\ u.certs[x] # None
                                                 /\ u.certs[x].ca = t.certs[x].ca
                                                 /\ u.certs[x].serial = t.certs[x].serial
                                                 /\ u.certs[x].del = t.certs[x].del
      /\ \A x \in CertIds : t.certs[x] = None => u.certs[x] = None
  BY <1>1, <1>3, NoRow DEF CaRow
<1>8. Sound(u)
  BY <1>6, <1>7, SoundSame
<1>9. ASSUME NEW id \in AllIds
      PROVE  Content(u, id) = Content(t, id)
  BY <1>3, <1>7, ContentSame DEF AllIds
<1> QED BY <1>6, <1>8, <1>9

LEMMA RestoreStep ==
  ASSUME IInv, NEW r \in Requests, RestoreBackup(r)
  PROVE  \/ Edits({})
         \/ /\ db' \in Tables /\ Sound(db') /\ Grows(db, db')
            /\ base' \in Tables /\ touched' = {}
            /\ \A id \in AllIds : Content(db', id) = Content(base', id)
<1> DEFINE f == files[file[r]]
<1>1. db \in Tables /\ Sound(db)
  BY DEF IInv, TypeOK, RowsSound
<1>2. file[r] \in DOMAIN files
  <2>1. r \in Actors /\ pc[r] = "validated"
    BY DEF Actors, RestoreBackup
  <2>2. file[r] \in 0..Len(files) /\ file[r] # 0
    BY <2>1 DEF IInv, TypeOK, FileChosen
  <2>3. files \in Seq(File)
    BY DEF IInv, TypeOK
  <2> QED BY <2>2, <2>3
<1>3. f.rows \in Tables /\ f.of = f.rows /\ Sound(f.rows)
  <2>1. files \in Seq(File)
    BY DEF IInv, TypeOK
  <2>2. f \in File
    BY <1>2, <2>1
  <2> QED BY <1>2, <2>2 DEF IInv, FilesExact, RowsSound, File
<1>4. CASE UNCHANGED <<db, base, touched>>
  BY <1>1, <1>4, NoEdit
<1>5. CASE IsEmpty /\ db' = Inserted(f.rows) /\ base' = f.of /\ touched' = {}
  <2> HIDE DEF f
  <2>1. db = EmptyTables
    BY <1>5 DEF IsEmpty
  <2>2. db' \in Tables /\ Sound(db') /\ \A id \in AllIds : Content(db', id) = Content(f.rows, id)
    BY <1>3, <1>5, <2>1, Restored
  <2>3. Grows(db, db')
    BY <2>1, EmptyRows DEF Grows
  <2> QED BY <1>3, <1>5, <2>2, <2>3
<1> QED BY <1>4, <1>5 DEF RestoreBackup

----------------------------------------------------------------------------
(* The rows.                                                                *)

LEMMA EditKeeps ==
  ASSUME IInv, NEW ids, Edits(ids)
  PROVE  TablesOK' /\ Sound(db') /\ RestoreKept' /\ Grows(db, db')
<1>1. TablesOK'
  BY DEF Edits, IInv, TypeOK, TablesOK, AllIds
<1>2. RestoreKept'
  <2> SUFFICES ASSUME NEW id \in AllIds \ touched'
               PROVE  Content(db', id) = Content(base', id)
    BY DEF RestoreKept, AllIds
  <2>1. id \in AllIds \ ids /\ id \in AllIds \ touched
    BY DEF Edits
  <2>2. Content(db', id) = Content(db, id) /\ base' = base
    BY <2>1 DEF Edits
  <2>3. Content(db, id) = Content(base, id)
    BY <2>1 DEF IInv, RestoreKept, AllIds
  <2> QED BY <2>2, <2>3
<1> QED BY <1>1, <1>2 DEF Edits

LEMMA RowsStep ==
  ASSUME IInv, [Next]_vars
  PROVE  TablesOK' /\ Sound(db') /\ RestoreKept' /\ (wiped' \/ Grows(db, db'))
<1>1. db \in Tables /\ Sound(db)
  BY DEF IInv, TypeOK, RowsSound
<1>2. ASSUME NEW u \in UserIds, CreateUser(u)
      PROVE  \E ids : Edits(ids)
  BY <1>2, EditOfUser
<1>3. ASSUME NEW c \in CaIds, CreateCa(c) \/ FlipCa(c)
      PROVE  \E ids : Edits(ids)
  BY <1>3, EditOfCa, EditOfFlipCa
<1>4. ASSUME NEW x \in CertIds, FlipCert(x) \/ \E c \in CaIds : CreateCert(x, c)
      PROVE  \E ids : Edits(ids)
  BY <1>4, EditOfFlipCert, EditOfCert
<1>5. CASE NukeAll
  <2>1. db' = EmptyTables /\ base' = EmptyTables /\ touched' = {} /\ wiped'
    BY <1>5 DEF NukeAll
  <2> QED BY <2>1, EmptyRows DEF TablesOK, RestoreKept
<1>6. ASSUME NEW r \in Requests, RestoreBackup(r)
      PROVE  TablesOK' /\ Sound(db') /\ RestoreKept' /\ (wiped' \/ Grows(db, db'))
  <2>1. CASE Edits({})
    BY <2>1, EditKeeps
  <2>2. CASE /\ db' \in Tables /\ Sound(db') /\ Grows(db, db')
             /\ base' \in Tables /\ touched' = {}
             /\ \A id \in AllIds : Content(db', id) = Content(base', id)
    BY <2>2 DEF TablesOK, RestoreKept, AllIds
  <2> QED BY <1>6, <2>1, <2>2, RestoreStep
<1>7. ASSUME NEW a \in Actors, NEW id \in CaIds \cup CertIds, RepairRow(a, id)
      PROVE  \E ids : Edits(ids)
  BY <1>7, EditOfRepair
<1>8. CASE ImportCa \/ ImportCert
  BY <1>8, EditOfImportCa, EditOfImportCert, EditKeeps
<1>9. CASE UNCHANGED <<db, base, touched>>
  BY <1>1, <1>9, NoEdit, EditKeeps
<1>10. CASE UNCHANGED vars
  BY <1>9, <1>10 DEF vars, tables
<1>11. CASE ExportBackup \/ Crash \/ StartServer \/ StartImport \/ Look \/ LockCa \/ StopImport \/ LockExpires
  BY <1>9, <1>11 DEF ExportBackup, Crash, StartServer, StartImport, Look, LockCa, StopImport,
     LockExpires, tables
<1>12. ASSUME NEW r \in Requests, EndRestore(r) \/ \E i \in DOMAIN files : BeginRestore(r, i)
       PROVE  UNCHANGED <<db, base, touched>>
  BY <1>12 DEF EndRestore, BeginRestore, tables
<1>13. ASSUME NEW a \in Actors,
              \/ RepairList(a, "listing", "cas", CaIds) \/ RepairList(a, "cas", "certs", CertIds)
              \/ RepairList(a, "certs", "idle", {}) \/ RepairFails(a)
       PROVE  UNCHANGED <<db, base, touched>>
  BY <1>13 DEF RepairList, RepairFails, tables
<1> QED BY <1>2, <1>3, <1>4, <1>5, <1>6, <1>7, <1>8, <1>9, <1>10, <1>11, <1>12, <1>13, EditKeeps
        DEF Next, Admin, Restore, Repair, Import

----------------------------------------------------------------------------
(* The server.                                                              *)

ServerOK ==
    /\ files \in Seq(File)
    /\ pc \in [Actors -> {"idle", "validated", "listing", "cas", "certs", "refused", "failed"}]
    /\ file \in [Actors -> 0..Len(files)]
    /\ todo \in [Actors -> SUBSET (CaIds \cup CertIds)]
    /\ up \in BOOLEAN /\ unrepaired \in BOOLEAN
    /\ FileChosen /\ FilesExact
    /\ \A i \in DOMAIN files : Sound(files[i].rows)

LEMMA ServerHolds == IInv => ServerOK
BY DEF IInv, TypeOK, RowsSound, ServerOK

LEMMA ExportKeeps ==
  ASSUME IInv, ExportBackup
  PROVE  ServerOK'
<1> DEFINE new == [rows |-> db, of |-> db]
<1>1. new \in File /\ Sound(db)
  BY DEF IInv, TypeOK, RowsSound, File
<1>2. files' = Append(files, new) /\ UNCHANGED <<pc, file, todo, up, unrepaired>>
  BY DEF ExportBackup, Snapshot
<1>3. ServerOK
  BY ServerHolds
<1>4. files' \in Seq(File) /\ Len(files') = Len(files) + 1 /\ Len(files) \in Nat
  BY <1>1, <1>2, <1>3 DEF ServerOK
<1>5. \A i \in DOMAIN files' : (i \in DOMAIN files /\ files'[i] = files[i]) \/ files'[i] = new
  BY <1>1, <1>2, <1>3 DEF ServerOK
<1>6. FilesExact' /\ \A i \in DOMAIN files' : Sound(files'[i].rows)
  BY <1>1, <1>3, <1>5 DEF ServerOK, FilesExact
<1>7. file' \in [Actors -> 0..Len(files')]
  BY <1>2, <1>3, <1>4 DEF ServerOK
<1> QED BY <1>2, <1>3, <1>4, <1>6, <1>7 DEF ServerOK, FileChosen

LEMMA ServerStep ==
  ASSUME IInv, [Next]_vars
  PROVE  ServerOK'
<1>1. ServerOK
  BY ServerHolds
<1>2. 0 \in 0..Len(files) /\ \A i \in DOMAIN files : i \in 0..Len(files) /\ i # 0
  BY <1>1 DEF ServerOK
<1>3. CASE UNCHANGED server
  BY <1>1, <1>3 DEF ServerOK, server, FileChosen, FilesExact
<1>4. CASE UNCHANGED vars
  BY <1>3, <1>4 DEF vars
<1>5. CASE \/ \E u \in UserIds : CreateUser(u)
           \/ \E c \in CaIds : CreateCa(c) \/ FlipCa(c)
           \/ \E x \in CertIds : FlipCert(x) \/ (\E c \in CaIds : CreateCert(x, c))
           \/ NukeAll
  BY <1>3, <1>5, Zenon DEF CreateUser, CreateCa, FlipCa, FlipCert, CreateCert, NukeAll
<1>6. CASE StartImport \/ Import \/ StopImport \/ LockExpires
  BY <1>3, <1>6, Zenon DEF StartImport, Import, Look, ImportCa, LockCa, ImportCert, StopImport, LockExpires
<1>7. CASE ExportBackup
  BY <1>7, ExportKeeps
<1>8. ASSUME NEW r \in Requests, NEW i \in DOMAIN files, BeginRestore(r, i)
      PROVE  ServerOK'
  <2>1. file' = [file EXCEPT ![r] = i] /\ r \in Actors
        /\ pc' = [pc EXCEPT ![r] = IF ValidBackup(files[i].rows) THEN "validated" ELSE "refused"]
        /\ UNCHANGED <<files, todo, up, unrepaired>>
    BY <1>8 DEF BeginRestore, Actors
  <2>2. file' \in [Actors -> 0..Len(files')]
        /\ pc' \in [Actors -> {"idle", "validated", "listing", "cas", "certs", "refused", "failed"}]
    BY <1>1, <1>2, <2>1 DEF ServerOK
  <2>3. FileChosen'
    BY <1>1, <1>2, <2>1 DEF ServerOK, FileChosen
  <2> QED BY <1>1, <2>1, <2>2, <2>3 DEF ServerOK, FilesExact
<1>9. ASSUME NEW r \in Requests, RestoreBackup(r)
      PROVE  ServerOK'
  <2>1. \/ pc' = [pc EXCEPT ![r] = "listing"]
        \/ pc' = [pc EXCEPT ![r] = "failed"]
    BY <1>9 DEF RestoreBackup
  <2>2. UNCHANGED <<files, file, todo, up, unrepaired>>
    BY <1>9 DEF RestoreBackup
  <2> QED BY <1>1, <2>1, <2>2 DEF ServerOK, FileChosen, FilesExact
<1>10. ASSUME NEW r \in Requests, EndRestore(r)
       PROVE  ServerOK'
  <2>1. pc' = [pc EXCEPT ![r] = "idle"] /\ file' = [file EXCEPT ![r] = 0]
        /\ UNCHANGED <<files, todo, up, unrepaired>>
    BY <1>10 DEF EndRestore
  <2>2. file' \in [Actors -> 0..Len(files')]
    BY <1>1, <1>2, <2>1 DEF ServerOK
  <2>3. FileChosen'
    BY <1>1, <2>1 DEF ServerOK, FileChosen
  <2> QED BY <1>1, <2>1, <2>2, <2>3 DEF ServerOK, FilesExact
<1>11. ASSUME NEW a \in Actors, NEW from, NEW to, to \in {"idle", "cas", "certs"}, NEW ids,
              RepairList(a, from, to, ids)
       PROVE  ServerOK'
  <2>1. pc' = [pc EXCEPT ![a] = to] /\ todo' = [todo EXCEPT ![a] = Unchecked(db) \cap ids]
        /\ UNCHANGED <<files, file, up, unrepaired>>
    BY <1>11 DEF RepairList
  <2>2. Unchecked(db) \subseteq CaIds \cup CertIds
    BY DEF Unchecked
  <2> QED BY <1>1, <1>11, <2>1, <2>2 DEF ServerOK, FileChosen, FilesExact
<1>12. ASSUME NEW a \in Actors, NEW id \in CaIds \cup CertIds, RepairRow(a, id)
       PROVE  ServerOK'
  BY <1>1, <1>12 DEF ServerOK, FileChosen, FilesExact, RepairRow
<1>13. ASSUME NEW a \in Actors, RepairFails(a)
       PROVE  ServerOK'
  BY <1>1, <1>13 DEF ServerOK, FileChosen, FilesExact, RepairFails
<1>14. CASE Crash
  <2>1. file' \in [Actors -> 0..Len(files')] /\ todo' \in [Actors -> SUBSET (CaIds \cup CertIds)]
    BY <1>1, <1>2, <1>14 DEF ServerOK, Crash
  <2>2. /\ pc' \in [Actors -> {"idle", "validated", "listing", "cas", "certs", "refused", "failed"}]
        /\ \A a \in Actors : pc'[a] = "idle"
        /\ up' = FALSE /\ UNCHANGED <<files, unrepaired>>
    BY <1>14 DEF Crash
  <2> QED BY <1>1, <2>1, <2>2 DEF ServerOK, FileChosen, FilesExact
<1>15. CASE StartServer
  BY <1>1, <1>15 DEF ServerOK, FileChosen, FilesExact, StartServer, BootRepair
<1> QED BY <1>4, <1>5, <1>6, <1>7, <1>8, <1>9, <1>10, <1>11, <1>12, <1>13, <1>14, <1>15
        DEF Next, Admin, Restore, Repair

----------------------------------------------------------------------------
(* The importer.                                                            *)

ImporterOK ==
    /\ locked \subseteq CaIds
    /\ at \in 1..(Len(Items) + 1)
    /\ step \in {"off", "looking", "inserting", "locking", "holding", "reported"}
    /\ bad \in BOOLEAN /\ wiped \in BOOLEAN
    /\ Placed /\ Imported

LEMMA ImporterHolds == IInv => ImporterOK
BY DEF IInv, TypeOK, ImporterOK

\* What is in the database stays there until a nuke.
LEMMA StaysPresent ==
  ASSUME NEW t, NEW u, Grows(t, u), NEW i \in DOMAIN Items, Present(t, i)
  PROVE  Present(u, i)
BY ItemType DEF Present, Grows

\* The importer goes on: past an item that is in the database, or with a failure.
LEMMA GoesOn ==
  ASSUME ImporterOK, at \in DOMAIN Items, step # "off",
         wiped' = wiped, wiped \/ Grows(db, db'), locked' \subseteq CaIds,
         \/ Failed
         \/ Proceed(Following) /\ UNCHANGED bad /\ Present(db', at)
  PROVE  ImporterOK'
<1>1. NextCa \in 1..(Len(Items) + 1) /\ Following \in 1..(Len(Items) + 1)
  BY NextCaType, FollowingType
<1>2. CASE Failed
  BY <1>1, <1>2 DEF ImporterOK, Placed, Imported, Failed, Proceed
<1>3. CASE Proceed(Following) /\ UNCHANGED bad /\ Present(db', at)
  <2>1. at' = at + 1 /\ step' = "looking" /\ bad' = bad
    BY <1>3 DEF Proceed, Following
  <2>2. ASSUME ~bad, ~wiped, NEW i \in DOMAIN Items, i < at + 1
        PROVE  Present(db', i)
    <3>1. CASE i = at
      BY <1>3, <3>1
    <3>2. CASE i # at
      <4>1. i < at
        BY <2>2, <3>2, ItemsLen
      <4>2. Present(db, i)
        BY <2>2, <4>1 DEF ImporterOK, Imported
      <4> QED BY <2>2, <4>2, StaysPresent
    <3> QED BY <3>1, <3>2
  <2>3. Imported'
    BY <2>1, <2>2 DEF Imported
  <2>4. Placed'
    BY <2>1 DEF Placed
  <2>5. at' \in 1..(Len(Items) + 1)
    BY <1>1, <1>3 DEF Proceed
  <2> QED BY <2>1, <2>3, <2>4, <2>5 DEF ImporterOK
<1> QED BY <1>2, <1>3

\* The importer stays where it is.
LEMMA StaysAt ==
  ASSUME ImporterOK, UNCHANGED <<at, bad>>, locked' \subseteq CaIds,
         wiped' \in BOOLEAN, wiped => wiped', wiped' \/ Grows(db, db'),
         step' \in {"off", "looking", "inserting", "locking", "holding", "reported"},
         Placed', step = "off" => step' = "off"
  PROVE  ImporterOK'
<1>1. ASSUME step' # "off", ~bad', ~wiped', NEW i \in DOMAIN Items, i < at'
      PROVE  Present(db', i)
  <2>1. Present(db, i)
    BY <1>1 DEF ImporterOK, Imported
  <2> QED BY <1>1, <2>1, StaysPresent
<1> QED BY <1>1 DEF ImporterOK, Imported

LEMMA ImporterStep ==
  ASSUME IInv, [Next]_vars
  PROVE  ImporterOK'
<1>1. ImporterOK /\ (wiped' \/ Grows(db, db')) /\ Sound(db)
  BY ImporterHolds, RowsStep DEF IInv, RowsSound
<1>2. ASSUME UNCHANGED <<at, step, bad>>, locked' \subseteq CaIds,
             wiped' \in BOOLEAN, wiped => wiped'
      PROVE  ImporterOK'
  <2>1. Placed' /\ step' \in {"off", "looking", "inserting", "locking", "holding", "reported"}
    BY <1>1, <1>2 DEF ImporterOK, Placed, Item
  <2> QED BY <1>1, <1>2, <2>1, StaysAt
<1>3. CASE UNCHANGED <<importer, locked>>
  BY <1>1, <1>2, <1>3 DEF importer, ImporterOK
<1>4. CASE NukeAll
  BY <1>1, <1>2, <1>4 DEF NukeAll, ImporterOK
<1>5. CASE LockExpires
  BY <1>1, <1>2, <1>5 DEF LockExpires, ImporterOK, importer
<1>6. CASE StartImport
  <2>1. at' = 1 /\ step' = "looking" /\ bad' = FALSE /\ wiped' = FALSE /\ locked' = locked
    BY <1>6 DEF StartImport, tables
  <2>2. \A i \in DOMAIN Items : ~(i < 1)
    BY ItemsLen
  <2>3. Placed' /\ Imported'
    BY <2>1, <2>2 DEF Placed, Imported
  <2> QED BY <1>1, <2>1, <2>3, FirstItem DEF ImporterOK
<1>7. CASE StopImport
  <2>1. at' = 1 /\ step' = "off" /\ bad' = bad /\ wiped' = wiped /\ locked' = locked
    BY <1>7 DEF StopImport, tables
  <2>2. Placed' /\ Imported'
    BY <2>1 DEF Placed, Imported
  <2> QED BY <1>1, <2>1, <2>2, FirstItem DEF ImporterOK
<1>8. CASE Look
  <2>1. step = "looking" /\ UNCHANGED <<tables, wiped>>
    BY <1>8 DEF Look
  <2>2. db' = db /\ locked' = locked /\ Grows(db, db')
    BY <2>1 DEF tables, Grows
  <2>3. at <= Len(Items) => at \in DOMAIN Items
    BY <1>1, ItemsLen DEF ImporterOK
  <2>4. CASE at > Len(Items) /\ step' = "reported" /\ UNCHANGED <<at, bad>>
    <3>1. Placed'
      BY <2>4 DEF Placed
    <3> QED BY <1>1, <2>1, <2>2, <2>4, <3>1, StaysAt DEF ImporterOK
  <2>5. CASE at <= Len(Items) /\ ById /\ Proceed(AfterSkip) /\ UNCHANGED bad
    <3>1. at \in DOMAIN Items
      BY <2>3, <2>5
    <3>2. Present(db, at)
      BY <1>1, <2>5, <3>1 DEF ById, Item, Present, CaExists, CertExists, Sound, InPlace
    <3>3. Present(db', at)
      BY <2>2, <3>2
    <3> QED BY <1>1, <2>1, <2>2, <2>5, <3>1, <3>3, GoesOn DEF AfterSkip, ImporterOK
  <2>6. CASE /\ at <= Len(Items)
             /\ step' = IF Item.cert = None THEN "inserting" ELSE "locking"
             /\ UNCHANGED <<at, bad>>
    <3>1. Placed'
      BY <2>3, <2>6 DEF Placed, Item
    <3> QED BY <1>1, <2>1, <2>2, <2>6, <3>1, StaysAt DEF ImporterOK
  <2>7. CASE at <= Len(Items) /\ Failed
    BY <1>1, <2>1, <2>2, <2>3, <2>7, GoesOn DEF ImporterOK
  <2> QED BY <1>8, <2>4, <2>5, <2>6, <2>7 DEF Look
<1>9. CASE ImportCa
  <2>1. step = "inserting" /\ at \in DOMAIN Items /\ Item.cert = None /\ wiped' = wiped
    BY <1>1, <1>9 DEF ImportCa, ImporterOK, Placed
  <2>2. locked' = locked
    BY <1>9 DEF ImportCa, Touches, tables
  <2>3. wiped \/ Grows(db, db')
    BY <1>1, <2>1
  <2>4. CASE Failed
    BY <1>1, <2>1, <2>2, <2>3, <2>4, GoesOn DEF ImporterOK
  <2>5. CASE PutCa(Item.ca, NewCa) /\ Proceed(Following) /\ UNCHANGED bad
    <3>1. db' = WithCa(db, Item.ca, NewCa)
      BY <2>5 DEF PutCa, WithCa
    <3>2. Item.ca \in CaIds /\ NewCa \in CaRow /\ db \in Tables
      BY <2>1, ItemType DEF Item, NewCa, CaRow, IInv, TypeOK
    <3>3. db'.cas[Item.ca] # None
      BY <3>1, <3>2, CaPut
    <3>4. Present(db', at)
      BY <2>1, <3>3 DEF Present, Item
    <3> QED BY <1>1, <2>1, <2>2, <2>3, <2>5, <3>4, GoesOn DEF ImporterOK
  <2> QED BY <1>9, <2>4, <2>5 DEF ImportCa
<1>10. CASE LockCa
  <2>1. step = "locking" /\ at \in DOMAIN Items /\ Item.cert # None /\ wiped' = wiped
        /\ Item.ca \in CaIds
    BY <1>1, <1>10, ItemType DEF LockCa, ImporterOK, Placed, Item
  <2>2. wiped \/ Grows(db, db')
    BY <1>1, <2>1
  <2>3. CASE Failed /\ UNCHANGED tables
    <3>1. locked' = locked
      BY <2>3 DEF tables
    <3> QED BY <1>1, <2>1, <2>2, <2>3, <3>1, GoesOn DEF ImporterOK
  <2>4. CASE locked' = locked \cup {Item.ca} /\ step' = "holding" /\ UNCHANGED <<db, base, touched, at, bad>>
    <3>1. locked' \subseteq CaIds
      BY <1>1, <2>1, <2>4 DEF ImporterOK
    <3>2. Placed'
      BY <2>1, <2>4 DEF Placed, Item
    <3> QED BY <1>1, <2>1, <2>4, <3>1, <3>2, StaysAt DEF ImporterOK
  <2> QED BY <1>10, <2>3, <2>4 DEF LockCa
<1>11. CASE ImportCert
  <2>1. step = "holding" /\ at \in DOMAIN Items /\ Item.cert # None /\ wiped' = wiped
        /\ Item.ca \in CaIds /\ Item.cert \in CertIds
    BY <1>1, <1>11, ItemType DEF ImportCert, ImporterOK, Placed, Item
  <2>2. locked' \subseteq CaIds
    BY <1>1, <1>11 DEF ImportCert, ImporterOK
  <2>3. wiped \/ Grows(db, db')
    BY <1>1, <2>1
  <2>4. CASE Failed
    BY <1>1, <2>1, <2>2, <2>3, <2>4, GoesOn DEF ImporterOK
  <2>5. CASE PutCert(Item.cert, NewCert(Item.ca, 0)) /\ Proceed(Following) /\ UNCHANGED bad
    <3> DEFINE row == NewCert(Item.ca, 0)
    <3>1. db' = WithCert(db, Item.cert, row)
      BY <2>5 DEF PutCert, WithCert
    <3>2. row \in CertRow /\ row.ca = Item.ca /\ db \in Tables
      BY <2>1 DEF NewCert, CertRow, IInv, TypeOK
    <3> HIDE DEF row
    <3>3. db'.certs[Item.cert] = row /\ row # None
      BY <2>1, <3>1, <3>2, CertPut
    <3>4. Present(db', at)
      BY <2>1, <3>2, <3>3 DEF Present, Item
    <3> QED BY <1>1, <2>1, <2>2, <2>3, <2>5, <3>4, GoesOn DEF ImporterOK
  <2> QED BY <1>11, <2>4, <2>5 DEF ImportCert
<1>12. CASE UNCHANGED vars
  BY <1>3, <1>12 DEF vars, tables
<1>13. CASE \/ \E u \in UserIds : CreateUser(u)
            \/ \E c \in CaIds : CreateCa(c) \/ FlipCa(c)
            \/ \E x \in CertIds : FlipCert(x) \/ (\E c \in CaIds : CreateCert(x, c))
            \/ ExportBackup
            \/ \E r \in Requests : Restore(r)
            \/ \E a \in Actors : Repair(a) \/ RepairFails(a)
            \/ Crash \/ StartServer
  BY <1>3, <1>13, Zenon DEF CreateUser, CreateCa, FlipCa, FlipCert, CreateCert, ExportBackup,
     Restore, BeginRestore, RestoreBackup, EndRestore, Repair, RepairList, RepairRow,
     RepairFails, Crash, StartServer, Touches, tables
<1> QED BY <1>4, <1>5, <1>6, <1>7, <1>8, <1>9, <1>10, <1>11, <1>12, <1>13 DEF Next, Admin, Import

----------------------------------------------------------------------------
(* The bounds.                                                              *)

BoundsOK == ops \in 0..MaxOps /\ runs \in 0..MaxRuns /\ crashes \in 0..MaxCrashes

LEMMA BoundTypes == MaxOps \in Nat /\ MaxRuns \in Nat /\ MaxCrashes \in Nat
<1>1. {MaxOps, MaxRuns, MaxCrashes} \subseteq Nat
  BY BackupAssumption, Zenon DEF BackupAssumption
<1> QED BY <1>1

LEMMA BoundsStep ==
  ASSUME BoundsOK, [Next]_vars
  PROVE  BoundsOK'
<1>1. CASE UNCHANGED bounds
  BY <1>1 DEF bounds, BoundsOK
<1>2. CASE Operates
  BY <1>2, BoundTypes DEF Operates, BoundsOK
<1>3. CASE Crash
  BY <1>3, BoundTypes DEF Crash, BoundsOK
<1>4. CASE StartImport
  BY <1>4, BoundTypes DEF StartImport, BoundsOK
<1>5. CASE Admin \/ \E r \in Requests : \E i \in DOMAIN files : BeginRestore(r, i)
  BY <1>2, <1>5, Zenon DEF Admin, CreateUser, CreateCa, FlipCa, FlipCert, CreateCert, NukeAll,
     ExportBackup, BeginRestore
<1>6. CASE \/ UNCHANGED vars
           \/ \E r \in Requests : RestoreBackup(r) \/ EndRestore(r)
           \/ \E a \in Actors : Repair(a) \/ RepairFails(a)
           \/ StartServer \/ Import \/ StopImport \/ LockExpires
  BY <1>1, <1>6, Zenon DEF vars, RestoreBackup, EndRestore, Repair, RepairList, RepairRow,
     RepairFails, StartServer, Import, Look, ImportCa, LockCa, ImportCert, StopImport, LockExpires
<1> QED BY <1>3, <1>4, <1>5, <1>6 DEF Next, Restore

----------------------------------------------------------------------------
(* All steps.                                                               *)

LEMMA Parts ==
  IInv <=> /\ TablesOK /\ Sound(db) /\ RestoreKept
           /\ ServerOK /\ ImporterOK /\ BoundsOK
<1>1. TypeOK <=> /\ TablesOK
                 /\ files \in Seq(File)
                 /\ pc \in [Actors -> {"idle", "validated", "listing", "cas", "certs", "refused", "failed"}]
                 /\ file \in [Actors -> 0..Len(files)]
                 /\ todo \in [Actors -> SUBSET (CaIds \cup CertIds)]
                 /\ up \in BOOLEAN /\ unrepaired \in BOOLEAN
                 /\ locked \subseteq CaIds
                 /\ at \in 1..(Len(Items) + 1)
                 /\ step \in {"off", "looking", "inserting", "locking", "holding", "reported"}
                 /\ bad \in BOOLEAN /\ wiped \in BOOLEAN
                 /\ BoundsOK
  BY DEF TypeOK, TablesOK, BoundsOK, AllIds
<1> QED BY <1>1, Zenon DEF IInv, RowsSound, ServerOK, ImporterOK

LEMMA Invariant == Spec => []IInv
<1>1. Init => IInv
  <2> SUFFICES ASSUME Init
               PROVE  IInv
    OBVIOUS
  <2>1. Start \in Tables /\ Sound(Start)
    BY StartAssumption, Zenon DEF StartAssumption, Sound
  <2>2. TablesOK /\ Sound(db) /\ RestoreKept
    BY <2>1 DEF Init, TablesOK, RestoreKept
  <2>3. ServerOK
    <3>1. files = <<>> /\ files \in Seq(File) /\ Len(files) = 0 /\ DOMAIN files = {}
      BY DEF Init
    <3>2. file \in [Actors -> 0..Len(files)] /\ todo \in [Actors -> SUBSET (CaIds \cup CertIds)]
      BY <3>1 DEF Init
    <3>3. pc \in [Actors -> {"idle", "validated", "listing", "cas", "certs", "refused", "failed"}]
          /\ FileChosen /\ up \in BOOLEAN /\ unrepaired \in BOOLEAN
      BY DEF Init, FileChosen
    <3> QED BY <3>1, <3>2, <3>3 DEF ServerOK, FilesExact
  <2>4. ImporterOK
    <3>1. at = 1 /\ step = "off" /\ locked = {} /\ bad = FALSE /\ wiped = FALSE
      BY DEF Init
    <3>2. Placed /\ Imported
      BY <3>1 DEF Placed, Imported
    <3> QED BY <3>1, <3>2, FirstItem DEF ImporterOK
  <2>5. BoundsOK
    BY BoundTypes DEF Init, BoundsOK
  <2> QED BY <2>2, <2>3, <2>4, <2>5, Parts
<1>2. IInv /\ [Next]_vars => (TablesOK /\ Sound(db) /\ RestoreKept /\ ServerOK /\ ImporterOK /\ BoundsOK)'
  <2> SUFFICES ASSUME IInv, [Next]_vars
               PROVE  (TablesOK /\ Sound(db) /\ RestoreKept /\ ServerOK /\ ImporterOK /\ BoundsOK)'
    OBVIOUS
  <2>1. TablesOK' /\ Sound(db') /\ RestoreKept'
    BY RowsStep
  <2>2. ServerOK' /\ ImporterOK'
    BY ServerStep, ImporterStep
  <2>3. BoundsOK'
    BY BoundsStep, Parts
  <2> QED BY <2>1, <2>2, <2>3
<1> QED BY <1>1, <1>2, Parts, PTL DEF Spec

----------------------------------------------------------------------------
(* Theorems.                                                                *)

\* Rows, requests and the importer are what the program can have of them.
THEOREM Typing == Spec => []TypeOK
<1>1. IInv => TypeOK
  BY DEF IInv
<1> QED BY <1>1, Invariant, PTL

\* What was not changed since a restore, or a nuke, is as it was in the backup: a
\* restore is all or nothing, and what it brings back is one moment of the database
\* (db.rs, backup_snapshot and restore_backup).
THEOREM RestoresAll == Spec => []RestoreKept
<1>1. IInv => RestoreKept
  BY DEF IInv
<1> QED BY <1>1, Invariant, PTL

\* Serials of a CA stay apart, but for those of imported certificates, whatever is
\* created, restored and imported, and in whatever order (db.rs, insert_ca_row and insert_cert_with_state).
THEOREM SerialsStayApart == Spec => []SerialsApart
<1>1. IInv => SerialsApart
  BY DEF IInv, RowsSound, Sound, SerialsApart
<1> QED BY <1>1, Invariant, PTL

\* An import that reports no failure has everything in the database, however many
\* runs it took, and whatever requests did meanwhile, short of a nuke (legacy.rs,
\* import_tree).
THEOREM ImportsAll == Spec => []ImportComplete
<1>1. IInv => ImportComplete
  <2> SUFFICES ASSUME IInv, step = "reported", ~bad, ~wiped, NEW i \in DOMAIN Items
               PROVE  Present(db, i)
    BY DEF ImportComplete, Present, CaExists, CertExists
  <2>1. at > Len(Items) /\ at \in Nat
    BY ItemsLen DEF IInv, TypeOK, Placed
  <2>2. i < at
    BY <2>1, ItemsLen
  <2> QED BY <2>2 DEF IInv, Imported
<1> QED BY <1>1, Invariant, PTL

============================================================================
