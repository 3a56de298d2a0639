------------------------------ MODULE Templates ------------------------------
(***************************************************************************)
(* The form templates of the admin console (service.rs, db.rs, models.rs). *)
(* A template belongs on the form of CAs, of certificates or on both; the  *)
(* default one of a form fills it in.  A request looks for the name in one *)
(* database call and saves in another; saving a default takes the flag     *)
(* from the others in the same transaction.                                *)
(***************************************************************************)
CONSTANTS
  Requests,  \* HTTP requests
  Ids,       \* ids of templates
  Names,     \* names, as COLLATE NOCASE compares them
  Backups    \* templates of the backups that may be restored

VARIABLES
  templates,  \* the table
  pc,         \* where each request is
  draft       \* the template it is going to save

vars == <<templates, pc, draft>>

(* TemplateScope                                                            *)
Scopes == {"both", "ca", "certificate"}

Template == [id : Ids, name : Names, scope : Scopes, default : BOOLEAN]

NoDraft == [id |-> "none"]

Overlap(s, t) == s = "both" \/ t = "both" \/ s = t

NamesDiffer(table) == \A a, b \in table : (a.id = b.id \/ a.name = b.name) => a = b

OneDefaultIn(table) ==
  \A a, b \in table : (a.default /\ b.default /\ Overlap(a.scope, b.scope)) => a = b

(* Backups are those this program exports.                                  *)
ASSUME BackupsAssumption ==
  \A table \in Backups :
    table \subseteq Template /\ NamesDiffer(table) /\ OneDefaultIn(table)

Init ==
  /\ templates = {}
  /\ pc = [r \in Requests |-> "idle"]
  /\ draft = [r \in Requests |-> NoDraft]

Goto(r, to) == pc' = [pc EXCEPT ![r] = to]

End(r) == Goto(r, "idle") /\ draft' = [draft EXCEPT ![r] = NoDraft]

(* create_template: the id is a new UUID.                                   *)
BeginCreate(r) ==
  /\ pc[r] = "idle"
  /\ \E t \in Template :
       /\ \A other \in templates : other.id # t.id
       /\ \A q \in Requests : draft[q].id # t.id
       /\ draft' = [draft EXCEPT ![r] = t]
  /\ Goto(r, "creating")
  /\ UNCHANGED templates

(* update_template, get_template: the template exists.                      *)
BeginUpdate(r) ==
  /\ pc[r] = "idle"
  /\ \E t \in Template :
       /\ \E old \in templates : old.id = t.id
       /\ draft' = [draft EXCEPT ![r] = t]
  /\ Goto(r, "updating")
  /\ UNCHANGED templates

(* template_name_taken                                                      *)
Taken(t) == \E other \in templates : other.name = t.name /\ other.id # t.id

CheckName(r) ==
  /\ \/ pc[r] = "creating" /\ Goto(r, "inserting")
     \/ pc[r] = "updating" /\ Goto(r, "replacing")
  /\ ~Taken(draft[r])
  /\ UNCHANGED <<templates, draft>>

ClearSameScope(t) ==   \* mutant: only the same scope
  {IF t.default /\ other.id # t.id /\ other.scope = t.scope
   THEN [other EXCEPT !.default = FALSE] ELSE other : other \in templates}

(* save_template: a default takes the flag from those it overlaps.          *)
Cleared(t) ==
  {IF t.default /\ other.id # t.id /\ Overlap(other.scope, t.scope)
   THEN [other EXCEPT !.default = FALSE] ELSE other : other \in templates}

Store(r) ==
  /\ templates' = {other \in Cleared(draft[r]) : other.id # draft[r].id} \union {draft[r]}
  /\ End(r)

Exists(r) == \E other \in templates : other.id = draft[r].id

InsertUnchecked(r) ==   \* mutant: no unique index on names
  /\ pc[r] = "inserting"
  /\ ~Exists(r)
  /\ Store(r)

(* The primary key and the unique index on names refuse the row, and the    *)
(* transaction with it.                                                     *)
SaveNew(r) ==
  /\ pc[r] = "inserting"
  /\ ~Exists(r)
  /\ ~Taken(draft[r])
  /\ Store(r)

Replace(r) ==
  /\ pc[r] = "replacing"
  /\ ~Taken(draft[r])
  /\ Exists(r)
  /\ Store(r)

CommitBeforeCheck(r) ==   \* mutant: flags are cleared although the row is gone
  /\ pc[r] = "replacing"
  /\ ~Exists(r)
  /\ templates' = Cleared(draft[r])
  /\ End(r)

(* The name is taken, the template gone, or the values are refused.         *)
Refuse(r) ==
  /\ pc[r] # "idle"
  /\ End(r)
  /\ UNCHANGED templates

RefuseGone(r) == pc[r] = "replacing" /\ ~Exists(r) /\ Refuse(r)

Delete(t) ==
  /\ templates' = templates \ {t}
  /\ UNCHANGED <<pc, draft>>

NukeAll ==
  /\ templates' = {}
  /\ UNCHANGED <<pc, draft>>

(* restore_backup, into an empty database.                                  *)
RestoreBackup ==
  /\ templates = {}
  /\ templates' \in Backups
  /\ UNCHANGED <<pc, draft>>

Next ==
  \/ \E r \in Requests :
       \/ BeginCreate(r) \/ BeginUpdate(r) \/ CheckName(r)
       \/ SaveNew(r) \/ Replace(r) \/ RefuseGone(r) \/ Refuse(r)
  \/ \E t \in templates : Delete(t)
  \/ NukeAll
  \/ RestoreBackup

Spec == Init /\ [][Next]_vars

----------------------------------------------------------------------------
(* Every variable has its type.                                             *)
TypeOK ==
  /\ templates \subseteq Template
  /\ pc \in [Requests -> {"idle", "creating", "updating", "inserting", "replacing"}]
  /\ draft \in [Requests -> Template \union {NoDraft}]
  /\ \A r \in Requests : pc[r] = "idle" <=> draft[r] = NoDraft

(* "each form has at most one default" (save_template), a scope `both'      *)
(* counting for two, whatever requests save at once.                        *)
OneDefault == OneDefaultIn(templates)

(* Names are unique although the check and the insert are two calls.        *)
NamesUnique == NamesDiffer(templates)

(* A template loses the default flag of a form only to another default, by  *)
(* its own update, or by going itself: a save that fails takes nothing.     *)
DefaultHandedOver ==
  [][\A t \in templates : \A u \in templates' :
       (t.id = u.id /\ t.default /\ ~u.default) =>
         \/ \E new \in templates' :
              new.id # u.id /\ new.default /\ Overlap(new.scope, u.scope)
         \/ \E r \in Requests : pc[r] = "replacing" /\ draft[r] = u]_vars
=============================================================================
