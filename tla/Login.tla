-------------------------------- MODULE Login --------------------------------
(***************************************************************************)
(* Authentication (auth.rs) and the users of the admin console             *)
(* (service.rs, db.rs).  Every request authenticates: accounts of the      *)
(* configuration first, then the row of table users, each against the      *)
(* password, which bcrypt takes long to verify; so what was verified is    *)
(* cached for a while.  A request looks the account up, looks into the     *)
(* cache, verifies and fills the cache in separate steps, while admins     *)
(* change the table.  Database errors are not modelled.                    *)
(***************************************************************************)
EXTENDS Naturals, FiniteSets, Auth

CONSTANTS
  CacheMax,   \* LOGIN_CACHE_MAX (1024)
  CacheTtl,   \* LOGIN_CACHE_TTL (300 s), in ticks
  Horizon     \* bound on the clock

ASSUME LoginAssumption ==
  CacheMax \in Nat \ {0} /\ CacheTtl \in Nat /\ Horizon \in Nat

VARIABLES
  now,     \* the clock
  users,   \* the table users
  cache,   \* the login cache: when the entry of a key expires
  pc,      \* where each request is
  cred,    \* what it has presented
  mem      \* what it has read

vars == <<now, users, cache, pc, cred, mem>>

Pc == {"none", "asking", "trying", "hashing", "admin", "viewer", "refused", "naming"}

(* What a request holds: the accounts of the configuration it has still to  *)
(* try; the account it verifies, whether that is of the configuration, and  *)
(* when it looked into the cache; the account it creates.                   *)
Asking == [left : SUBSET ConfigUsers]

Trying == [left : SUBSET ConfigUsers, account : ConfigUsers, config : {TRUE}, at : Nat]
            \union [left : {{}}, account : Account, config : {FALSE}, at : Nat]

Naming == [account : Account]

NoMem == [left |-> {}]

(* The stored credential.  Each bcrypt hash has a salt of its own, for which *)
(* the id of the row stands; nothing but a change of the configuration file  *)
(* changes a config account.                                                 *)
Stored(a, config) == <<IF config THEN {} ELSE {a.id}, a.word>>

KeyByName(r) == <<cred[r].name, cred[r].word>>   \* mutant: no stored credential

(* The key hashed by verify_cached: username, stored credential, password.  *)
Key(r) == <<cred[r].name, Stored(mem[r].account, mem[r].config), cred[r].word>>

Init ==
  /\ now = 0
  /\ users \in {table \in Tables : \A a \in table : a.name \notin Reserved}
  /\ cache = [k \in {} |-> 0]
  /\ pc = [r \in Requests |-> "none"]
  /\ cred = [r \in Requests |-> NoCredential]
  /\ mem = [r \in Requests |-> NoMem]

----------------------------------------------------------------------------
Goto(r, to) == pc' = [pc EXCEPT ![r] = to]

(* A verdict; nothing that was read matters afterwards.                     *)
Conclude(r, verdict) == Goto(r, verdict) /\ mem' = [mem EXCEPT ![r] = NoMem]

(* The answer is sent.                                                      *)
End(r) == Conclude(r, "none") /\ cred' = [cred EXCEPT ![r] = NoCredential]

Begin(r) ==
  /\ pc[r] = "none"
  /\ \E c \in Credentials :
       /\ cred' = [cred EXCEPT ![r] = c]
       /\ mem' = [mem EXCEPT ![r] =
                    [left |-> {a \in ConfigUsers : a.name = c.name}]]
  /\ Goto(r, "asking")
  /\ UNCHANGED <<now, users, cache>>

(* authenticate_headers: "No local account is consulted".                   *)
AuthenticateHeaders(r) ==
  LET roles == HeaderRoles(cred[r])
  IN /\ pc[r] = "asking"
     /\ ByHeaders(cred[r])
     /\ IF roles = {} THEN Conclude(r, "refused")
        ELSE \E role \in roles : Conclude(r, role)
     /\ UNCHANGED <<now, users, cache, cred>>

(* authenticate_basic: the next account of the configuration of that name.  *)
TryConfigUser(r) ==
  /\ pc[r] = "asking"
  /\ ~ByHeaders(cred[r])
  /\ \E a \in mem[r].left :
       mem' = [mem EXCEPT ![r] = [left |-> mem[r].left \ {a}, account |-> a,
                                  config |-> TRUE, at |-> now]]
  /\ Goto(r, "trying")
  /\ UNCHANGED <<now, users, cache, cred>>

(* find_user: the row is read and the mutex let go.                         *)
FindUser(r) ==
  LET rows == {a \in users : a.name = cred[r].name}
  IN /\ pc[r] = "asking"
     /\ ~ByHeaders(cred[r])
     /\ mem[r].left = {}
     /\ \/ /\ rows = {}
           /\ Conclude(r, "refused")
        \/ \E a \in rows :
             /\ mem' = [mem EXCEPT ![r] = [left |-> {}, account |-> a,
                                           config |-> FALSE, at |-> now]]
             /\ Goto(r, "trying")
     /\ UNCHANGED <<now, users, cache, cred>>

(* verify_cached: an entry that has not expired admits.                     *)
Hit(r) == Key(r) \in DOMAIN cache /\ cache[Key(r)] > now

CacheHit(r) ==
  /\ pc[r] = "trying"
  /\ Hit(r)
  /\ Conclude(r, mem[r].account.role)
  /\ UNCHANGED <<now, users, cache, cred>>

CacheMiss(r) ==
  /\ pc[r] = "trying"
  /\ ~Hit(r)
  /\ mem' = [mem EXCEPT ![r].at = now]
  /\ Goto(r, "hashing")
  /\ UNCHANGED <<now, users, cache, cred>>

(* The cache at its limit: expired entries go, or, if none had, all.        *)
OnlyExpired(at) ==   \* mutant: the limit is not looked at again
  IF Cardinality(DOMAIN cache) < CacheMax THEN DOMAIN cache
  ELSE {k \in DOMAIN cache : cache[k] > at}

Kept(at) ==
  LET fresh == {k \in DOMAIN cache : cache[k] > at}
  IN IF Cardinality(DOMAIN cache) < CacheMax THEN DOMAIN cache
     ELSE IF Cardinality(fresh) < CacheMax THEN fresh
     ELSE {}

Remember(key, at) ==
  cache' = [k \in Kept(at) \union {key} |-> IF k = key THEN at + CacheTtl ELSE cache[k]]

VerifySucceeds(r) ==
  /\ pc[r] = "hashing"
  /\ Fits(mem[r].account, cred[r])
  /\ Remember(Key(r), mem[r].at)
  /\ Conclude(r, mem[r].account.role)
  /\ UNCHANGED <<now, users, cred>>

(* After an account of the configuration the loop goes on.                  *)
VerifyFails(r) ==
  /\ pc[r] = "hashing"
  /\ ~Fits(mem[r].account, cred[r])
  /\ IF mem[r].config
     THEN mem' = [mem EXCEPT ![r] = [left |-> mem[r].left]] /\ Goto(r, "asking")
     ELSE Conclude(r, "refused")
  /\ UNCHANGED <<now, users, cache, cred>>

----------------------------------------------------------------------------
(* What an admin does to the table; whoever is not refuses at require_admin. *)
ChangeUsers(r, table) ==
  /\ users' = table
  /\ End(r)
  /\ UNCHANGED <<now, cache>>

(* create_user: the name is looked up, the password hashed.                 *)
CheckName(r) ==
  /\ pc[r] = "admin"
  /\ \E a \in Account :
       /\ a.name \notin Reserved
       /\ \A b \in users : b.name # a.name
       /\ mem' = [mem EXCEPT ![r] = [account |-> a]]
  /\ Goto(r, "naming")
  /\ UNCHANGED <<now, users, cache, cred>>

(* insert_user: the column is UNIQUE, the id a new UUID.                    *)
InsertUnchecked(r) ==   \* mutant: the column is not UNIQUE
  /\ pc[r] = "naming"
  /\ \A b \in users : b.id # mem[r].account.id
  /\ ChangeUsers(r, users \union {mem[r].account})

InsertUser(r) ==
  /\ pc[r] = "naming"
  /\ \A b \in users : b.name # mem[r].account.name /\ b.id # mem[r].account.id
  /\ ChangeUsers(r, users \union {mem[r].account})

DeleteUser(r) == pc[r] = "admin" /\ \E a \in users : ChangeUsers(r, users \ {a})

NukeAll(r) == pc[r] = "admin" /\ ChangeUsers(r, {})

(* import_backup_yaml, restore_backup: into an empty database only.         *)
RestoreBackup(r) ==
  /\ pc[r] = "admin"
  /\ users = {}
  /\ \E table \in Tables : ChangeUsers(r, table)

(* The request is answered: refused, served, or its operation failed.       *)
Answer(r) ==
  /\ pc[r] \in {"admin", "viewer", "refused", "naming"}
  /\ End(r)
  /\ UNCHANGED <<now, users, cache>>

(* A restart of the process: the table is all that is left.                 *)
Restart ==
  /\ cache' = [k \in {} |-> 0]
  /\ pc' = [r \in Requests |-> "none"]
  /\ mem' = [r \in Requests |-> NoMem]
  /\ cred' = [r \in Requests |-> NoCredential]
  /\ UNCHANGED <<now, users>>

Tick ==
  /\ now < Horizon
  /\ now' = now + 1
  /\ UNCHANGED <<users, cache, pc, cred, mem>>

Authenticate(r) ==
  \/ Begin(r) \/ AuthenticateHeaders(r) \/ TryConfigUser(r) \/ FindUser(r)
  \/ CacheHit(r) \/ CacheMiss(r) \/ VerifySucceeds(r) \/ VerifyFails(r)

Administer(r) ==
  \/ CheckName(r) \/ InsertUser(r) \/ DeleteUser(r) \/ NukeAll(r) \/ RestoreBackup(r)

Next ==
  \/ \E r \in Requests : Authenticate(r) \/ Administer(r) \/ Answer(r)
  \/ Restart
  \/ Tick

Spec == Init /\ [][Next]_vars

----------------------------------------------------------------------------
Keys == Names \X ((SUBSET Ids) \X Words) \X Words

MemOK(r) ==
  /\ pc[r] \in {"trying", "hashing"} => mem[r] \in Trying
  /\ pc[r] = "naming" => mem[r] \in Naming
  /\ pc[r] \notin {"trying", "hashing", "naming"} => mem[r] \in Asking

(* Every variable has its type; what a request has read fits where it is.   *)
TypeOK ==
  /\ now \in Nat
  /\ users \subseteq Account
  /\ DOMAIN cache \subseteq Keys
  /\ \A k \in DOMAIN cache : cache[k] \in Nat
  /\ pc \in [Requests -> Pc]
  /\ cred \in [Requests -> Credentials \union {NoCredential}]
  /\ \A r \in Requests : pc[r] # "none" => cred[r] \in Credentials
  /\ mem \in [Requests -> Asking \union Trying \union Naming]
  /\ \A r \in Requests : MemOK(r)

(* LOGIN_CACHE_MAX bounds the login cache, whatever requests fill it at once *)
(* and whatever has expired.                                                *)
CacheBounded == Cardinality(DOMAIN cache) <= CacheMax

(* No two users of the table have the same name, although create_user looks *)
(* for the name and inserts the row with a bcrypt hash in between.          *)
NamesUnique == UniqueNames(users)

(* A request is decided when it looks up the account that decides it.       *)
Access(r) ==
  IF pc[r] \in {"trying", "hashing"}
  THEN IF mem[r].config THEN "asking"
       ELSE IF Fits(mem[r].account, cred[r]) THEN mem[r].account.role
       ELSE "refused"
  ELSE IF pc[r] = "naming" THEN "admin"
  ELSE pc[r]

Promise == INSTANCE Accounts WITH access <- [r \in Requests |-> Access(r)]

(* Authentication is atomic: whatever the cache holds and whoever changes   *)
(* the table meanwhile, a request gets the role that the accounts at the    *)
(* moment of its lookup give it ("deleted users and role changes take       *)
(* effect at once"), a right password is never refused, and only admins     *)
(* change the table, one whole operation at a time.                         *)
DecidedAtLookup == Promise!AccountsSpec
=============================================================================
