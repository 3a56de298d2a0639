----------------------------- MODULE LoginProofs -----------------------------
(***************************************************************************)
(* The cache is bounded, names are unique, and Login implements Accounts,  *)
(* for all accounts, credentials and requests.                             *)
(*                                                                         *)
(* The invariant says of the cache that what it holds has been verified    *)
(* (the password of a key is the one its stored credential was made from), *)
(* and of a request that the accounts of the configuration it has given up *)
(* do not fit.  Neither mentions the table: the table changes freely.      *)
(***************************************************************************)
EXTENDS Login, FiniteSetTheorems, TLAPS

CacheOK ==
  /\ DOMAIN cache \subseteq Keys
  /\ cache = [k \in DOMAIN cache |-> cache[k]]
  /\ \A k \in DOMAIN cache : cache[k] \in Nat
  /\ \A k \in DOMAIN cache : k[3] = k[2][2]
  /\ IsFiniteSet(DOMAIN cache)
  /\ Cardinality(DOMAIN cache) <= CacheMax

TableOK == users \subseteq Account /\ UniqueNames(users)

Shape ==
  /\ now \in Nat
  /\ pc \in [Requests -> Pc]
  /\ cred \in [Requests -> Credentials \union {NoCredential}]
  /\ mem \in [Requests -> Asking \union Trying \union Naming]

(* An account of the configuration that has been tried does not fit.        *)
Open(r) ==
  mem[r].left \union (IF pc[r] \in {"trying", "hashing"} /\ mem[r].config
                      THEN {mem[r].account} ELSE {})

ReqOK(r) ==
  /\ MemOK(r)
  /\ pc[r] # "none" => cred[r] \in Credentials
  /\ pc[r] \in {"asking", "trying", "hashing"} =>
       \A a \in ConfigUsers : Fits(a, cred[r]) => a \in Open(r)
  /\ pc[r] \in {"asking", "trying", "hashing"} =>
       \A a \in mem[r].left : a.name = cred[r].name
  /\ pc[r] = "naming" => mem[r].account.name \notin Reserved
  /\ pc[r] \in {"trying", "hashing"} =>
       ~ByHeaders(cred[r]) /\ mem[r].account.name = cred[r].name

IInv ==
  /\ Shape
  /\ TableOK
  /\ CacheOK
  /\ \A r \in Requests : ReqOK(r)

(* A request is not disturbed by the steps of others.                       *)
LEMMA Frame ==
  ASSUME NEW r \in Requests, ReqOK(r),
         pc'[r] = pc[r], cred'[r] = cred[r], mem'[r] = mem[r]
  PROVE  ReqOK(r)'
BY DEF ReqOK, MemOK, Open, ByHeaders, Fits

(* The initial states.                                                      *)
LEMMA Initially == Init => IInv
<1> SUFFICES ASSUME Init PROVE IInv
  OBVIOUS
<1> USE DEF Init, NoMem
<1>1. Shape
  BY DEF Shape, Pc, Asking
<1>2. TableOK
  BY AccountsAssumption DEF TableOK
<1>3. CacheOK
  <2>1. DOMAIN cache = {}
    OBVIOUS
  <2>2. IsFiniteSet({}) /\ Cardinality({}) = 0
    BY FS_EmptySet
  <2> QED
    BY <2>1, <2>2, LoginAssumption DEF CacheOK
<1>4. ASSUME NEW r \in Requests PROVE ReqOK(r)
  BY DEF ReqOK, MemOK, Asking
<1> QED
  BY <1>1, <1>2, <1>3, <1>4 DEF IInv

(* What is forgotten makes room.                                            *)
LEMMA Room ==
  ASSUME CacheOK, NEW at \in Nat
  PROVE  /\ Kept(at) \subseteq DOMAIN cache
         /\ IsFiniteSet(Kept(at))
         /\ Cardinality(Kept(at)) < CacheMax
<1> DEFINE fresh == {k \in DOMAIN cache : cache[k] > at}
<1>1. IsFiniteSet(DOMAIN cache)
  BY DEF CacheOK
<1>2. Kept(at) \in {DOMAIN cache, fresh, {}}
  BY DEF Kept
<1>3. Kept(at) \subseteq DOMAIN cache
  BY <1>2
<1>4. IsFiniteSet(Kept(at))
  BY <1>1, <1>3, FS_Subset
<1>5. Cardinality({}) < CacheMax
  BY FS_EmptySet, LoginAssumption
<1>6. Cardinality(Kept(at)) < CacheMax
  BY <1>5 DEF Kept
<1> QED
  BY <1>3, <1>4, <1>6

(* The cache stays bounded and sound when a verified key is added.          *)
LEMMA Remembered ==
  ASSUME CacheOK, NEW at \in Nat, NEW key \in Keys, key[3] = key[2][2],
         Remember(key, at)
  PROVE  CacheOK'
<1>1. Kept(at) \subseteq DOMAIN cache /\ IsFiniteSet(Kept(at))
        /\ Cardinality(Kept(at)) < CacheMax
  BY Room
<1> DEFINE D == Kept(at) \union {key}
<1> HIDE DEF D
<1>2. IsFiniteSet(D)
  BY <1>1, FS_AddElement DEF D
<1>3. Cardinality(D) = Cardinality(Kept(at)) \/ Cardinality(D) = Cardinality(Kept(at)) + 1
  BY <1>1, FS_AddElement DEF D
<1>4. Cardinality(D) <= CacheMax
  <2>1. Cardinality(Kept(at)) \in Nat
    BY <1>1, FS_CardinalityType
  <2> QED
    BY <1>1, <1>3, <2>1, LoginAssumption
<1>5. DOMAIN cache' = D
  BY DEF Remember, D
<1>6. at + CacheTtl \in Nat
  BY LoginAssumption
<1>7. \A k \in D : cache'[k] = IF k = key THEN at + CacheTtl ELSE cache[k]
  BY DEF Remember, D
<1>8. cache' = [k \in D |-> cache'[k]]
  BY <1>5, <1>7 DEF Remember, D
<1>9. \A k \in D : k \in Keys /\ k[3] = k[2][2] /\ cache'[k] \in Nat
  BY <1>1, <1>6, <1>7 DEF CacheOK, D
<1> QED
  BY <1>5, <1>2, <1>4, <1>8, <1>9 DEF CacheOK

(* A step of one request disturbs what it writes and no other request.      *)
LEMMA Moved ==
  ASSUME IInv, NEW r \in Requests, Shape', TableOK', CacheOK', ReqOK(r)',
         \A q \in Requests \ {r} :
           pc'[q] = pc[q] /\ cred'[q] = cred[q] /\ mem'[q] = mem[q]
  PROVE  IInv'
<1>1. ASSUME NEW q \in Requests, q # r PROVE ReqOK(q)'
  <2>1. ReqOK(q)
    BY DEF IInv
  <2>2. pc'[q] = pc[q] /\ cred'[q] = cred[q] /\ mem'[q] = mem[q]
    BY <1>1
  <2> QED
    BY <2>1, <2>2, Frame
<1> QED
  BY <1>1 DEF IInv

Verdicts == {"none", "admin", "viewer", "refused"}

LEMMA Concluded ==
  ASSUME IInv, NEW r \in Requests, NEW verdict \in Verdicts, Conclude(r, verdict),
         \/ verdict # "none" /\ pc[r] # "none" /\ cred' = cred
         \/ verdict = "none" /\ cred' = [cred EXCEPT ![r] = NoCredential],
         now' \in Nat, TableOK', CacheOK'
  PROVE  IInv'
<1> USE DEF Conclude, Goto, NoMem
<1>0. Shape /\ ReqOK(r)
  BY DEF IInv
<1>1. Shape'
  BY <1>0 DEF Shape, Pc, Verdicts, Asking
<1>2. pc'[r] = verdict /\ mem'[r] = NoMem /\ (verdict # "none" => cred'[r] = cred[r])
  BY <1>0 DEF Shape
<1>3. ReqOK(r)'
  BY <1>0, <1>2 DEF ReqOK, MemOK, Asking, Verdicts
<1>4. \A q \in Requests \ {r} :
        pc'[q] = pc[q] /\ cred'[q] = cred[q] /\ mem'[q] = mem[q]
  BY <1>0 DEF Shape
<1> QED
  BY <1>1, <1>3, <1>4, Moved

(* Neither the table nor the cache changes while a request is authenticated. *)
LEMMA Untouched == (IInv /\ UNCHANGED <<users, cache>>) => TableOK' /\ CacheOK'
BY DEF IInv, TableOK, CacheOK

LEMMA BeginStep == ASSUME IInv, NEW r \in Requests, Begin(r) PROVE IInv'
<1> USE DEF Begin, Goto
<1>0. Shape /\ ReqOK(r)
  BY DEF IInv
<1>1. PICK c \in Credentials :
        /\ cred' = [cred EXCEPT ![r] = c]
        /\ mem' = [mem EXCEPT ![r] = [left |-> {a \in ConfigUsers : a.name = c.name}]]
  OBVIOUS
<1>2. Shape'
  BY <1>0, <1>1 DEF Shape, Pc, Asking
<1>3. /\ pc'[r] = "asking" /\ cred'[r] = c
      /\ mem'[r] = [left |-> {a \in ConfigUsers : a.name = c.name}]
  BY <1>0, <1>1 DEF Shape
<1>4. ReqOK(r)'
  BY <1>3 DEF ReqOK, MemOK, Asking, Open, Fits
<1>5. \A q \in Requests \ {r} :
        pc'[q] = pc[q] /\ cred'[q] = cred[q] /\ mem'[q] = mem[q]
  BY <1>0, <1>1 DEF Shape
<1> QED
  BY <1>2, <1>4, <1>5, Untouched, Moved

LEMMA HeadersStep ==
  ASSUME IInv, NEW r \in Requests, AuthenticateHeaders(r) PROVE IInv'
<1>1. PICK verdict \in Verdicts \ {"none"} : Conclude(r, verdict)
  BY DEF AuthenticateHeaders, HeaderRoles, RoleForGroups, Verdicts
<1>2. pc[r] # "none" /\ now' \in Nat /\ cred' = cred
  BY DEF AuthenticateHeaders, IInv, Shape
<1>3. TableOK' /\ CacheOK'
  BY Untouched DEF AuthenticateHeaders
<1> QED
  BY <1>1, <1>2, <1>3, Concluded

LEMMA TryConfigStep ==
  ASSUME IInv, NEW r \in Requests, TryConfigUser(r) PROVE IInv'
<1> USE DEF TryConfigUser, Goto
<1>0. Shape /\ ReqOK(r)
  BY DEF IInv
<1>1. PICK a \in mem[r].left :
        mem' = [mem EXCEPT ![r] = [left |-> mem[r].left \ {a}, account |-> a,
                                   config |-> TRUE, at |-> now]]
  OBVIOUS
<1>2. mem[r].left \subseteq ConfigUsers
  BY <1>0 DEF ReqOK, MemOK, Asking
<1>3. [left |-> mem[r].left \ {a}, account |-> a, config |-> TRUE, at |-> now] \in Trying
  BY <1>0, <1>1, <1>2 DEF Trying, Shape
<1>4. Shape'
  BY <1>0, <1>1, <1>3 DEF Shape, Pc
<1>5. /\ pc'[r] = "trying" /\ cred'[r] = cred[r]
      /\ mem'[r] = [left |-> mem[r].left \ {a}, account |-> a, config |-> TRUE, at |-> now]
  BY <1>0, <1>1 DEF Shape
<1>6. a.name = cred[r].name
  BY <1>0, <1>1 DEF ReqOK
<1>7. ReqOK(r)'
  BY <1>0, <1>3, <1>5, <1>6 DEF ReqOK, MemOK, Open, ByHeaders, Fits
<1>8. \A q \in Requests \ {r} :
        pc'[q] = pc[q] /\ cred'[q] = cred[q] /\ mem'[q] = mem[q]
  BY <1>0, <1>1 DEF Shape
<1> QED
  BY <1>4, <1>7, <1>8, Untouched, Moved

LEMMA FindUserStep ==
  ASSUME IInv, NEW r \in Requests, FindUser(r) PROVE IInv'
<1> USE DEF FindUser
<1>0. Shape /\ ReqOK(r) /\ TableOK
  BY DEF IInv
<1>1. CASE Conclude(r, "refused")
  BY <1>0, <1>1, Untouched, Concluded DEF Shape, Verdicts
<1>2. ASSUME NEW a \in users, a.name = cred[r].name, Goto(r, "trying"),
             mem' = [mem EXCEPT ![r] = [left |-> {}, account |-> a,
                                        config |-> FALSE, at |-> now]]
      PROVE  IInv'
  <2> USE DEF Goto
  <2>1. [left |-> {}, account |-> a, config |-> FALSE, at |-> now] \in Trying
    BY <1>0 DEF Trying, Shape, TableOK
  <2>2. Shape'
    BY <1>0, <1>2, <2>1 DEF Shape, Pc
  <2>3. /\ pc'[r] = "trying" /\ cred'[r] = cred[r]
        /\ mem'[r] = [left |-> {}, account |-> a, config |-> FALSE, at |-> now]
    BY <1>0, <1>2 DEF Shape
  <2>4. ReqOK(r)'
    BY <1>0, <1>2, <2>1, <2>3 DEF ReqOK, MemOK, Open, ByHeaders, Fits
  <2>5. \A q \in Requests \ {r} :
          pc'[q] = pc[q] /\ cred'[q] = cred[q] /\ mem'[q] = mem[q]
    BY <1>0, <1>2 DEF Shape
  <2> QED
    BY <2>2, <2>4, <2>5, Untouched, Moved
<1> QED
  BY <1>1, <1>2

(* What a request that tries an account knows of it.                        *)
LEMMA Attempt ==
  ASSUME IInv, NEW r \in Requests, pc[r] \in {"trying", "hashing"}
  PROVE  /\ mem[r] \in Trying /\ mem[r].at \in Nat
         /\ mem[r].account.role \in Roles /\ mem[r].account.word \in Words
         /\ mem[r].account.name = cred[r].name
         /\ cred[r] \in Credential
         /\ Key(r) \in Keys
<1>1. mem[r] \in Trying /\ cred[r] \in Credentials /\ mem[r].account.name = cred[r].name
  BY DEF IInv, ReqOK, MemOK
<1>2. cred[r] \in Credential
  BY <1>1, AccountsAssumption
<1>3. CASE mem[r].config
  <2>1. mem[r].account \in ConfigAccount /\ mem[r].at \in Nat
    BY <1>1, <1>3, AccountsAssumption DEF Trying
  <2> QED
    BY <1>1, <1>2, <1>3, <2>1 DEF ConfigAccount, Credential, Key, Keys, Stored
<1>4. CASE ~mem[r].config
  <2>1. mem[r].account \in Account /\ mem[r].at \in Nat
    BY <1>1, <1>4 DEF Trying
  <2> QED
    BY <1>1, <1>2, <1>4, <2>1 DEF Account, Credential, Key, Keys, Stored
<1> QED
  BY <1>3, <1>4

LEMMA CacheHitStep ==
  ASSUME IInv, NEW r \in Requests, CacheHit(r) PROVE IInv'
<1>1. mem[r].account.role \in Verdicts \ {"none"}
  BY Attempt DEF CacheHit, Verdicts, Roles
<1>2. pc[r] # "none" /\ now' \in Nat /\ cred' = cred
  BY DEF CacheHit, IInv, Shape
<1>3. TableOK' /\ CacheOK'
  BY Untouched DEF CacheHit
<1> QED
  BY <1>1, <1>2, <1>3, Concluded DEF CacheHit

LEMMA CacheMissStep ==
  ASSUME IInv, NEW r \in Requests, CacheMiss(r) PROVE IInv'
<1> USE DEF CacheMiss, Goto
<1>0. Shape /\ ReqOK(r)
  BY DEF IInv
<1>1. mem[r] \in Trying
  BY Attempt
<1>2. [mem[r] EXCEPT !.at = now] \in Trying
  BY <1>0, <1>1 DEF Trying, Shape
<1>3. pc'[r] = "hashing" /\ cred'[r] = cred[r] /\ mem'[r] = [mem[r] EXCEPT !.at = now]
  BY <1>0 DEF Shape
<1>4. Shape'
  BY <1>0, <1>2 DEF Shape, Pc
<1>5. /\ mem'[r].left = mem[r].left /\ mem'[r].account = mem[r].account
      /\ mem'[r].config = mem[r].config
  BY <1>1, <1>3 DEF Trying
<1>6. ReqOK(r)'
  BY <1>0, <1>2, <1>3, <1>5 DEF ReqOK, MemOK, Open, ByHeaders, Fits
<1>7. \A q \in Requests \ {r} :
        pc'[q] = pc[q] /\ cred'[q] = cred[q] /\ mem'[q] = mem[q]
  BY <1>0 DEF Shape
<1> QED
  BY <1>4, <1>6, <1>7, Untouched, Moved

LEMMA VerifySucceedsStep ==
  ASSUME IInv, NEW r \in Requests, VerifySucceeds(r) PROVE IInv'
<1> USE DEF VerifySucceeds
<1>1. mem[r].account.role \in Verdicts \ {"none"} /\ mem[r].at \in Nat /\ Key(r) \in Keys
  BY Attempt DEF Verdicts, Roles
<1>2. Key(r)[3] = Key(r)[2][2]
  BY DEF Key, Stored, Fits
<1>3. CacheOK'
  BY <1>1, <1>2, Remembered DEF IInv
<1>4. TableOK' /\ now' \in Nat /\ cred' = cred
  BY DEF IInv, TableOK, Shape
<1> QED
  BY <1>1, <1>3, <1>4, Concluded

LEMMA VerifyFailsStep ==
  ASSUME IInv, NEW r \in Requests, VerifyFails(r) PROVE IInv'
<1> USE DEF VerifyFails
<1>0. Shape /\ ReqOK(r)
  BY DEF IInv
<1>1. CASE ~mem[r].config
  BY <1>0, <1>1, Untouched, Concluded DEF Shape, Verdicts
<1>2. CASE mem[r].config
  <2> USE DEF Goto
  <2>1. [left |-> mem[r].left] \in Asking
    BY Attempt DEF Asking, Trying
  <2>2. Shape'
    BY <1>0, <1>2, <2>1 DEF Shape, Pc
  <2>3. /\ pc'[r] = "asking" /\ cred'[r] = cred[r]
        /\ mem'[r] = [left |-> mem[r].left]
    BY <1>0, <1>2 DEF Shape
  <2>4. ReqOK(r)'
    BY <1>0, <1>2, <2>1, <2>3 DEF ReqOK, MemOK, Open, ByHeaders, Fits
  <2>5. \A q \in Requests \ {r} :
          pc'[q] = pc[q] /\ cred'[q] = cred[q] /\ mem'[q] = mem[q]
    BY <1>0, <1>2 DEF Shape
  <2> QED
    BY <2>2, <2>4, <2>5, Untouched, Moved
<1> QED
  BY <1>1, <1>2

(* The operations of admins leave a table of distinct names.                *)
LEMMA Changed ==
  ASSUME IInv, NEW r \in Requests, NEW table, ChangeUsers(r, table),
         table \subseteq Account, UniqueNames(table)
  PROVE  IInv'
<1>1. TableOK' /\ CacheOK' /\ now' \in Nat
  BY DEF ChangeUsers, TableOK, UniqueNames, IInv, CacheOK, Shape
<1> QED
  BY <1>1, Concluded DEF ChangeUsers, End, Verdicts

LEMMA CheckNameStep ==
  ASSUME IInv, NEW r \in Requests, CheckName(r) PROVE IInv'
<1> USE DEF CheckName, Goto
<1>0. Shape /\ ReqOK(r)
  BY DEF IInv
<1>1. PICK a \in Account :
        a.name \notin Reserved /\ mem' = [mem EXCEPT ![r] = [account |-> a]]
  OBVIOUS
<1>2. Shape'
  BY <1>0, <1>1 DEF Shape, Pc, Naming
<1>3. pc'[r] = "naming" /\ cred'[r] = cred[r] /\ mem'[r] = [account |-> a]
  BY <1>0, <1>1 DEF Shape
<1>4. ReqOK(r)'
  BY <1>0, <1>1, <1>3 DEF ReqOK, MemOK, Naming, Reserved
<1>5. \A q \in Requests \ {r} :
        pc'[q] = pc[q] /\ cred'[q] = cred[q] /\ mem'[q] = mem[q]
  BY <1>0, <1>1 DEF Shape
<1> QED
  BY <1>2, <1>4, <1>5, Untouched, Moved

LEMMA InsertUserStep ==
  ASSUME IInv, NEW r \in Requests, InsertUser(r) PROVE IInv'
<1> USE DEF InsertUser
<1>1. mem[r].account \in Account
  BY DEF IInv, ReqOK, MemOK, Naming
<1>2. users \subseteq Account /\ UniqueNames(users)
  BY DEF IInv, TableOK
<1>3. UniqueNames(users \union {mem[r].account})
  BY <1>2 DEF UniqueNames
<1> QED
  BY <1>1, <1>2, <1>3, Changed

LEMMA AdministerStep ==
  ASSUME IInv, NEW r \in Requests, Administer(r) PROVE IInv'
<1>0. users \subseteq Account /\ UniqueNames(users)
  BY DEF IInv, TableOK
<1>1. CASE CheckName(r)
  BY <1>1, CheckNameStep
<1>2. CASE InsertUser(r)
  BY <1>2, InsertUserStep
<1>3. CASE DeleteUser(r)
  <2>1. PICK a \in users : ChangeUsers(r, users \ {a})
    BY <1>3 DEF DeleteUser
  <2>2. UniqueNames(users \ {a})
    BY <1>0 DEF UniqueNames
  <2> QED
    BY <1>0, <2>1, <2>2, Changed
<1>4. CASE NukeAll(r)
  BY <1>4, Changed DEF NukeAll, UniqueNames
<1>5. CASE RestoreBackup(r)
  BY <1>5, Changed, AccountsAssumption DEF RestoreBackup
<1> QED
  BY <1>1, <1>2, <1>3, <1>4, <1>5 DEF Administer

LEMMA AnswerStep ==
  ASSUME IInv, NEW r \in Requests, Answer(r) PROVE IInv'
<1>1. now' \in Nat /\ TableOK' /\ CacheOK'
  BY Untouched DEF Answer, IInv, Shape
<1> QED
  BY <1>1, Concluded DEF Answer, End, Verdicts

LEMMA RestartStep == ASSUME IInv, Restart PROVE IInv'
<1> USE DEF Restart, NoMem
<1>1. Shape'
  BY DEF IInv, Shape, Pc, Asking
<1>2. TableOK'
  BY DEF IInv, TableOK
<1>3. CacheOK'
  <2>1. DOMAIN cache' = {}
    OBVIOUS
  <2>2. IsFiniteSet({}) /\ Cardinality({}) = 0
    BY FS_EmptySet
  <2> QED
    BY <2>1, <2>2, LoginAssumption DEF CacheOK
<1>4. ASSUME NEW r \in Requests PROVE ReqOK(r)'
  BY DEF ReqOK, MemOK, Asking
<1> QED
  BY <1>1, <1>2, <1>3, <1>4 DEF IInv

LEMMA IdleStep ==
  ASSUME IInv, now' \in Nat, UNCHANGED <<users, cache, pc, cred, mem>> PROVE IInv'
<1>1. Shape' /\ TableOK' /\ CacheOK'
  BY Untouched DEF IInv, Shape
<1>2. ASSUME NEW r \in Requests PROVE ReqOK(r)'
  BY Frame DEF IInv
<1> QED
  BY <1>1, <1>2 DEF IInv

(* The invariant is preserved.                                              *)
LEMMA Inductive == IInv /\ [Next]_vars => IInv'
<1> SUFFICES ASSUME IInv, [Next]_vars PROVE IInv'
  OBVIOUS
<1>1. ASSUME NEW r \in Requests, Authenticate(r) PROVE IInv'
  BY <1>1, BeginStep, HeadersStep, TryConfigStep, FindUserStep, CacheHitStep,
     CacheMissStep, VerifySucceedsStep, VerifyFailsStep DEF Authenticate
<1>2. ASSUME NEW r \in Requests, Administer(r) PROVE IInv'
  BY <1>2, AdministerStep
<1>3. ASSUME NEW r \in Requests, Answer(r) PROVE IInv'
  BY <1>3, AnswerStep
<1>4. CASE Restart
  BY <1>4, RestartStep
<1>5. CASE Tick
  BY <1>5, IdleStep DEF Tick, IInv, Shape
<1>6. CASE UNCHANGED vars
  BY <1>6, IdleStep DEF vars, IInv, Shape
<1> QED
  BY <1>1, <1>2, <1>3, <1>4, <1>5, <1>6 DEF Next

(* The strengthened invariant: what is cached was verified, and what a       *)
(* request has given up does not fit.                                       *)
THEOREM Invariance == Spec => []IInv
BY Initially, Inductive, PTL DEF Spec

(* Every variable has its type.                                             *)
THEOREM Typing == Spec => []TypeOK
<1>1. IInv => TypeOK
  BY DEF IInv, Shape, TableOK, CacheOK, ReqOK, TypeOK
<1> QED
  BY <1>1, Invariance, PTL

(* The login cache never holds more than LOGIN_CACHE_MAX entries.           *)
THEOREM BoundedCache == Spec => []CacheBounded
<1>1. IInv => CacheBounded
  BY DEF IInv, CacheOK, CacheBounded
<1> QED
  BY <1>1, Invariance, PTL

(* No two users have the same name, whatever create_user races with.        *)
THEOREM UniqueUsers == Spec => []NamesUnique
<1>1. IInv => NamesUnique
  BY DEF IInv, TableOK, NamesUnique
<1> QED
  BY <1>1, Invariance, PTL

----------------------------------------------------------------------------
(* Login implements Accounts: a lookup of the table decides.                *)
Accesses == [r \in Requests |-> Access(r)]

(* Accounts has the accounts, credentials and roles of Login.               *)
LEMMA Shared ==
  /\ Promise!NoCredential = NoCredential
  /\ Promise!Account = Account /\ Promise!Reserved = Reserved
  /\ \A c, table : Promise!RolesOf(c, table) = RolesOf(c, table)
BY DEF NoCredential, Promise!NoCredential, Account, Promise!Account, Roles, Promise!Roles,
       Reserved, Promise!Reserved, RolesOf, Promise!RolesOf, ByHeaders, Promise!ByHeaders,
       HeaderRoles, Promise!HeaderRoles, RoleForGroups, Promise!RoleForGroups,
       PasswordRoles, Promise!PasswordRoles, Fits, Promise!Fits

LEMMA InitialAccess == Init => Promise!AccountsInit
BY Shared DEF Init, Promise!AccountsInit, Access

(* What a step of one request does to its access is all it does.            *)
LEMMA OneAccess ==
  ASSUME NEW r \in Requests, Shape,
         \A q \in Requests \ {r} :
           pc'[q] = pc[q] /\ cred'[q] = cred[q] /\ mem'[q] = mem[q]
  PROVE  Accesses' = [Accesses EXCEPT ![r] = Access(r)']
<1>1. \A q \in Requests \ {r} : Access(q)' = Access(q)
  BY DEF Access, Fits
<1> QED
  BY <1>1 DEF Accesses

(* A verdict changes nothing of the others.                                 *)
LEMMA VerdictAccess ==
  ASSUME NEW r \in Requests, Shape, NEW verdict \in Verdicts, Conclude(r, verdict),
         cred' \in {cred, [cred EXCEPT ![r] = NoCredential]}
  PROVE  Accesses' = [Accesses EXCEPT ![r] = verdict]
<1> USE DEF Conclude, Goto
<1>1. pc'[r] = verdict
  BY DEF Shape
<1>2. Access(r)' = verdict
  BY <1>1 DEF Access, Verdicts
<1>3. \A q \in Requests \ {r} :
        pc'[q] = pc[q] /\ cred'[q] = cred[q] /\ mem'[q] = mem[q]
  BY DEF Shape
<1> QED
  BY <1>2, <1>3, OneAccess

(* Ending a request, by an answer, is Leave.                                *)
LEMMA EndIsLeave ==
  ASSUME NEW r \in Requests, Shape, End(r), UNCHANGED users
  PROVE  Promise!Leave
<1>1. Accesses' = [Accesses EXCEPT ![r] = "none"]
  BY VerdictAccess DEF End, Verdicts
<1>2. cred' = [cred EXCEPT ![r] = NoCredential]
  BY DEF End
<1>3. Accesses' = [q \in Requests |-> IF q \in {r} THEN "none" ELSE Accesses[q]]
  BY <1>1 DEF Accesses
<1>4. cred' = [q \in Requests |-> IF q \in {r} THEN NoCredential ELSE cred[q]]
  BY <1>2 DEF Shape
<1> QED
  BY <1>3, <1>4, Shared DEF Promise!Leave, Accesses

(* A verdict that the accounts give at this moment is Decide.               *)
LEMMA VerdictIsDecide ==
  ASSUME NEW r \in Requests, Access(r) = "asking", UNCHANGED <<users, cred>>,
         NEW verdict, Accesses' = [Accesses EXCEPT ![r] = verdict],
         LET roles == RolesOf(cred[r], users)
         IN verdict \in (IF roles = {} THEN {"refused"} ELSE roles)
  PROVE  Promise!Decide(r)
BY Shared DEF Promise!Decide, Accesses

LEMMA BeginIsAsk == ASSUME IInv, NEW r \in Requests, Begin(r) PROVE Promise!Ask(r)
<1> USE DEF Begin, Goto
<1>1. Shape
  BY DEF IInv
<1>2. pc'[r] = "asking" /\ Access(r) = "none"
  BY <1>1 DEF Shape, Access
<1>3. Access(r)' = "asking"
  BY <1>2 DEF Access
<1>4. Accesses' = [Accesses EXCEPT ![r] = "asking"]
  BY <1>1, <1>3, OneAccess DEF Shape
<1> QED
  BY <1>2, <1>4 DEF Promise!Ask, Accesses

LEMMA HeadersDecide ==
  ASSUME IInv, NEW r \in Requests, AuthenticateHeaders(r) PROVE Promise!Decide(r)
<1> USE DEF AuthenticateHeaders
<1>1. Shape /\ Access(r) = "asking"
  BY DEF IInv, Access
<1>2. RolesOf(cred[r], users) = HeaderRoles(cred[r])
  BY DEF RolesOf
<1>3. PICK verdict \in Verdicts :
        /\ Conclude(r, verdict)
        /\ verdict \in (IF HeaderRoles(cred[r]) = {} THEN {"refused"}
                        ELSE HeaderRoles(cred[r]))
  BY DEF HeaderRoles, RoleForGroups, Verdicts
<1>4. Accesses' = [Accesses EXCEPT ![r] = verdict]
  BY <1>1, <1>3, VerdictAccess
<1> QED
  BY <1>1, <1>2, <1>3, <1>4, VerdictIsDecide

LEMMA LookupDecides ==
  ASSUME IInv, NEW r \in Requests, FindUser(r) PROVE Promise!Decide(r)
<1> USE DEF FindUser
<1>0. Shape /\ TableOK /\ ReqOK(r) /\ Access(r) = "asking"
  BY DEF IInv, Access
<1>1. RolesOf(cred[r], users) = {a.role : a \in {b \in users : Fits(b, cred[r])}}
  <2>1. \A a \in ConfigUsers : ~Fits(a, cred[r])
    BY <1>0 DEF ReqOK, Open
  <2> QED
    BY <2>1 DEF RolesOf, PasswordRoles
<1>2. CASE Conclude(r, "refused") /\ {a \in users : a.name = cred[r].name} = {}
  <2>1. RolesOf(cred[r], users) = {}
    BY <1>1, <1>2 DEF Fits
  <2>2. Accesses' = [Accesses EXCEPT ![r] = "refused"]
    BY <1>0, <1>2, VerdictAccess DEF Verdicts
  <2> QED
    BY <1>0, <2>1, <2>2, VerdictIsDecide
<1>3. ASSUME NEW a \in users, a.name = cred[r].name, Goto(r, "trying"),
             mem' = [mem EXCEPT ![r] = [left |-> {}, account |-> a,
                                        config |-> FALSE, at |-> now]]
      PROVE  Promise!Decide(r)
  <2> DEFINE verdict == IF Fits(a, cred[r]) THEN a.role ELSE "refused"
  <2>1. /\ pc'[r] = "trying" /\ cred'[r] = cred[r]
        /\ mem'[r] = [left |-> {}, account |-> a, config |-> FALSE, at |-> now]
    BY <1>0, <1>3 DEF Shape, Goto
  <2>2. Access(r)' = verdict
    BY <2>1 DEF Access, Fits
  <2>3. Accesses' = [Accesses EXCEPT ![r] = verdict]
    BY <1>0, <1>3, <2>2, OneAccess DEF Shape, Goto
  <2>4. \A b \in users : Fits(b, cred[r]) => b = a
    BY <1>0, <1>3 DEF TableOK, UniqueNames, Fits
  <2>5. RolesOf(cred[r], users) = IF Fits(a, cred[r]) THEN {a.role} ELSE {}
    BY <1>1, <2>4
  <2> QED
    BY <1>0, <2>3, <2>5, VerdictIsDecide
<1> QED
  BY <1>2, <1>3

(* An account of the configuration decides when it is verified, a row of    *)
(* the table has decided before: the verdict changes nothing.               *)
LEMMA Verified ==
  ASSUME IInv, NEW r \in Requests, pc[r] \in {"trying", "hashing"},
         Fits(mem[r].account, cred[r]), Conclude(r, mem[r].account.role),
         UNCHANGED <<users, cred>>
  PROVE  [Promise!AccountsNext]_Promise!accountVars
<1> DEFINE role == mem[r].account.role
<1>0. Shape /\ ReqOK(r) /\ role \in Verdicts /\ mem[r] \in Trying
  BY Attempt DEF IInv, Roles, Verdicts
<1>1. Accesses' = [Accesses EXCEPT ![r] = role]
  BY <1>0, VerdictAccess
<1>2. CASE mem[r].config
  <2>1. mem[r].account \in ConfigUsers
    BY <1>0, <1>2 DEF Trying
  <2>2. role \in RolesOf(cred[r], users)
    BY <1>0, <2>1 DEF ReqOK, RolesOf, PasswordRoles
  <2>3. Access(r) = "asking"
    BY <1>2 DEF Access
  <2>4. Promise!Decide(r)
    BY <1>1, <2>2, <2>3, VerdictIsDecide
  <2> QED
    BY <2>4 DEF Promise!AccountsNext
<1>3. CASE ~mem[r].config
  <2>1. Access(r) = role
    BY <1>3 DEF Access
  <2>2. Accesses' = Accesses
    BY <1>1, <2>1 DEF Accesses
  <2> QED
    BY <2>2 DEF Promise!accountVars, Accesses
<1> QED
  BY <1>2, <1>3

(* A hit is as good as a verification.                                      *)
LEMMA HitFits ==
  ASSUME IInv, NEW r \in Requests, CacheHit(r) PROVE Fits(mem[r].account, cred[r])
<1>1. Key(r)[3] = Key(r)[2][2]
  BY DEF CacheHit, Hit, IInv, CacheOK
<1>2. mem[r].account.name = cred[r].name
  BY Attempt DEF CacheHit
<1> QED
  BY <1>1, <1>2 DEF Key, Stored, Fits

(* Steps that decide nothing.                                               *)
LEMMA Undecided ==
  ASSUME NEW r \in Requests, Shape, UNCHANGED <<users, cred>>, Access(r)' = Access(r),
         \A q \in Requests \ {r} : pc'[q] = pc[q] /\ mem'[q] = mem[q]
  PROVE  UNCHANGED Promise!accountVars
<1>1. Accesses' = [Accesses EXCEPT ![r] = Access(r)]
  BY OneAccess
<1>2. Accesses' = Accesses
  BY <1>1 DEF Accesses
<1> QED
  BY <1>2 DEF Accesses, Promise!accountVars

LEMMA TryingStutters ==
  ASSUME IInv, NEW r \in Requests, TryConfigUser(r) \/ CacheMiss(r) \/ VerifyFails(r)
  PROVE  UNCHANGED Promise!accountVars
<1>0. Shape
  BY DEF IInv
<1>1. CASE TryConfigUser(r)
  <2>1. pc'[r] = "trying" /\ mem'[r].config = TRUE /\ pc[r] = "asking"
    BY <1>0, <1>1 DEF TryConfigUser, Goto, Shape
  <2>2. Access(r)' = Access(r)
    BY <2>1 DEF Access
  <2> QED
    BY <1>0, <1>1, <2>2, Undecided DEF TryConfigUser, Goto, Shape
<1>2. CASE CacheMiss(r)
  <2>1. mem[r] \in Trying
    BY <1>2, Attempt DEF CacheMiss
  <2>2. /\ pc'[r] = "hashing" /\ mem'[r].config = mem[r].config
        /\ mem'[r].account = mem[r].account /\ cred' = cred
    BY <1>0, <1>2, <2>1 DEF CacheMiss, Goto, Shape, Trying
  <2>3. Access(r)' = Access(r)
    BY <1>2, <2>2 DEF Access, CacheMiss, Fits
  <2> QED
    BY <1>0, <1>2, <2>3, Undecided DEF CacheMiss, Goto, Shape
<1>3. CASE VerifyFails(r)
  <2>1. pc'[r] = IF mem[r].config THEN "asking" ELSE "refused"
    BY <1>0, <1>3 DEF VerifyFails, Conclude, Goto, Shape
  <2>2. Access(r)' = Access(r)
    BY <1>3, <2>1 DEF Access, VerifyFails
  <2> QED
    BY <1>0, <1>3, <2>2, Undecided DEF VerifyFails, Conclude, Goto, Shape
<1> QED
  BY <1>1, <1>2, <1>3

(* The operations of admins are those of Accounts.                          *)
LEMMA ChangeIsChange ==
  ASSUME IInv, NEW r \in Requests, NEW table, ChangeUsers(r, table), Access(r) = "admin"
  PROVE  Promise!ChangeUsers(r, table)
<1>1. Shape
  BY DEF IInv
<1>2. Accesses' = [Accesses EXCEPT ![r] = "none"]
  BY <1>1, VerdictAccess DEF ChangeUsers, End, Verdicts
<1> QED
  BY <1>2, Shared DEF Promise!ChangeUsers, ChangeUsers, End, Accesses

LEMMA AdminsChange ==
  ASSUME IInv, NEW r \in Requests, Administer(r)
  PROVE  [Promise!AccountsNext]_Promise!accountVars
<1>0. Shape /\ ReqOK(r)
  BY DEF IInv
<1>1. CASE CheckName(r)
  <2>1. pc'[r] = "naming" /\ pc[r] = "admin"
    BY <1>0, <1>1 DEF CheckName, Goto, Shape
  <2>2. Access(r)' = Access(r)
    BY <2>1 DEF Access
  <2>3. UNCHANGED Promise!accountVars
    BY <1>0, <1>1, <2>2, Undecided DEF CheckName, Goto, Shape
  <2> QED
    BY <2>3
<1>2. CASE InsertUser(r)
  <2>1. mem[r].account \in Account
    BY <1>0, <1>2 DEF InsertUser, ReqOK, MemOK, Naming
  <2>2. Promise!ChangeUsers(r, users \union {mem[r].account})
    <3>1. Access(r) = "admin"
      BY <1>2 DEF InsertUser, Access
    <3> QED
      BY <1>2, <3>1, ChangeIsChange DEF InsertUser
  <2>3. mem[r].account.name \notin Reserved
    BY <1>0, <1>2 DEF InsertUser, ReqOK, MemOK, Naming
  <2>4. Promise!AddUser(r)
    BY <1>2, <2>1, <2>2, <2>3, Shared DEF Promise!AddUser, InsertUser
  <2> QED
    BY <2>4 DEF Promise!AccountsNext
<1>3. CASE DeleteUser(r)
  <2>1. PICK a \in users : ChangeUsers(r, users \ {a})
    BY <1>3 DEF DeleteUser
  <2>2. Promise!ChangeUsers(r, users \ {a})
    <3>1. Access(r) = "admin"
      BY <1>3 DEF DeleteUser, Access
    <3> QED
      BY <2>1, <3>1, ChangeIsChange
  <2> QED
    BY <2>2 DEF Promise!AccountsNext, Promise!RemoveUser
<1>4. CASE NukeAll(r)
  <2>1. Promise!ChangeUsers(r, {})
    BY <1>4, ChangeIsChange DEF NukeAll, Access
  <2> QED
    BY <2>1 DEF Promise!AccountsNext, Promise!RemoveAll
<1>5. CASE RestoreBackup(r)
  <2>1. PICK table \in Tables : ChangeUsers(r, table)
    BY <1>5 DEF RestoreBackup
  <2>2. Promise!ChangeUsers(r, table)
    BY <1>5, <2>1, ChangeIsChange DEF RestoreBackup, Access
  <2> QED
    BY <1>5, <2>2 DEF Promise!AccountsNext, Promise!RestoreUsers, RestoreBackup
<1> QED
  BY <1>1, <1>2, <1>3, <1>4, <1>5 DEF Administer

LEMMA RestartIsLeave == ASSUME Shape, Restart PROVE Promise!Leave
<1>1. Accesses' = [q \in Requests |-> IF q \in Requests THEN "none" ELSE Accesses[q]]
  BY DEF Restart, Access, Accesses
<1>2. cred' = [q \in Requests |-> IF q \in Requests THEN NoCredential ELSE cred[q]]
  BY DEF Restart
<1> QED
  BY <1>1, <1>2, Shared DEF Promise!Leave, Restart, Accesses

LEMMA StepRefines == IInv /\ [Next]_vars => [Promise!AccountsNext]_Promise!accountVars
<1> SUFFICES ASSUME IInv, [Next]_vars
             PROVE  [Promise!AccountsNext]_Promise!accountVars
  OBVIOUS
<1>1. ASSUME NEW r \in Requests, Authenticate(r)
      PROVE  [Promise!AccountsNext]_Promise!accountVars
  <2>1. CASE Begin(r)
    BY <2>1, BeginIsAsk DEF Promise!AccountsNext
  <2>2. CASE AuthenticateHeaders(r)
    BY <2>2, HeadersDecide DEF Promise!AccountsNext
  <2>3. CASE FindUser(r)
    BY <2>3, LookupDecides DEF Promise!AccountsNext
  <2>4. CASE CacheHit(r)
    BY <2>4, HitFits, Verified DEF CacheHit
  <2>5. CASE VerifySucceeds(r)
    BY <2>5, Verified DEF VerifySucceeds
  <2>6. CASE TryConfigUser(r) \/ CacheMiss(r) \/ VerifyFails(r)
    BY <2>6, TryingStutters
  <2> QED
    BY <1>1, <2>1, <2>2, <2>3, <2>4, <2>5, <2>6 DEF Authenticate
<1>2. ASSUME NEW r \in Requests, Administer(r)
      PROVE  [Promise!AccountsNext]_Promise!accountVars
  BY <1>2, AdminsChange
<1>3. ASSUME NEW r \in Requests, Answer(r)
      PROVE  [Promise!AccountsNext]_Promise!accountVars
  BY <1>3, EndIsLeave DEF Answer, IInv, Promise!AccountsNext
<1>4. CASE Restart
  BY <1>4, RestartIsLeave DEF IInv, Promise!AccountsNext
<1>5. CASE Tick \/ UNCHANGED vars
  <2>1. UNCHANGED <<users, pc, cred, mem>>
    BY <1>5 DEF Tick, vars
  <2> QED
    BY <2>1 DEF Access, Fits, Promise!accountVars
<1> QED
  BY <1>1, <1>2, <1>3, <1>4, <1>5 DEF Next

(* Authentication is atomic at the lookup of the account, whatever is       *)
(* cached and whatever admins do meanwhile; only admins change the table.   *)
THEOREM Refinement == Spec => DecidedAtLookup
BY InitialAccess, Invariance, StepRefines, PTL
   DEF Spec, DecidedAtLookup, Promise!AccountsSpec
=============================================================================
