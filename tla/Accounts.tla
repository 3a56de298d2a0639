------------------------------ MODULE Accounts ------------------------------
(***************************************************************************)
(* What a caller may believe about logging in to MiniCA (auth.rs) and      *)
(* about the accounts of the admin console (service.rs): a request is      *)
(* admitted or refused at one moment, by the accounts of that moment, and  *)
(* the table of users changes one whole operation at a time, by admins.    *)
(***************************************************************************)
EXTENDS Auth

VARIABLES
  users,   \* the table users
  cred,    \* what each request has presented
  access   \* what it has got by it

accountVars == <<users, cred, access>>

----------------------------------------------------------------------------
AccountsInit ==
  /\ users \in Tables
  /\ cred = [r \in Requests |-> NoCredential]
  /\ access = [r \in Requests |-> "none"]

Ask(r) ==
  /\ access[r] = "none"
  /\ \E c \in Credentials : cred' = [cred EXCEPT ![r] = c]
  /\ access' = [access EXCEPT ![r] = "asking"]
  /\ UNCHANGED users

(* The decision: the code may pick any of the roles that two accounts of    *)
(* one name and password have, and refuses only if there is none.           *)
Decide(r) ==
  /\ access[r] = "asking"
  /\ LET roles == RolesOf(cred[r], users)
     IN \E verdict \in (IF roles = {} THEN {"refused"} ELSE roles) :
          access' = [access EXCEPT ![r] = verdict]
  /\ UNCHANGED <<users, cred>>

(* A request that changes the table has been answered then.                 *)
ChangeUsers(r, table) ==
  /\ access[r] = "admin"
  /\ users' = table
  /\ access' = [access EXCEPT ![r] = "none"]
  /\ cred' = [cred EXCEPT ![r] = NoCredential]

AddUser(r) ==
  \E a \in Account :
    /\ a.name \notin Reserved
    /\ \A b \in users : b.name # a.name /\ b.id # a.id
    /\ ChangeUsers(r, users \union {a})

RemoveUser(r) == \E a \in users : ChangeUsers(r, users \ {a})

RemoveAll(r) == ChangeUsers(r, {})

RestoreUsers(r) == users = {} /\ \E table \in Tables : ChangeUsers(r, table)

(* The request has been answered, or the process died under it.             *)
Leave ==
  /\ \E gone \in SUBSET Requests :
       /\ access' = [r \in Requests |-> IF r \in gone THEN "none" ELSE access[r]]
       /\ cred' = [r \in Requests |-> IF r \in gone THEN NoCredential ELSE cred[r]]
  /\ UNCHANGED users

AccountsNext ==
  \/ \E r \in Requests :
       Ask(r) \/ Decide(r) \/ AddUser(r) \/ RemoveUser(r) \/ RemoveAll(r) \/ RestoreUsers(r)
  \/ Leave

AccountsSpec == AccountsInit /\ [][AccountsNext]_accountVars
=============================================================================
