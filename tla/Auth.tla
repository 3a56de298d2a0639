-------------------------------- MODULE Auth --------------------------------
(***************************************************************************)
(* Who a request is by its headers (auth.rs, pure): the accounts, the      *)
(* credentials and the roles that the one give to the other.               *)
(***************************************************************************)
CONSTANTS
  Requests,     \* HTTP requests
  Ids,          \* ids of rows of users; one also stands for the salt of its hash
  Names,        \* usernames
  Words,        \* passwords
  ConfigUsers,  \* accounts of the configuration file (auth.users.list)
  BasicOn,      \* auth.users.enabled
  HeadersOn,    \* auth.headers.enabled
  Credentials,  \* what requests may present
  Tables        \* users of the backups that may be restored

Roles == {"admin", "viewer"}

(* A row.  `word' stands for password_hash: what it was made from.          *)
Account == [id : Ids, name : Names, word : Words, role : Roles]

ConfigAccount == [name : Names, word : Words, role : Roles]

(* The headers of a request: the username header is present, the peer is in *)
(* trusted_networks, the groups; the name and password of `Authorization'.  *)
Credential == [identity : BOOLEAN, trusted : BOOLEAN, groups : SUBSET Roles,
               name : Names, word : Words]

NoCredential == [identity |-> FALSE]

UniqueNames(table) == \A a, b \in table : (a.name = b.name \/ a.id = b.id) => a = b

ASSUME AccountsAssumption ==
  /\ BasicOn \in BOOLEAN /\ HeadersOn \in BOOLEAN
  /\ BasicOn \/ HeadersOn
  /\ ConfigUsers \subseteq ConfigAccount
  /\ ~BasicOn => ConfigUsers = {}
  /\ Credentials \subseteq Credential
  /\ Tables \subseteq SUBSET Account
  /\ \A table \in Tables : UniqueNames(table)

Reserved == {a.name : a \in ConfigUsers}

(* authenticate: an identity header decides, or must, if Basic is off.      *)
ByHeaders(c) == HeadersOn /\ (c.identity \/ ~BasicOn)

(* role_for_groups: "Admin group membership wins over viewer".              *)
RoleForGroups(groups) ==
  IF "admin" \in groups THEN {"admin"} ELSE groups \intersect {"viewer"}

HeaderRoles(c) == IF c.trusted /\ c.identity THEN RoleForGroups(c.groups) ELSE {}

(* verify_config_password, bcrypt::verify                                   *)
Fits(a, c) == a.name = c.name /\ a.word = c.word

PasswordRoles(c, table) ==
  {a.role : a \in {b \in ConfigUsers \union table : Fits(b, c)}}

(* The roles a credential is good for.                                      *)
RolesOf(c, table) == IF ByHeaders(c) THEN HeaderRoles(c) ELSE PasswordRoles(c, table)
=============================================================================
