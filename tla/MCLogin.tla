------------------------------- MODULE MCLogin -------------------------------
(* Login for TLC: a bootstrap admin `root', up to two users of one name, a   *)
(* right and a wrong password, a proxy that asserts identities.              *)
EXTENDS Login, TLC

CONSTANTS u1, u2, root, ann, w1, w2

MCIds == {u1, u2}
MCNames == {root, ann}
MCWords == {w1, w2}

MCConfigUsers == {[name |-> root, word |-> w1, role |-> "admin"]}

Basic(name, word) ==
  [identity |-> FALSE, trusted |-> FALSE, groups |-> {}, name |-> name, word |-> word]

MCCredentials ==
  {Basic(root, w1), Basic(ann, w1), Basic(ann, w2)}
    \union {[identity |-> TRUE, trusted |-> t, groups |-> {"viewer"},
             name |-> root, word |-> w1] : t \in BOOLEAN}

Symmetry == Permutations(Requests)

(* The table of this server, and that of one with another bootstrap admin.  *)
MCTables ==
  {{}, {[id |-> u1, name |-> ann, word |-> w1, role |-> "admin"]},
   {[id |-> u1, name |-> root, word |-> w2, role |-> "viewer"]}}
=============================================================================
