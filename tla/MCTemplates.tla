----------------------------- MODULE MCTemplates -----------------------------
(* Templates for TLC; a backup has a default for each form.                 *)
EXTENDS Templates, TLC

CONSTANTS t1, t2, n1, n2

MCBackups ==
  {{[id |-> t1, name |-> n1, scope |-> "ca", default |-> TRUE],
    [id |-> t2, name |-> n2, scope |-> "certificate", default |-> TRUE]}}

Symmetry == Permutations(Requests)
=============================================================================
