---------------------------- MODULE MCCaSigning ----------------------------
(* Small instances of CaSigning for TLC. *)
EXTENDS CaSigning, TLC

CONSTANT x1   \* an external serial

(* Two subjects with one common name, and one more name.                    *)
MCCnOf == [s \in Subjects |-> IF s = "b" THEN "bob" ELSE "alice"]

MCCaName == [c \in Cas |-> "ca"]

(* One certificate the CA signed before it was imported here.               *)
MCExternal == {<<x1, "a">>}

Symmetry == Permutations(Requests)
=============================================================================
