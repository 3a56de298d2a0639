----------------------------- MODULE MCValidity -----------------------------
(* Small instances of Validity for TLC. *)
EXTENDS Validity, TLC

(* A certificate signed elsewhere for a day and a half: it began before     *)
(* this server's clock and its life is no whole number of days.             *)
MCImports == {[from |-> -1, to |-> 2]}

Symmetry == Permutations(Requests)
=============================================================================
