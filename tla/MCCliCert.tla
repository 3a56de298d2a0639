----------------------------- MODULE MCCliCert -----------------------------
(* Small instances of CliCert for TLC. *)
EXTENDS CliCert, TLC

\* A CA that lasts, and one that expires before a renewal would.
MCCaEnds == {3, 20}

Symmetry == Permutations(Clients) \union Permutations(Ids)
=============================================================================
