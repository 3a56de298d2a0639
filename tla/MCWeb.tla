------------------------------- MODULE MCWeb -------------------------------
(* Web for TLC.  Handlers that write, and those whose success sets         *)
(* cookies: the others set one only on errors, as home does.               *)
EXTENDS Web, TLC

SetsCookies(h) == h.ok # "data"

MCHandlers == {h \in router : Writes(h) \/ SetsCookies(h)}

Symmetry == Permutations(Slots) \union Permutations(Langs)
=============================================================================
