--------------------------- MODULE MCLogRotation ---------------------------
(* Three backups, with and without compression, one compressed, and none.  *)
EXTENDS LogRotation

MCConfigs == {[max |-> m, gz |-> TRUE] : m \in {1, 3}} \cup {[max |-> m, gz |-> FALSE] : m \in {0, 3}}
=============================================================================
