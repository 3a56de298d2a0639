---------------------------- MODULE MCMigration ----------------------------
(* Small instances of Migration for TLC. *)
EXTENDS Migration

(* No file; an old database; a newer one; the present version with a column *)
(* missing.                                                                 *)
MCInitial ==
  {Missing} \union
  [whole : {TRUE}, version : {1, 3}, complete : {FALSE}, rows : {{0}}] \union
  [whole : {TRUE}, version : {2}, complete : {FALSE}, rows : {{0}}]
=============================================================================
