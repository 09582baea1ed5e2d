-------------------------- MODULE MCPostgresBackup --------------------------
(* Two concurrent commands and three captures, of which one must be kept.   *)
EXTENDS PostgresBackup
=============================================================================
