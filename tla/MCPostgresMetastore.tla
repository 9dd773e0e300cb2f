------------------------ MODULE MCPostgresMetastore -------------------------
(***************************************************************************)
(* Small instances of PostgresMetastore for TLC.                           *)
(***************************************************************************)
EXTENDS PostgresMetastore
=============================================================================
