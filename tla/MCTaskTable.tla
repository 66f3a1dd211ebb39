----------------------------- MODULE MCTaskTable ----------------------------
(* A small instance of TaskTable: see the configuration. *)
EXTENDS TaskTable
=============================================================================
