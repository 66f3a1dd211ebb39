------------------------------ MODULE MCVmLoop ------------------------------
(* A small instance of VmLoop: see the configuration. *)
EXTENDS VmLoop
=============================================================================
