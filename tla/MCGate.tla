------------------------------- MODULE MCGate -------------------------------
(* Gate with model values for the procs. *)
EXTENDS Gate

CONSTANTS p1, p2, p3

MCProc3 == {p1, p2, p3}
=============================================================================
