---------------------------- MODULE MCWorkQueue -----------------------------
(* WorkQueue with two procs. *)
EXTENDS WorkQueue

CONSTANTS q1, q2, c1, c2, c3, t1, n1

MCProc == {q1, q2}
MCCandidates == <<c1, c2, c3>>
MCTasks == <<t1>>
MCFound == {n1}
=============================================================================
