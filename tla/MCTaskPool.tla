----------------------------- MODULE MCTaskPool -----------------------------
(* Small instances of the task pool for TLC: the jobs and threads are      *)
(* model values that the configurations collect into sets.                 *)
EXTENDS TaskPool

CONSTANTS s1, r1, w1, w2, w3
=============================================================================
