---------------------------- MODULE MCLocalExports ----------------------------
(* Model values for LocalExports: one account with two jobs, one with one.  *)
EXTENDS LocalExports

CONSTANTS j1, j2, j3, o1, o2

JobOwner == [j \in Jobs |-> IF j = j3 THEN o2 ELSE o1]
===============================================================================
