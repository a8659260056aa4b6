---------------------------- MODULE MCDagTasks ----------------------------
(* The program's own grid: 4 rows of 5 tasks.                              *)
EXTENDS DagTasks
=============================================================================
