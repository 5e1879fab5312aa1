--------------------------- MODULE MCTaskReports ---------------------------
(***************************************************************************)
(* A small instance of TaskReports for TLC.                                *)
(***************************************************************************)
EXTENDS TaskReports, TLC

TaskSymmetry == Permutations(Tasks)
=============================================================================
