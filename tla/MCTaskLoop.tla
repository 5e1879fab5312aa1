----------------------------- MODULE MCTaskLoop -----------------------------
(***************************************************************************)
(* A small instance of TaskLoop for TLC.                                   *)
(***************************************************************************)
EXTENDS TaskLoop

MCContracts == 0..1
=============================================================================
