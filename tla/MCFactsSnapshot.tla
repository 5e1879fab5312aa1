-------------------------- MODULE MCFactsSnapshot ---------------------------
(***************************************************************************)
(* Small instances of FactsSnapshot for TLC: a tracked file, an untracked  *)
(* one, and contents enough for an edit after an edit.                     *)
(***************************************************************************)
EXTENDS FactsSnapshot

CONSTANTS f1, f2

MCContents == 0..2
=============================================================================
