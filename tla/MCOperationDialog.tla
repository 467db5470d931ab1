------------------------- MODULE MCOperationDialog -------------------------
(***************************************************************************)
(* Instance of OperationDialog for TLC: two operations, submitted one      *)
(* after the other, and two unanswered queries for each.                   *)
(***************************************************************************)
EXTENDS OperationDialog

CONSTANTS o1, o2
=============================================================================
