------------------------ MODULE VersionedDefinition ------------------------
(***************************************************************************)
(* What infrasrv promises of a workflow definition to those who change it  *)
(* and to those who run it: changes are applied one after the other, each  *)
(* to what the one before has left, and every version that has ever been   *)
(* current can be looked up by its number.                                 *)
(*                                                                         *)
(* The lock, its expiry, the transactions and the unique index that bring  *)
(* this about are hidden here; WorkflowDefinition implements it.           *)
(***************************************************************************)
EXTENDS Naturals

CONSTANTS
  Columns,      \* of workflow_definition_tbl, without id and version
  Unsaved,      \* those that are not part of a version
  Original,     \* the columns of the definition when it is created
  Requests,     \* requests to change it
  Wanted        \* Wanted[q]: an update [sets] or a rollback [target]

VARIABLES
  version,
  columns,
  history       \* history[n]: the saved columns of version n

IsRollback(q) == "target" \in DOMAIN Wanted[q]
Saved(cols) == [c \in Columns \ Unsaved |-> cols[c]]
Merge(cols, values) == [c \in Columns |-> IF c \in DOMAIN values THEN values[c] ELSE cols[c]]

Init ==
  /\ version = 1
  /\ columns = Original
  /\ history = [n \in {1} |-> Saved(Original)]

Apply(q) ==
  /\ IsRollback(q) => Wanted[q].target \in 1..version
  /\ version' = version + 1
  /\ columns' = Merge(columns, IF IsRollback(q) THEN history[Wanted[q].target] ELSE Wanted[q].sets)
  /\ history' = [n \in 1..version' |-> IF n = version' THEN Saved(columns') ELSE history[n]]

Next == \E q \in Requests : Apply(q)

Spec == Init /\ [][Next]_<<version, columns, history>>
=============================================================================
