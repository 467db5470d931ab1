------------------------ MODULE MCWorkflowScheduler ------------------------
(***************************************************************************)
(* Instance of WorkflowScheduler for TLC: a definition that is on; an      *)
(* update that gives it a new plan and switches it off and a rollback to   *)
(* the first version race each other, infrasrv's own scans and those of a  *)
(* worker that takes the messages of beat.                                 *)
(***************************************************************************)
EXTENDS WorkflowScheduler, TLC

CONSTANTS off, back, Worker

MCColumns == {"nodes_config", "is_active", "flag"}
MCOriginal == "nodes_config" :> "old" @@ "is_active" :> "on" @@ "flag" :> "kept"
MCWanted ==
  off :> [sets |-> "nodes_config" :> "new" @@ "is_active" :> "off"]
  @@ back :> [target |-> 1]
=============================================================================
