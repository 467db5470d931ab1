------------------------ MODULE OperationStatusView ------------------------
(***************************************************************************)
(* What infrasrv promises to a client that polls an operation: a row, once *)
(* written, does not disappear, and it says SUCCESS only of an operation   *)
(* that has been performed.  It does not promise that the status moves     *)
(* forward: a late answer or an old poll may put any status back.  PENDING *)
(* and RUNNING are one answer here.                                        *)
(*                                                                         *)
(* ServiceOperation implements this specification, OperationDialog is a    *)
(* client of it.                                                           *)
(***************************************************************************)
CONSTANT Ops

Finished == {"success", "failed", "timeout"}
Answers == {"unfinished"} \cup Finished

VARIABLES
  status,    \* status[o]: the answer to a query for o, "none" while there is no row
  done       \* the operations that have been performed with success

TypeOK ==
  /\ status \in [Ops -> Answers \cup {"none"}]
  /\ done \subseteq Ops

Init ==
  /\ status \in [Ops -> {"none", "unfinished"}]
  /\ done = {}

Create(o) ==
  /\ status[o] = "none"
  /\ status' = [status EXCEPT ![o] = "unfinished"]
  /\ UNCHANGED done

Perform(o) ==
  /\ done' = done \cup {o}
  /\ UNCHANGED status

Report(o, answer) ==
  /\ status[o] # "none"
  /\ answer = "success" => o \in done
  /\ status' = [status EXCEPT ![o] = answer]
  /\ UNCHANGED done

Next == \E o \in Ops : Create(o) \/ Perform(o) \/ \E answer \in Answers : Report(o, answer)

Spec == Init /\ [][Next]_<<status, done>>
=============================================================================
