---------------------------- MODULE WorkflowRun ----------------------------
(***************************************************************************)
(* One run of a workflow in infrasrv's engine:                             *)
(*   application/workflow/workflow_app.py   trigger_workflow,              *)
(*                _execute_node_orchestrator, handle_external_callback     *)
(*   domain/workflow/engine.py, node_handlers.py   what a node does next   *)
(*   infrastructure/db/operate/workflow_op.py      the rows it writes      *)
(*                                                                         *)
(* There is no coordinator.  Every node of the graph is a job in Celery's  *)
(* queue (or in the inline executor's); a worker that takes a job reads    *)
(* the run, executes the node, writes its results in several separate      *)
(* transactions and enqueues the jobs that follow.  An action is the code  *)
(* up to the end of one transaction, so the jobs of one run interleave at  *)
(* exactly the awaits of the code.                                         *)
(***************************************************************************)
EXTENDS Integers, FiniteSets, FiniteSetsExt

CONSTANTS
  Ids,         \* node ids that occur in the definition, dangling ones included
  Config,      \* Config[n]: the node n of definition_snapshot.nodes_config
  Entry,       \* next_node_ids of the START node
  Edges,       \* Edges[n]: targets of graph_data's edges from n
  Workers,     \* Celery worker slots, or tasks of the inline executor
  Callers,     \* callback requests an external system may send
  MaxIndex,    \* bound on loop_index
  AttemptCap,  \* attempt_count is kept up to this value, "or more"
  MaxFaults    \* bound on the crashes that are explored

Nodes == DOMAIN Config
Indexes == 1..MaxIndex
OfKind(kind) == {n \in Nodes : Config[n].kind = kind}

ASSUME WorkflowAssumption ==
  /\ Nodes \subseteq Ids
  /\ Entry \subseteq Ids
  /\ Edges \in [Nodes -> SUBSET Ids]
  /\ MaxIndex \in Nat \ {0} /\ AttemptCap \in Nat \ {0} /\ MaxFaults \in Nat
  /\ \A n \in Nodes : Config[n].next \subseteq Ids
  /\ \A n \in OfKind("ACTION") : Config[n].async \in BOOLEAN
  /\ \A n \in OfKind("LOGIC") : Config[n].yes \subseteq Ids /\ Config[n].no \subseteq Ids
  /\ \A n \in OfKind("FORK") : Config[n].branches \subseteq Ids
  /\ \A n \in OfKind("JOIN") : Config[n].mode \in {"ALL", "ANY"}
  /\ \A n \in OfKind("LOOP") :
       /\ Config[n].body \subseteq Ids /\ Config[n].exit \subseteq Ids
       /\ Config[n].max \in Indexes
       /\ Config[n].exit # {} \/ Config[n].next # {}
       /\ Config[n].met \in [0..MaxIndex -> (SUBSET BOOLEAN) \ {{}}]
  /\ \A n \in OfKind("END") : Config[n].ok \in BOOLEAN /\ Config[n].next = {}
  /\ \A n \in Nodes : Config[n].kind \in {"ACTION", "LOGIC", "FORK", "JOIN", "LOOP", "END"}

VARIABLES
  run,         \* workflow_run_tbl.status
  context,     \* global_context.__runtime__.node_outputs: the status per node
  instance,    \* node_instance_tbl: status of <<node, loop_index>>
  attempts,    \* its attempt_count
  queue,       \* queue[j]: how many messages for job j are waiting
  job,         \* job[w]: what the orchestrator running in w has in hand
  callback,    \* callback[c]: the progress of one callback request
  faults       \* crashes so far

vars == <<run, context, instance, attempts, queue, job, callback, faults>>

Jobs == Ids \X Indexes
Terminal == {"SUCCESS", "FAILURE"}
RunStatuses == {"PENDING", "RUNNING"} \cup Terminal
NodeStatuses == {"none", "RUNNING", "SUSPENDED", "SUCCESS", "FAILURE"}
Steps == {"loaded", "read", "running", "save", "dispatch", "ending", "failing"}

Idle == [pc |-> "idle"]
Nothing == [n \in Nodes |-> "none"]
Busy(w) == job[w] # Idle
Here(w) == <<job[w].node, job[w].k>>

\* What an orchestrator has in hand.
JobStates ==
  [pc : Steps, node : Ids, k : Indexes, ctx : [Nodes -> NodeStatuses],
   seen : [Nodes -> NodeStatuses], status : NodeStatuses, next : SUBSET Ids]

TypeOK ==
  /\ run \in RunStatuses
  /\ context \in [Nodes -> NodeStatuses]
  /\ instance \in [Nodes \X Indexes -> NodeStatuses]
  /\ attempts \in [Nodes \X Indexes -> 0..AttemptCap]
  /\ queue \in [Jobs -> Nat]
  /\ job \in [Workers -> {Idle} \cup JobStates]
  /\ callback \in [Callers -> [pc : {"idle", "checked", "stored", "accepted", "ignored"},
                               at : (Nodes \X Indexes) \cup {<<>>}]]
  /\ faults \in 0..MaxFaults

Init ==
  /\ run = "PENDING"
  /\ context = Nothing
  /\ instance = [i \in Nodes \X Indexes |-> "none"]
  /\ attempts = [i \in Nodes \X Indexes |-> 0]
  /\ queue = [j \in Jobs |-> 0]
  /\ job = [w \in Workers |-> Idle]
  /\ callback = [c \in Callers |-> [pc |-> "idle", at |-> <<>>]]
  /\ faults = 0

-----------------------------------------------------------------------------
(* The queue and the trigger                                                *)

\* enqueue_node_execution for every id of next, all with the same loop index.
Sent(next, k) == [j \in Jobs |-> IF j \in next \X {k} THEN queue[j] + 1 ELSE queue[j]]

\* trigger_workflow: a run without entry nodes stays PENDING (QUEUED_NO_ENTRY).
Trigger ==
  /\ run = "PENDING" /\ Entry # {}
  /\ run' = "RUNNING"
  /\ queue' = Sent(Entry, 1)
  /\ UNCHANGED <<context, instance, attempts, job, callback, faults>>

-----------------------------------------------------------------------------
(* _execute_node_orchestrator                                               *)

Received(j) ==
  /\ queue[j] > 0
  /\ queue' = [queue EXCEPT ![j] = @ - 1]
  /\ UNCHANGED <<run, context, instance, attempts, callback, faults>>

Stopped == run = "FAILURE"

\* The run has failed meanwhile: the job is dropped.
Discard(w, j) ==
  /\ ~Busy(w)
  /\ Stopped
  /\ Received(j)
  /\ UNCHANGED job

\* The first transaction reads the run.  global_context is a snapshot from here on.
Take(w, j) ==
  /\ ~Busy(w)
  /\ ~Stopped
  /\ Received(j)
  /\ job' = [job EXCEPT ![w] =
       [pc |-> IF j[1] \in Nodes THEN "loaded" ELSE "failing", node |-> j[1], k |-> j[2],
        ctx |-> context, seen |-> Nothing, status |-> "none", next |-> {}]]

\* nodes_map: rows are ordered by loop_index, so the latest iteration wins.
Latest(n) ==
  LET rows == {k \in Indexes : instance[<<n, k>>] # "none"}
  IN  IF rows = {} THEN "none" ELSE instance[<<n, Max(rows)>>]

\* The nodes whose next_node_ids name the JOIN n.
Upstream(n) == {u \in Nodes : n \in Config[u].next}

\* The rows are read before the node's own row is written.  Only a JOIN uses them
\* to decide what happens next, so only what a JOIN looks up is kept.
ReadInstances(w) ==
  /\ job[w].pc = "loaded"
  /\ LET n == job[w].node
         used == IF n \in OfKind("JOIN") THEN Upstream(n) ELSE {}
     IN  job' = [job EXCEPT ![w].pc = "read",
                   ![w].seen = [u \in Nodes |-> IF u \in used THEN Latest(u) ELSE "none"]]
  /\ UNCHANGED <<run, context, instance, attempts, queue, callback, faults>>

\* INSERT ... ON CONFLICT DO UPDATE: a repeated job reopens the finished row.
Upsert(w) ==
  /\ job[w].pc = "read"
  /\ instance' = [instance EXCEPT ![Here(w)] = "RUNNING"]
  /\ attempts' = [attempts EXCEPT ![Here(w)] = IF @ < AttemptCap THEN @ + 1 ELSE @]
  /\ job' = [job EXCEPT ![w].pc = "running"]
  /\ UNCHANGED <<run, context, queue, callback, faults>>

\* MUTANT of Finish: the result goes to the context alone.
Finish_RowNotWritten(w, status, next) ==
  /\ job' = [job EXCEPT ![w].pc = "save", ![w].seen = Nothing,
                        ![w].status = status, ![w].next = next]
  /\ UNCHANGED <<run, context, instance, attempts, queue, callback, faults>>

\* process_node has returned and the result is written to the node's row.
Finish(w, status, next) ==
  /\ instance' = [instance EXCEPT ![Here(w)] = status]
  /\ job' = [job EXCEPT ![w].pc = "save", ![w].seen = Nothing,
                        ![w].status = status, ![w].next = next]
  /\ UNCHANGED <<run, context, attempts, queue, callback, faults>>

Processing(w, kind) == job[w].pc = "running" /\ Config[job[w].node].kind = kind

\* An async ACTION returns at once; the downstream ids are computed all the same.
Action(w) ==
  /\ Processing(w, "ACTION")
  /\ LET cfg == Config[job[w].node]
     IN  Finish(w, IF cfg.async THEN "SUSPENDED" ELSE "SUCCESS", cfg.next)

Logic(w) ==
  /\ Processing(w, "LOGIC")
  /\ \E next \in {Config[job[w].node].yes, Config[job[w].node].no} : Finish(w, "SUCCESS", next)

Fork(w) ==
  /\ Processing(w, "FORK")
  /\ Finish(w, "SUCCESS", Config[job[w].node].branches)

\* A JOIN asks only those of its upstream nodes that have a row.  The START node is
\* an upstream node without one.
Ready(n, seen) ==
  LET rows == {u \in Upstream(n) : seen[u] # "none"}
  IN  \/ Upstream(n) = {} /\ n \notin Entry
      \/ Config[n].mode = "ALL" /\ \A u \in rows : seen[u] = "SUCCESS"
      \/ Config[n].mode = "ANY" /\ \E u \in rows : seen[u] = "SUCCESS"

Join(w) ==
  /\ Processing(w, "JOIN")
  /\ Ready(job[w].node, job[w].seen)
  /\ Finish(w, "SUCCESS", Config[job[w].node].next)

\* PENDING is not persisted: the row stays RUNNING and the job just ends.
JoinWaits(w) ==
  /\ Processing(w, "JOIN")
  /\ ~Ready(job[w].node, job[w].seen)
  /\ job' = [job EXCEPT ![w] = Idle]
  /\ UNCHANGED <<run, context, instance, attempts, queue, callback, faults>>

ExitsOf(l) == IF Config[l].exit # {} THEN Config[l].exit ELSE Config[l].next

\* MUTANT of LoopExits: no guard for the last round.
LoopExits_NoBoundaryGuard(l, k, met, metBefore) == k > Config[l].max \/ met

\* met: the condition's value at this index; metBefore: its value when it is probed
\* with the previous index, which the last round does before it is given up.
LoopExits(l, k, met, metBefore) ==
  \/ k > Config[l].max
  \/ met /\ (k = Config[l].max => metBefore)

Loop(w) ==
  /\ Processing(w, "LOOP")
  /\ LET l == job[w].node
         k == job[w].k
     IN  \E met \in Config[l].met[k], metBefore \in Config[l].met[k - 1] :
           Finish(w, "SUCCESS", IF LoopExits(l, k, met, metBefore) \/ Config[l].body = {}
                                  THEN ExitsOf(l) ELSE Config[l].body)

End(w) ==
  /\ Processing(w, "END")
  /\ Finish(w, IF Config[job[w].node].ok THEN "SUCCESS" ELSE "FAILURE", {})

\* MUTANT of Raise: the exception is recorded in the row but not in the run.
Raise_NoVerdict(w) ==
  /\ job[w].pc = "running" /\ Config[job[w].node].kind \in {"ACTION", "LOGIC", "LOOP"}
  /\ instance' = [instance EXCEPT ![Here(w)] = "FAILURE"]
  /\ job' = [job EXCEPT ![w] = Idle]
  /\ UNCHANGED <<run, context, attempts, queue, callback, faults>>

\* The request or a template raises: the except branch writes the row, then the run.
Raise(w) ==
  /\ job[w].pc = "running" /\ Config[job[w].node].kind \in {"ACTION", "LOGIC", "LOOP"}
  /\ instance' = [instance EXCEPT ![Here(w)] = "FAILURE"]
  /\ job' = [job EXCEPT ![w].pc = "failing", ![w].seen = Nothing]
  /\ UNCHANGED <<run, context, attempts, queue, callback, faults>>

\* The whole context is written back, from the snapshot the job started with.
SaveContext(w) ==
  /\ job[w].pc = "save"
  /\ context' = [job[w].ctx EXCEPT ![job[w].node] = job[w].status]
  /\ job' = [job EXCEPT ![w].pc = IF job[w].status = "FAILURE" THEN "failing" ELSE "dispatch"]
  /\ UNCHANGED <<run, instance, attempts, queue, callback, faults>>

\* _is_node_in_loop_body_subgraph: reachable from the body entry along the edges
\* without passing the loop itself or its exits.
BodyOf(l) ==
  LET boundary == Config[l].next \cup Config[l].exit \cup {l}
      reach[i \in 0..Cardinality(Nodes)] ==
        IF i = 0 THEN Config[l].body
        ELSE LET nearer == reach[i - 1]
             IN  nearer \cup ((UNION {Edges[n] : n \in nearer \cap Nodes}) \ boundary)
  IN  reach[Cardinality(Nodes)]

\* _resolve_loop_reentry_controller: the code takes the first of them.
Controllers(n) == {l \in OfKind("LOOP") : n \in BodyOf(l)}

Leave(w, sent) ==
  /\ queue' = sent
  /\ job' = [job EXCEPT ![w] = Idle]
  /\ UNCHANGED <<run, context, instance, attempts, callback, faults>>

Continue(w, pc) ==
  /\ job' = [job EXCEPT ![w].pc = pc]
  /\ UNCHANGED <<run, context, instance, attempts, queue, callback, faults>>

DeadEnd(w) ==
  /\ job[w].pc = "dispatch" /\ job[w].next = {}
  /\ job[w].status = "SUCCESS" /\ Config[job[w].node].kind # "END"

Dispatch(w) ==
  /\ job[w].pc = "dispatch" /\ job[w].next # {}
  /\ Leave(w, Sent(job[w].next, job[w].k))

\* A suspended node without downstream leaves everything to its callback.
Suspend(w) ==
  /\ job[w].pc = "dispatch" /\ job[w].next = {}
  /\ job[w].status = "SUSPENDED"
  /\ Leave(w, queue)

EndReached(w) ==
  /\ job[w].pc = "dispatch"
  /\ Config[job[w].node].kind = "END"
  /\ Continue(w, "ending")

\* MUTANT of LoopReentry: the index is not advanced.
LoopReentry_SameIndex(w) ==
  /\ DeadEnd(w)
  /\ \E l \in Controllers(job[w].node) :
       Leave(w, Sent(IF job[w].k >= Config[l].max THEN ExitsOf(l) ELSE {l}, job[w].k))

\* The tail of a loop body goes back to the loop, or out of it after the last round.
LoopReentry(w) ==
  /\ DeadEnd(w)
  /\ \E l \in Controllers(job[w].node) :
       Leave(w, IF job[w].k >= Config[l].max THEN Sent(ExitsOf(l), job[w].k)
                                             ELSE Sent({l}, job[w].k + 1))

\* MUTANT of NoDownstream: a branch that runs out is taken for the end of the run.
NoDownstream_IsTheEnd(w) ==
  /\ DeadEnd(w)
  /\ Controllers(job[w].node) = {}
  /\ Continue(w, "ending")

NoDownstream(w) ==
  /\ DeadEnd(w)
  /\ Controllers(job[w].node) = {}
  /\ Continue(w, "failing")

\* update_workflow_run_status looks at no earlier status.
SetRun(w) ==
  /\ job[w].pc \in {"ending", "failing"}
  /\ run' = IF job[w].pc = "ending" THEN "SUCCESS" ELSE "FAILURE"
  /\ job' = [job EXCEPT ![w] = Idle]
  /\ UNCHANGED <<context, instance, attempts, queue, callback, faults>>

-----------------------------------------------------------------------------
(* handle_external_callback                                                 *)

\* MUTANT of CallbackRead: the state of the node is not looked at.
CallbackRead_Unchecked(c, i) ==
  /\ callback[c].pc = "idle"
  /\ Config[i[1]].kind = "ACTION" /\ Config[i[1]].async
  /\ attempts[i] > 0
  /\ callback' = [callback EXCEPT ![c] = [pc |-> "checked", at |-> i]]
  /\ UNCHANGED <<run, context, instance, attempts, queue, job, faults>>

\* The callback URL is in the request of the ACTION node, so a callback may come
\* as soon as the row exists, and more than once.
CallbackRead(c, i) ==
  /\ callback[c].pc = "idle"
  /\ Config[i[1]].kind = "ACTION" /\ Config[i[1]].async
  /\ attempts[i] > 0
  /\ callback' = [callback EXCEPT ![c] =
       [pc |-> IF instance[i] = "SUSPENDED" THEN "checked" ELSE "ignored", at |-> i]]
  /\ UNCHANGED <<run, context, instance, attempts, queue, job, faults>>

CallbackStore(c) ==
  /\ callback[c].pc = "checked"
  /\ instance' = [instance EXCEPT ![callback[c].at] = "SUCCESS"]
  /\ callback' = [callback EXCEPT ![c].pc = "stored"]
  /\ UNCHANGED <<run, context, attempts, queue, job, faults>>

CallbackDispatch(c) ==
  /\ callback[c].pc = "stored"
  /\ LET n == callback[c].at[1] IN queue' = Sent(Config[n].next, callback[c].at[2])
  /\ callback' = [callback EXCEPT ![c].pc = "accepted"]
  /\ UNCHANGED <<run, context, instance, attempts, job, faults>>

-----------------------------------------------------------------------------
(* Faults                                                                   *)

\* The sends a worker may have behind it when it dies between two of them.
Partial(w) == IF Busy(w) /\ job[w].pc = "dispatch" THEN SUBSET job[w].next ELSE {{}}

\* The job in hand dies.
Dies(w, sent) ==
  /\ Busy(w)
  /\ faults < MaxFaults
  /\ faults' = faults + 1
  /\ job' = [job EXCEPT ![w] = Idle]
  /\ UNCHANGED <<run, context, instance, attempts, callback>>

\* MUTANT of Redeliver: the message was acknowledged on receipt.
Redeliver_EarlyAck(w, sent) ==
  /\ Dies(w, sent)
  /\ queue' = Sent(sent, job[w].k)

\* acks_late: Celery delivers the message of a lost worker again.
Redeliver(w, sent) ==
  /\ Dies(w, sent)
  /\ LET q == Sent(sent, job[w].k) IN queue' = [q EXCEPT ![Here(w)] = @ + 1]

WorkerStep(w) ==
  \/ \E j \in Jobs : Take(w, j) \/ Discard(w, j)
  \/ ReadInstances(w) \/ Upsert(w)
  \/ Action(w) \/ Logic(w) \/ Fork(w) \/ Join(w) \/ JoinWaits(w) \/ Loop(w) \/ End(w) \/ Raise(w)
  \/ SaveContext(w)
  \/ Dispatch(w) \/ Suspend(w) \/ EndReached(w) \/ LoopReentry(w) \/ NoDownstream(w)
  \/ SetRun(w)

CallbackStep(c) == CallbackStore(c) \/ CallbackDispatch(c)

Next ==
  \/ Trigger
  \/ \E w \in Workers : WorkerStep(w)
  \/ \E c \in Callers : CallbackStep(c) \/ \E i \in Nodes \X Indexes : CallbackRead(c, i)
  \/ \E w \in Workers : \E sent \in Partial(w) : Redeliver(w, sent)

Spec == Init /\ [][Next]_vars

\* Every worker keeps working and a callback that was received is processed.  No
\* fairness for faults, and none for the external system that sends callbacks.
FairSpec ==
  /\ Spec
  /\ WF_vars(Trigger)
  /\ \A w \in Workers : WF_vars(WorkerStep(w))
  /\ \A c \in Callers : WF_vars(CallbackStep(c))

-----------------------------------------------------------------------------
(* Graphs in which one node is executed after the other                     *)

IsAsync(n) == Config[n].kind = "ACTION" /\ Config[n].async

\* What a node hands the job on to when it has been executed.
Successors(n, next) ==
  \/ Config[n].kind \in {"ACTION", "JOIN"} /\ next = Config[n].next
  \/ Config[n].kind = "LOGIC" /\ next \in {Config[n].yes, Config[n].no}
  \/ Config[n].kind = "FORK" /\ next = Config[n].branches
  \/ Config[n].kind = "LOOP" /\ next \in {Config[n].body, ExitsOf(n)}
  \/ Config[n].kind = "END" /\ next = {}

\* The tail of a loop body goes on behind the loop.
LeavesLoop(n, next) == Config[n].kind # "END" /\ \E l \in Controllers(n) : next = ExitsOf(l)

HandsOn(n, next) == Successors(n, next) \/ LeavesLoop(n, next)

\* The sets of ids that the definition names.
Named ==
  {Config[n].next : n \in Nodes}
    \cup {Config[n].yes : n \in OfKind("LOGIC")} \cup {Config[n].no : n \in OfKind("LOGIC")}
    \cup {Config[n].branches : n \in OfKind("FORK")}
    \cup {Config[n].body : n \in OfKind("LOOP")} \cup {ExitsOf(n) : n \in OfKind("LOOP")}

\* Every node hands the job on to one node at most, which is further on in the order rank: in
\* one round the job passes no node again.  What a LOOP does at the end of a round is no exception:
\* it begins the next one.  An async node would hand the job on twice.
Sequential(rank) ==
  /\ rank \in [Nodes -> Nat]
  /\ \A x, y \in Entry : x = y
  /\ \A n \in Nodes : ~IsAsync(n)
  /\ \A n \in Nodes, next \in Named : HandsOn(n, next) =>
       /\ \A x, y \in next : x = y
       /\ \A x \in next \cap Nodes : rank[n] < rank[x]

\* The order, if there is one: the fewer nodes lie ahead of a node, the further on it is.
Rank ==
  LET onto == [n \in Nodes |-> Nodes \cap UNION {next \in Named : HandsOn(n, next)}]
      ahead[i \in 0..Cardinality(Nodes)] ==
        IF i = 0 THEN onto
        ELSE LET nearer == ahead[i - 1]
             IN  [n \in Nodes |-> onto[n] \cup UNION {nearer[x] : x \in onto[n]}]
      all == ahead[Cardinality(Nodes)]
  IN  [n \in Nodes |-> Cardinality(Nodes) - Cardinality(all[n])]

OneByOne == Sequential(Rank)

-----------------------------------------------------------------------------
(* Properties                                                               *)

\* A run that is RUNNING has a job that is queued or in hand, however the branches
\* interleave and workers die: no JOIN waits for a wake-up that has already been,
\* and no orchestrator ends without a successor or a verdict
\* (_execute_node_orchestrator, JoinNodeHandler).
WorkRemains ==
  run = "RUNNING" => (\E j \in Jobs : queue[j] > 0) \/ (\E w \in Workers : Busy(w))

\* A run that was triggered reaches SUCCESS or FAILURE, also when workers die and
\* their messages are delivered again (workflow_tasks.py, acks_late).
RunSettles == run = "RUNNING" ~> run \in Terminal

\* Where a node can have been dispatched from.
Sources ==
  [n \in Nodes |->
     {p \in Nodes : n \in Config[p].next}
       \cup {p \in OfKind("LOGIC") : n \in Config[p].yes \cup Config[p].no}
       \cup {p \in OfKind("FORK") : n \in Config[p].branches}
       \cup {l \in OfKind("LOOP") : n \in Config[l].body \cup ExitsOf(l)}
       \cup (IF n \in OfKind("LOOP") THEN BodyOf(n) \cap Nodes ELSE {})
       \cup UNION {BodyOf(l) \cap Nodes : l \in {m \in OfKind("LOOP") : n \in ExitsOf(m)}}]

\* A node starts only after the result of a node before it has been committed, so
\* what its templates and a JOIN look up is there (steps 5 and 6 of the orchestrator).
StartsAfterSource ==
  \A n \in Nodes \ Entry, k \in Indexes : attempts[<<n, k>>] > 0 =>
    \E p \in Sources[n], m \in 1..k : instance[<<p, m>>] \in {"SUCCESS", "SUSPENDED"}

\* No node has been executed twice in one round.
NoRepetition == \A i \in Nodes \X Indexes : attempts[i] <= 1

\* In a graph in which one node is executed after the other, loops in loops included, no
\* node is executed twice in one round until a worker dies (LoopNodeHandler, loop re-entry
\* of a tail).  It is not so for others: a FORK in the body of a loop enters the next round
\* once for each branch, and an async ACTION sends its downstream jobs twice, when it is
\* suspended and when it is called back.
ExecutedOnce == OneByOne /\ faults = 0 => NoRepetition

\* A run is SUCCESS only if an END node configured as SUCCESS has been executed: a
\* branch that ends anywhere else never decides the run in its favour.
SuccessHasEnd ==
  run = "SUCCESS" => \E n \in OfKind("END"), k \in Indexes : Config[n].ok /\ attempts[<<n, k>>] > 0

\* The rounds in which the loop's body has been entered.
Rounds(l) == {k \in Indexes : \E n \in Config[l].body \cap Nodes : attempts[<<n, k>>] > 0}

\* The rounds a loop with a fixed condition is to run: up to the first index at
\* which the condition holds, and all of them if that is the last one or none.
Planned(l) ==
  LET holds == {k \in 1..Config[l].max - 1 : Config[l].met[k] = {TRUE}}
  IN  IF holds = {} THEN Config[l].max ELSE Min(holds) - 1

\* A loop that has been left has run as many rounds as its condition and its cap say,
\* with the guard of the boundary round (LoopNodeHandler, loop re-entry of a tail).
LoopRunsAsPlanned ==
  \A l \in OfKind("LOOP") :
    LET fixed == \A k \in 0..MaxIndex : Config[l].met[k] \in {{TRUE}, {FALSE}}
        left  == \E k \in Indexes : \E x \in ExitsOf(l) \cap Nodes : attempts[<<x, k>>] > 0
        begun  == \E k \in Indexes : attempts[<<l, k>>] > 0
    IN  fixed /\ begun /\ left => Rounds(l) = 1..Planned(l)

\* A callback that was answered ACCEPTED is not undone: its node stays SUCCESS
\* (handle_external_callback against the orchestrator that suspends the node).
AcceptedStays ==
  \A c \in Callers : callback[c].pc \in {"stored", "accepted"} => instance[callback[c].at] = "SUCCESS"

\* CLAIM docs/workflow-nodes.html "mode = ALL: ready only when every upstream is
\* SUCCESS or SKIPPED": a JOIN that has succeeded has no upstream without a result.
JoinWaitsForAll ==
  \A n \in OfKind("JOIN"), k \in Indexes :
    Config[n].mode = "ALL" /\ instance[<<n, k>>] = "SUCCESS"
      => \A u \in Upstream(n) : instance[<<u, k>>] = "SUCCESS"

\* CLAIM docs/workflow-concepts.html "it accumulates every node's output
\* (node_outputs)": when nothing is in hand, every finished node is in the context.
OutputsAccumulate ==
  (\A w \in Workers : ~Busy(w)) =>
    \A n \in Nodes, k \in Indexes : instance[<<n, k>>] = "SUCCESS" => context[n] = "SUCCESS"
=============================================================================
