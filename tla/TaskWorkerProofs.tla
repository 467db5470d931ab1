-------------------------- MODULE TaskWorkerProofs --------------------------
(***************************************************************************)
(* Proofs about TaskWorker, for every value of its constants.              *)
(*                                                                         *)
(* IInv strengthens the checked invariants with the facts they rest on;    *)
(* Inductive proves it action by action, and the theorems follow from it.  *)
(***************************************************************************)
EXTENDS TaskWorker, TLAPS

\* Where the loop is, which task it holds and how many attempts it has used.
LoopShape ==
  /\ cur = NoTask <=> pc \in {"off", "poll"}
  /\ pc \in Executing => attempt >= 1
  /\ pc = "backoff" => attempt < MaxRetries
  /\ pc \in Waiting /\ exit = "none" => Child \in alive

\* The registry: tasks sit under their own serial, an active serial has an
\* unfinished task and an inactive one none, and a task nobody has answered yet is unknown.
Registry ==
  /\ \A s \in Serials : tasks[s] # NoTask => SerialOf[tasks[s]] = s
  /\ \A s \in active : tasks[s] # NoTask /\ status[tasks[s]] \in {"pending", "running"}
  /\ \A s \in Serials \ active : tasks[s] # NoTask => status[tasks[s]] \in Outcomes
  /\ \A r \in Requests : response[r] = "none" => status[r] = "none"
  /\ pc # "off" =>
       \A s \in Serials : tasks[s] # NoTask /\ status[tasks[s]] = "running" => tasks[s] = cur
  /\ \A s \in Serials : tasks[s] # NoTask => status[tasks[s]] # "none"

\* The inductive invariant: the checked invariants with the facts they rest on.
IInv ==
  /\ TypeOK
  /\ LoopShape
  /\ Registry
  /\ LedgerAgrees
  /\ NoSerialLeak
  /\ NoStrayCommand

USE TaskWorkerAssumption

-----------------------------------------------------------------------------

\* The invariant holds when the worker has started and nothing has been requested.
LEMMA InitIInv == Init => IInv
  BY DEF Init, IInv, TypeOK, LoopShape, Registry, LedgerAgrees, NoSerialLeak, NoStrayCommand,
         Statuses, Outcomes, Executing, Waiting, Queued

\* The task the loop holds is the one registered under its serial, which is active.
LEMMA CurIsRegistered ==
  ASSUME IInv, pc \notin {"off", "poll"}
  PROVE  /\ cur \in Requests
         /\ SerialOf[cur] \in active
         /\ SerialOf[cur] \in Serials
         /\ tasks[SerialOf[cur]] = cur
         /\ \A s \in Serials : tasks[s] = cur => s = SerialOf[cur]
  BY DEF IInv, TypeOK, LoopShape, Registry, LedgerAgrees

\* The end of _execute_task releases the serial and disturbs nothing else.
LEMMA ConcludeIInv ==
  ASSUME IInv, pc \in Executing,
         NEW outcome \in Outcomes, Conclude(outcome), UNCHANGED <<running, alive, restarts>>,
         outcome # "timeout" => \A p \in alive : p[1] # cur
  PROVE  IInv'
<1>1. /\ cur \in Requests
      /\ SerialOf[cur] \in active
      /\ SerialOf[cur] \in Serials
      /\ tasks[SerialOf[cur]] = cur
      /\ \A s \in Serials : tasks[s] = cur => s = SerialOf[cur]
  BY CurIsRegistered DEF Executing, Waiting
<1>2. /\ status' = [status EXCEPT ![cur] = outcome]
      /\ active' = active \ {SerialOf[cur]}
      /\ cur' = NoTask
      /\ pc' = IF running THEN "poll" ELSE "off"
      /\ UNCHANGED <<queue, tasks, response, attempt, elapsed, exit, running, alive, restarts>>
  BY <1>1 DEF Conclude, SetStatus, IInv, TypeOK
<1>3. TypeOK'
  BY <1>1, <1>2 DEF IInv, TypeOK, Statuses, Outcomes, Executing, Waiting
<1>4. LoopShape'
  BY <1>2 DEF LoopShape, Executing, Waiting
<1>5. Registry'
  BY <1>1, <1>2 DEF IInv, TypeOK, Registry, LedgerAgrees, Outcomes, LoopShape, Executing, Waiting
<1>6. LedgerAgrees'
  BY <1>1, <1>2 DEF IInv, TypeOK, LedgerAgrees
<1>7. NoSerialLeak'
  BY <1>1, <1>2 DEF IInv, TypeOK, NoSerialLeak, Registry, Queued
<1>8. NoStrayCommand'
  BY <1>1, <1>2 DEF IInv, TypeOK, NoStrayCommand, Outcomes
<1> QED BY <1>3, <1>4, <1>5, <1>6, <1>7, <1>8 DEF IInv

\* A failed attempt either backs off or ends the task, and leaves no process.
LEMMA AttemptFailsIInv ==
  ASSUME IInv, pc \in Executing, NEW spent \in Nat, AttemptFails(spent),
         UNCHANGED <<running, alive, restarts>>, \A p \in alive : p[1] # cur
  PROVE  IInv'
<1>1. CASE attempt >= MaxRetries
  <2>1. Conclude("failed")
    BY <1>1 DEF AttemptFails, IInv, TypeOK
  <2> QED BY <2>1, ConcludeIInv DEF Outcomes
<1>2. CASE attempt < MaxRetries
  <2>1. /\ pc' = "backoff"
        /\ elapsed' = elapsed + spent
        /\ UNCHANGED <<ledger, cur, attempt, exit, running, alive, restarts>>
    BY <1>2 DEF AttemptFails, IInv, TypeOK
  <2>2. TypeOK'
    BY <2>1 DEF IInv, TypeOK, ledger, Executing, Waiting
  <2>3. LoopShape'
    BY <1>2, <2>1 DEF IInv, LoopShape, Executing, Waiting
  <2>4. Registry'
    BY <2>1 DEF IInv, Registry, ledger, Executing, Waiting
  <2>5. LedgerAgrees'
    BY <2>1 DEF IInv, LedgerAgrees, ledger, Executing, Waiting
  <2>6. NoSerialLeak'
    BY <2>1 DEF IInv, NoSerialLeak, ledger, Queued
  <2>7. NoStrayCommand'
    BY <2>1 DEF IInv, NoStrayCommand, ledger
  <2> QED BY <2>2, <2>3, <2>4, <2>5, <2>6, <2>7 DEF IInv
<1> QED BY <1>1, <1>2 DEF IInv, TypeOK

-----------------------------------------------------------------------------

\* An answer to a request, accepted or not, keeps the invariant (enqueue).
LEMMA SubmitIInv ==
  ASSUME IInv, NEW r \in Requests, RejectDuplicate(r) \/ RejectFull(r) \/ Enqueue(r)
  PROVE  IInv'
<1>1. CASE RejectDuplicate(r) \/ RejectFull(r)
  <2>1. /\ response[r] = "none"
        /\ \/ response' = [response EXCEPT ![r] = "duplicate"]
           \/ response' = [response EXCEPT ![r] = "full"]
        /\ UNCHANGED <<queue, tasks, active, status, worker, running, alive, restarts>>
    BY <1>1 DEF RejectDuplicate, RejectFull, Respond
  <2>2. TypeOK' /\ Registry'
    BY <2>1 DEF IInv, TypeOK, Registry, worker
  <2>3. LoopShape' /\ LedgerAgrees'
    BY <2>1 DEF IInv, LoopShape, LedgerAgrees, worker, Child
  <2>4. NoSerialLeak' /\ NoStrayCommand'
    BY <2>1 DEF IInv, NoSerialLeak, NoStrayCommand, worker, Queued
  <2> QED BY <2>2, <2>3, <2>4 DEF IInv
<1>2. CASE Enqueue(r)
  <2> DEFINE s == SerialOf[r]
  <2>1. /\ s \in Serials /\ s \notin active
        /\ response[r] = "none" /\ status[r] = "none"
        /\ queue' = Append(queue, r)
        /\ tasks' = [tasks EXCEPT ![s] = r]
        /\ active' = active \cup {s}
        /\ status' = [status EXCEPT ![r] = "pending"]
        /\ response' = [response EXCEPT ![r] = "accepted"]
        /\ UNCHANGED <<pc, cur, attempt, elapsed, exit, running, alive, restarts>>
    BY <1>2 DEF Enqueue, Register, Respond, IInv, Registry, worker
  <2>2. /\ Len(queue') = Len(queue) + 1
        /\ \A i \in 1..Len(queue) : queue'[i] = queue[i]
        /\ queue'[Len(queue) + 1] = r
    BY <2>1 DEF IInv, TypeOK
  <2>3. \A i \in 1..Len(queue) : queue[i] \in Requests /\ queue[i] # r /\ SerialOf[queue[i]] # s
    BY <2>1 DEF IInv, TypeOK, LedgerAgrees
  <2>4. cur # r /\ (cur # NoTask => SerialOf[cur] # s)
    BY <2>1 DEF IInv, LedgerAgrees
  <2>5. TypeOK'
    <3>1. queue' \in Seq(Requests) /\ Len(queue') <= QueueMax
      BY <1>2, <2>1, <2>2 DEF Enqueue, IInv, TypeOK
    <3> QED BY <2>1, <3>1 DEF IInv, TypeOK, Statuses
  <2>6. LoopShape'
    BY <2>1 DEF IInv, LoopShape, Child
  <2>7. Registry'
    BY <2>1, <2>4 DEF IInv, TypeOK, Registry
  <2>8. LedgerAgrees'
    <3>0. Len(queue) \in Nat
      BY DEF IInv, TypeOK
    <3>1. \A i \in 1..Len(queue') : i \in 1..Len(queue) \/ i = Len(queue) + 1
      BY <2>2, <3>0
    <3>2. \A i \in 1..Len(queue') :
            /\ status'[queue'[i]] = "pending"
            /\ tasks'[SerialOf[queue'[i]]] = queue'[i]
            /\ SerialOf[queue'[i]] \in active'
            /\ queue'[i] # cur'
      BY <2>1, <2>2, <2>3, <2>4, <3>1 DEF IInv, TypeOK, LedgerAgrees
    <3>3. \A i, j \in 1..Len(queue') : i # j => SerialOf[queue'[i]] # SerialOf[queue'[j]]
      BY <2>1, <2>2, <2>3, <3>1 DEF IInv, TypeOK, LedgerAgrees
    <3>4. cur' # NoTask =>
            /\ status'[cur'] = IF pc' = "taken" THEN "pending" ELSE "running"
            /\ tasks'[SerialOf[cur']] = cur'
            /\ SerialOf[cur'] \in active'
      BY <2>1, <2>4 DEF IInv, TypeOK, LedgerAgrees
    <3> QED BY <3>2, <3>3, <3>4 DEF LedgerAgrees
  <2>9. NoSerialLeak'
    <3>0. Len(queue) \in Nat
      BY DEF IInv, TypeOK
    <3>1. r \in Queued'
      BY <2>2, <3>0 DEF Queued
    <3>2. \A i \in 1..Len(queue) : i \in 1..Len(queue')
      BY <2>2, <3>0
    <3>3. Queued \subseteq Queued'
      BY <2>2, <3>2 DEF Queued
    <3> QED BY <2>1, <3>1, <3>3 DEF IInv, TypeOK, NoSerialLeak
  <2>10. NoStrayCommand'
    BY <2>1 DEF IInv, TypeOK, NoStrayCommand
  <2> QED BY <2>5, <2>6, <2>7, <2>8, <2>9, <2>10 DEF IInv
<1> QED BY <1>1, <1>2

\* Taking the first task from the queue keeps the invariant: no other entry is that task.
LEMMA DequeueIInv == ASSUME IInv, Dequeue PROVE IInv'
<1>1. /\ running /\ pc = "poll" /\ cur = NoTask /\ queue # <<>>
      /\ cur' = Head(queue) /\ queue' = Tail(queue) /\ pc' = "taken"
      /\ UNCHANGED <<tasks, active, status, response, attempt, elapsed, exit,
                     running, alive, restarts>>
  BY DEF Dequeue, IInv, LoopShape
<1>2. /\ Len(queue) >= 1
      /\ Len(queue') = Len(queue) - 1
      /\ \A i \in 1..Len(queue') : i + 1 \in 1..Len(queue) /\ queue'[i] = queue[i + 1]
      /\ cur' = queue[1] /\ cur' \in Requests /\ 1 \in 1..Len(queue)
      /\ queue' \in Seq(Requests)
  BY <1>1 DEF IInv, TypeOK
<1>3. TypeOK'
  BY <1>1, <1>2 DEF IInv, TypeOK
<1>4. LoopShape'
  BY <1>1, <1>2 DEF IInv, LoopShape, Executing, Waiting
<1>5. Registry'
  BY <1>1, <1>2 DEF IInv, TypeOK, Registry
<1>6. LedgerAgrees'
  <2>1. \A i \in 1..Len(queue') :
          /\ status'[queue'[i]] = "pending"
          /\ tasks'[SerialOf[queue'[i]]] = queue'[i]
          /\ SerialOf[queue'[i]] \in active'
    BY <1>1, <1>2 DEF IInv, LedgerAgrees
  <2>2. \A i \in 1..Len(queue') : SerialOf[queue'[i]] # SerialOf[cur']
    <3> SUFFICES ASSUME NEW i \in 1..Len(queue') PROVE SerialOf[queue'[i]] # SerialOf[cur']
      OBVIOUS
    <3>1. i + 1 # 1
      BY <1>2 DEF IInv, TypeOK
    <3> QED BY <1>2, <3>1 DEF IInv, LedgerAgrees
  <2>3. \A i, j \in 1..Len(queue') : i # j => SerialOf[queue'[i]] # SerialOf[queue'[j]]
    <3> SUFFICES ASSUME NEW i \in 1..Len(queue'), NEW j \in 1..Len(queue'), i # j
                 PROVE  SerialOf[queue'[i]] # SerialOf[queue'[j]]
      OBVIOUS
    <3>1. i + 1 # j + 1
      BY <1>2 DEF IInv, TypeOK
    <3>2. /\ i + 1 \in 1..Len(queue) /\ queue'[i] = queue[i + 1]
          /\ j + 1 \in 1..Len(queue) /\ queue'[j] = queue[j + 1]
      BY <1>2
    <3>3. \A m, n \in 1..Len(queue) : m # n => SerialOf[queue[m]] # SerialOf[queue[n]]
      BY DEF IInv, LedgerAgrees
    <3> QED BY <3>1, <3>2, <3>3
  <2>4. /\ status'[cur'] = "pending"
        /\ tasks'[SerialOf[cur']] = cur'
        /\ SerialOf[cur'] \in active'
    BY <1>1, <1>2 DEF IInv, LedgerAgrees
  <2> QED BY <1>1, <2>1, <2>2, <2>3, <2>4 DEF LedgerAgrees
<1>7. NoSerialLeak'
  <2>1. Queued \subseteq Queued' \cup {cur'}
    <3> SUFFICES ASSUME NEW i \in 1..Len(queue) PROVE queue[i] \in Queued' \cup {cur'}
      BY DEF Queued
    <3>1. CASE i = 1
      BY <1>2, <3>1
    <3>2. CASE i # 1
      <4>1. i - 1 \in 1..Len(queue') /\ queue'[i - 1] = queue[(i - 1) + 1] /\ (i - 1) + 1 = i
        BY <1>2, <3>2 DEF IInv, TypeOK
      <4> QED BY <4>1 DEF Queued
    <3> QED BY <3>1, <3>2
  <2>2. \A s \in active : tasks[s] # NoTask /\ tasks[s] \in Queued
    BY <1>1 DEF IInv, NoSerialLeak
  <2> QED BY <1>1, <2>1, <2>2 DEF NoSerialLeak
<1>8. NoStrayCommand'
  BY <1>1, <1>2 DEF IInv, NoStrayCommand, LedgerAgrees
<1> QED BY <1>3, <1>4, <1>5, <1>6, <1>7, <1>8 DEF IInv

\* Marking the task in hand RUNNING changes the status of no other task.
LEMMA MarkRunningIInv == ASSUME IInv, MarkRunning PROVE IInv'
<1>1. /\ pc = "taken"
      /\ cur \in Requests /\ cur # NoTask
      /\ SerialOf[cur] \in active /\ SerialOf[cur] \in Serials
      /\ tasks[SerialOf[cur]] = cur
      /\ \A s \in Serials : tasks[s] = cur => s = SerialOf[cur]
  BY CurIsRegistered DEF MarkRunning
<1>2. /\ status' = [status EXCEPT ![cur] = "running"]
      /\ pc' = "spawn" /\ attempt' = 1 /\ elapsed' = 0 /\ exit' = "none"
      /\ UNCHANGED <<queue, tasks, active, response, cur, running, alive, restarts>>
  BY <1>1 DEF MarkRunning, SetStatus, IInv, TypeOK, Outcomes
<1>3. \A p \in alive : p[1] # cur
  BY <1>1 DEF IInv, NoStrayCommand, Waiting
<1>4. TypeOK'
  BY <1>1, <1>2 DEF IInv, TypeOK, Statuses, Executing
<1>5. LoopShape'
  BY <1>1, <1>2 DEF LoopShape, Executing, Waiting
<1>6. Registry'
  BY <1>1, <1>2 DEF IInv, TypeOK, Registry, LedgerAgrees
<1>7. LedgerAgrees'
  <2>1. \A i \in 1..Len(queue) : queue[i] \in Requests /\ queue[i] # cur
    BY DEF IInv, TypeOK, LedgerAgrees
  <2>2. \A i \in 1..Len(queue) : status'[queue[i]] = "pending"
    BY <1>2, <2>1 DEF IInv, TypeOK, LedgerAgrees
  <2>3. status'[cur] = "running"
    BY <1>1, <1>2 DEF IInv, TypeOK
  <2>4. UNCHANGED <<queue, tasks, active, cur>> /\ pc' # "taken"
    BY <1>2
  <2> QED BY <1>1, <2>2, <2>3, <2>4 DEF IInv, LedgerAgrees
<1>8. NoSerialLeak'
  BY <1>2 DEF IInv, NoSerialLeak, Queued
<1>9. NoStrayCommand'
  BY <1>1, <1>2, <1>3 DEF IInv, TypeOK, NoStrayCommand
<1> QED BY <1>4, <1>5, <1>6, <1>7, <1>8, <1>9 DEF IInv

\* The steps inside an attempt change neither the ledger nor the task.
LEMMA CommandIInv ==
  ASSUME IInv, Spawn \/ CommandTimesOut \/ GraceExpires \/ BackoffEnds
  PROVE  IInv'
<1>1. /\ pc \in Executing /\ pc' \in Executing
      /\ UNCHANGED <<ledger, cur, running, restarts>>
  BY DEF Spawn, CommandTimesOut, GraceExpires, BackoffEnds, Executing, Waiting
<1>2. cur \in Requests /\ cur # NoTask /\ attempt \in 1..MaxRetries
  BY <1>1, CurIsRegistered DEF IInv, TypeOK, LoopShape, Executing, Waiting
<1>3. TypeOK' /\ LoopShape' /\ NoStrayCommand'
  <2>1. CASE Spawn
    <3>1. \A p \in alive : p[1] # cur
      BY <2>1 DEF Spawn, IInv, NoStrayCommand, Waiting
    <3>2. status[cur] = "running"
      BY <1>2, <2>1 DEF Spawn, IInv, LedgerAgrees
    <3>3. Child[1] = cur /\ Child[2] = attempt /\ Child' = Child
      BY <2>1 DEF Spawn, Child
    <3>4. TypeOK'
      BY <1>1, <1>2, <2>1 DEF Spawn, IInv, TypeOK, ledger, Executing, Waiting, Child
    <3>5. LoopShape'
      BY <1>2, <2>1, <3>3 DEF Spawn, IInv, LoopShape, Executing, Waiting
    <3>6. NoStrayCommand'
      BY <1>2, <2>1, <3>1, <3>2, <3>3 DEF Spawn, IInv, NoStrayCommand, Waiting, ledger
    <3> QED BY <3>4, <3>5, <3>6
  <2>2. CASE CommandTimesOut \/ GraceExpires
    BY <1>1, <1>2, <2>2 DEF CommandTimesOut, GraceExpires, IInv, TypeOK, LoopShape,
       NoStrayCommand, ledger, Executing, Waiting, Child
  <2>3. CASE BackoffEnds
    BY <1>1, <1>2, <2>3 DEF BackoffEnds, IInv, TypeOK, LoopShape, NoStrayCommand, ledger,
       Executing, Waiting
  <2> QED BY <2>1, <2>2, <2>3
<1>4. Registry'
  BY <1>1 DEF IInv, Registry, ledger, Executing, Waiting
<1>5. LedgerAgrees'
  BY <1>1 DEF IInv, LedgerAgrees, ledger, Executing, Waiting
<1>6. NoSerialLeak'
  BY <1>1 DEF IInv, NoSerialLeak, ledger, Queued
<1> QED BY <1>3, <1>4, <1>5, <1>6 DEF IInv

\* A command may exit at any moment without disturbing the invariant.
LEMMA ProcessExitsIInv ==
  ASSUME IInv, NEW p \in alive, NEW code \in {"zero", "nonzero"}, ProcessExits(p, code)
  PROVE  IInv'
<1>1. /\ alive' = alive \ {p}
      /\ exit' = IF p = Child THEN code ELSE exit
      /\ UNCHANGED <<queue, tasks, active, status, response, pc, cur, attempt, elapsed,
                     running, restarts>>
  BY DEF ProcessExits, ledger
<1>2. \A q \in alive : q[1] = cur => q = Child
  BY DEF IInv, TypeOK, NoStrayCommand, Child
<1>3. TypeOK'
  BY <1>1 DEF IInv, TypeOK
<1>4. LoopShape'
  BY <1>1 DEF IInv, LoopShape, Child
<1>5. Registry' /\ LedgerAgrees' /\ NoSerialLeak'
  BY <1>1 DEF IInv, Registry, LedgerAgrees, NoSerialLeak, Queued
<1>6. NoStrayCommand'
  BY <1>1, <1>2 DEF IInv, NoStrayCommand
<1> QED BY <1>3, <1>4, <1>5, <1>6 DEF IInv

\* Cleanup forgets finished tasks, none of which is queued or in hand.
LEMMA CleanupIInv ==
  ASSUME IInv, NEW S \in SUBSET Serials, Cleanup(S)
  PROVE  IInv'
<1>1. /\ \A s \in S : tasks[s] # NoTask /\ status[tasks[s]] \in Outcomes
      /\ tasks' = [s \in Serials |-> IF s \in S THEN NoTask ELSE tasks[s]]
      /\ active' = active \ S
      /\ UNCHANGED <<queue, status, response, pc, cur, attempt, elapsed, exit, running,
                     alive, restarts>>
  BY DEF Cleanup, worker
<1>2. active \cap S = {}
  BY <1>1 DEF IInv, Registry, Outcomes
<1>3. TypeOK'
  BY <1>1 DEF IInv, TypeOK
<1>4. LoopShape' /\ NoStrayCommand'
  BY <1>1 DEF IInv, LoopShape, NoStrayCommand, Child
<1>5. Registry'
  BY <1>1, <1>2 DEF IInv, TypeOK, Registry
<1>6. LedgerAgrees'
  BY <1>1, <1>2 DEF IInv, TypeOK, LedgerAgrees
<1>7. NoSerialLeak'
  BY <1>1, <1>2 DEF IInv, TypeOK, NoSerialLeak, Queued
<1> QED BY <1>3, <1>4, <1>5, <1>6, <1>7 DEF IInv

\* stop(), its cancellation and a restart keep the invariant.
LEMMA ShutdownIInv == ASSUME IInv, Stop \/ Interrupt \/ Restart PROVE IInv'
<1>1. CASE Stop
  <2>1. /\ running' = FALSE
        /\ pc' = IF pc = "poll" THEN "off" ELSE pc
        /\ UNCHANGED <<queue, tasks, active, status, response, cur, attempt, elapsed, exit,
                       alive, restarts>>
    BY <1>1 DEF Stop, ledger
  <2>2. TypeOK'
    BY <2>1 DEF IInv, TypeOK
  <2>3. LoopShape' /\ NoStrayCommand'
    BY <2>1 DEF IInv, LoopShape, NoStrayCommand, Executing, Waiting, Child
  <2>4. Registry' /\ NoSerialLeak'
    BY <2>1 DEF IInv, Registry, NoSerialLeak
  <2>5. LedgerAgrees'
    BY <2>1 DEF IInv, LedgerAgrees, LoopShape
  <2> QED BY <2>2, <2>3, <2>4, <2>5 DEF IInv
<1>2. CASE Interrupt
  BY <1>2 DEF Interrupt, IInv, TypeOK, LoopShape, Registry, LedgerAgrees, NoSerialLeak,
     NoStrayCommand, ledger, Executing, Waiting, Child
<1>3. CASE Restart
  <2>1. /\ queue' = <<>> /\ Len(queue') = 0 /\ active' = {}
        /\ tasks' = [s \in Serials |-> NoTask]
        /\ pc' = "poll" /\ cur' = NoTask /\ attempt' = 0 /\ elapsed' = 0 /\ exit' = "none"
        /\ restarts' \in 0..MaxRestarts /\ running'
        /\ UNCHANGED <<status, response, alive>>
    BY <1>3 DEF Restart, IInv, TypeOK
  <2>2. TypeOK'
    BY <1>3, <2>1 DEF Restart, IInv, TypeOK
  <2>3. LoopShape' /\ Registry'
    BY <2>1 DEF IInv, LoopShape, Registry, Executing, Waiting
  <2>4. LedgerAgrees' /\ NoSerialLeak'
    BY <2>1 DEF LedgerAgrees, NoSerialLeak
  <2>5. NoStrayCommand'
    BY <2>1 DEF IInv, TypeOK, NoStrayCommand
  <2> QED BY <2>2, <2>3, <2>4, <2>5 DEF IInv
<1> QED BY <1>1, <1>2, <1>3

-----------------------------------------------------------------------------

\* Every step of the specification keeps the invariant.
LEMMA Inductive == IInv /\ [Next]_vars => IInv'
<1> SUFFICES ASSUME IInv, [Next]_vars PROVE IInv'
  OBVIOUS
<1>0. \A p \in alive : p[1] = cur => p = Child /\ pc \in Waiting /\ exit = "none"
  BY DEF IInv, TypeOK, NoStrayCommand, Child
<1>1. CASE UNCHANGED vars
  BY <1>1 DEF vars, ledger, worker, IInv, TypeOK, LoopShape, Registry, LedgerAgrees,
     NoSerialLeak, NoStrayCommand, Child, Queued
<1>2. CASE \E r \in Requests : RejectDuplicate(r) \/ RejectFull(r) \/ Enqueue(r)
  BY <1>2, SubmitIInv
<1>3. CASE Dequeue
  BY <1>3, DequeueIInv
<1>4. CASE MarkRunning
  BY <1>4, MarkRunningIInv
<1>5. CASE Spawn \/ CommandTimesOut \/ GraceExpires \/ BackoffEnds
  BY <1>5, CommandIInv
<1>6. CASE SpawnFails \/ CommandFails \/ CommandReaped
  <2>1. \A p \in alive : p[1] # cur
    BY <1>0, <1>6 DEF SpawnFails, CommandFails, CommandReaped, Waiting
  <2>2. pc \in Executing /\ UNCHANGED <<running, alive, restarts>>
    BY <1>6 DEF SpawnFails, CommandFails, CommandReaped, Executing, Waiting
  <2>3. CommandTimeout[cur] \in Nat
    BY <2>2, CurIsRegistered DEF Executing, Waiting
  <2>4. \E spent \in Nat : AttemptFails(spent)
    BY <1>6, <2>3 DEF SpawnFails, CommandFails, CommandReaped
  <2> QED BY <2>1, <2>2, <2>4, AttemptFailsIInv
<1>7. CASE CommandSucceeds
  BY <1>0, <1>7, ConcludeIInv DEF CommandSucceeds, Outcomes, Executing, Waiting
<1>8. CASE TotalTimeout
  BY <1>8, ConcludeIInv DEF TotalTimeout, Outcomes
<1>9. CASE \E p \in alive, code \in {"zero", "nonzero"} : ProcessExits(p, code)
  BY <1>9, ProcessExitsIInv
<1>10. CASE \E S \in SUBSET Serials : Cleanup(S)
  BY <1>10, CleanupIInv
<1>11. CASE Stop \/ Interrupt \/ Restart
  BY <1>11, ShutdownIInv
<1> QED
  BY <1>1, <1>2, <1>3, <1>4, <1>5, <1>6, <1>7, <1>8, <1>9, <1>10, <1>11 DEF Next, WorkLoop

\* The invariant holds in every reachable state.
LEMMA Invariance == Spec => []IInv
  BY InitIInv, Inductive, PTL DEF Spec

\* The state variables keep their types for every set of requests and serials,
\* every queue size and every set of limits.
THEOREM Typing == Spec => []TypeOK
  BY Invariance, PTL DEF IInv

\* The queue, the registry, the active serials and the task being executed agree
\* in every reachable state (enqueue, update_task_status, cleanup_old_tasks).
THEOREM LedgerCorrect == Spec => []LedgerAgrees
  BY Invariance, PTL DEF IInv

\* While the worker runs no serial stays active without a task that will release it.
THEOREM SerialsAreReleased == Spec => []NoSerialLeak
  BY Invariance, PTL DEF IInv

\* A task reported success or failed has no live command, and attempts do not overlap.
THEOREM CommandsAreReaped == Spec => []NoStrayCommand
  BY Invariance, PTL DEF IInv

-----------------------------------------------------------------------------
(* The total timeout                                                        *)

\* The longest one attempt of cur can take, with the delay that follows it.
PerAttempt == CommandTimeout[cur] + GracePeriod + RetryDelay

\* What the attempts so far can have taken: each of them at most PerAttempt.
WithinBudget ==
  pc \in Executing =>
    IF pc = "backoff" THEN elapsed + RetryDelay <= attempt * PerAttempt
                      ELSE elapsed <= (attempt - 1) * PerAttempt

\* Arithmetic: the time of one attempt more.
LEMMA AttemptSum ==
  ASSUME NEW a \in Nat, NEW K \in Nat
  PROVE  (a - 1) * K + K = a * K
  OBVIOUS

\* Arithmetic: fewer attempts take no more time.
LEMMA AttemptBound ==
  ASSUME NEW a \in Nat, NEW b \in Nat, NEW K \in Nat, a <= b
  PROVE  a * K <= b * K
  OBVIOUS

\* Arithmetic: no time is spent before the first attempt.
LEMMA NoAttemptYet ==
  ASSUME NEW K \in Nat
  PROVE  0 <= (1 - 1) * K
  OBVIOUS

\* The time spent stays within the attempts made, whatever step is taken.
LEMMA BudgetStep == IInv /\ WithinBudget /\ [Next]_vars => WithinBudget'
<1> SUFFICES ASSUME IInv, WithinBudget, [Next]_vars PROVE WithinBudget'
  OBVIOUS
<1>0. /\ attempt \in Nat /\ elapsed \in Nat /\ RetryDelay \in Nat
      /\ pc \in Executing => cur \in Requests /\ PerAttempt \in Nat /\ attempt >= 1
  BY CurIsRegistered DEF IInv, TypeOK, LoopShape, PerAttempt, Executing, Waiting
<1>1. CASE UNCHANGED worker
  BY <1>1 DEF worker, WithinBudget, PerAttempt
<1>2. CASE pc' \notin Executing
  BY <1>2 DEF WithinBudget
<1>3. CASE MarkRunning
  <2>1. pc' = "spawn" /\ elapsed' = 0 /\ attempt' = 1 /\ cur' = cur /\ cur \in Requests
    BY <1>3, CurIsRegistered DEF MarkRunning
  <2>2. PerAttempt' \in Nat
    BY <2>1 DEF PerAttempt
  <2>3. 0 <= (attempt' - 1) * PerAttempt'
    BY <2>1, <2>2, NoAttemptYet
  <2> QED BY <2>1, <2>3 DEF WithinBudget
<1>4. CASE Spawn \/ CommandTimesOut \/ GraceExpires
  BY <1>4 DEF Spawn, CommandTimesOut, GraceExpires, WithinBudget, PerAttempt, Executing, Waiting
<1>5. CASE \E p \in alive, code \in {"zero", "nonzero"} : ProcessExits(p, code)
  BY <1>5 DEF ProcessExits, WithinBudget, PerAttempt
<1>6. ASSUME pc \in Executing \ {"backoff"}, pc' \in Executing,
             NEW spent \in Nat, spent <= CommandTimeout[cur] + GracePeriod, AttemptFails(spent)
      PROVE  WithinBudget'
  <2>1. /\ pc' = "backoff" /\ elapsed' = elapsed + spent
        /\ cur' = cur /\ attempt' = attempt
    BY <1>6 DEF AttemptFails, Conclude, Executing, Waiting
  <2>2. elapsed <= (attempt - 1) * PerAttempt
    BY <1>6 DEF WithinBudget
  <2>3. PerAttempt' = PerAttempt /\ PerAttempt = CommandTimeout[cur] + GracePeriod + RetryDelay
    BY <2>1 DEF PerAttempt
  <2>4. (attempt - 1) * PerAttempt + PerAttempt = attempt * PerAttempt
    BY <1>0, <1>6, AttemptSum
  <2>5. (attempt - 1) * PerAttempt \in Nat /\ CommandTimeout[cur] \in Nat
    BY <1>0, <1>6
  <2>6. elapsed + spent + RetryDelay <= attempt * PerAttempt
    BY <1>0, <1>6, <2>2, <2>3, <2>4, <2>5
  <2> QED BY <2>1, <2>3, <2>6 DEF WithinBudget
<1>7. CASE SpawnFails \/ CommandFails \/ CommandReaped
  <2>1. pc \in Executing \ {"backoff"} /\ CommandTimeout[cur] \in Nat
    BY <1>0, <1>7 DEF SpawnFails, CommandFails, CommandReaped, Executing, Waiting
  <2>2. \E spent \in Nat : spent <= CommandTimeout[cur] + GracePeriod /\ AttemptFails(spent)
    <3>1. CASE SpawnFails
      BY <2>1, <3>1 DEF SpawnFails
    <3>2. CASE CommandFails
      BY <2>1, <3>2 DEF CommandFails
    <3>3. CASE CommandReaped
      BY <2>1, <3>3 DEF CommandReaped
    <3> QED BY <1>7, <3>1, <3>2, <3>3
  <2> QED BY <1>2, <1>6, <2>1, <2>2
<1>8. CASE BackoffEnds
  <2>1. /\ pc = "backoff" /\ pc' = "spawn" /\ cur' = cur
        /\ attempt' = attempt + 1 /\ elapsed' = elapsed + RetryDelay
    BY <1>8 DEF BackoffEnds
  <2>2. elapsed' <= (attempt' - 1) * PerAttempt
    BY <1>0, <2>1 DEF WithinBudget, Executing
  <2> QED BY <2>1, <2>2 DEF WithinBudget, PerAttempt
<1>9. CASE Dequeue \/ CommandSucceeds \/ TotalTimeout \/ Interrupt \/ Restart
  BY <1>2, <1>9 DEF Dequeue, CommandSucceeds, TotalTimeout, Conclude, Interrupt, Restart,
     Executing, Waiting
<1>10. CASE Stop
  BY <1>10 DEF Stop, WithinBudget, PerAttempt, Executing, Waiting
<1>11. CASE \E r \in Requests : RejectDuplicate(r) \/ RejectFull(r) \/ Enqueue(r)
  BY <1>1, <1>11 DEF RejectDuplicate, RejectFull, Enqueue, Register, Respond
<1>12. CASE \E S \in SUBSET Serials : Cleanup(S)
  BY <1>1, <1>12 DEF Cleanup
<1>13. CASE UNCHANGED vars
  BY <1>1, <1>13 DEF vars
<1> QED
  BY <1>3, <1>4, <1>5, <1>7, <1>8, <1>9, <1>10, <1>11, <1>12, <1>13 DEF Next, WorkLoop

\* Only a killed command that does not die lets the total timeout expire.
LEMMA TotalTimeoutMeansHung ==
  ASSUME IInv, WithinBudget, TotalTimeout
  PROVE  pc = "killed" /\ Child \in alive
<1>0. /\ attempt \in Nat /\ elapsed \in Nat /\ attempt >= 1 /\ attempt <= MaxRetries
      /\ cur \in Requests /\ PerAttempt \in Nat /\ CommandTimeout[cur] \in Nat
      /\ pc \in Executing /\ MaxRetries \in Nat /\ TaskMaxTime \in Nat
      /\ GracePeriod \in Nat /\ RetryDelay \in Nat
  BY CurIsRegistered DEF TotalTimeout, IInv, TypeOK, LoopShape, PerAttempt, Executing, Waiting
<1>1. attempt * PerAttempt <= MaxRetries * PerAttempt
  BY <1>0, AttemptBound
<1>2. MaxRetries * PerAttempt < TaskMaxTime
  BY <1>0, RetryBudget DEF PerAttempt
<1>3. (attempt - 1) * PerAttempt + PerAttempt = attempt * PerAttempt
  BY <1>0, AttemptSum
<1>4. /\ attempt * PerAttempt \in Int /\ (attempt - 1) * PerAttempt \in Int
      /\ MaxRetries * PerAttempt \in Int
  BY <1>0
<1>5. attempt * PerAttempt < TaskMaxTime
  BY <1>0, <1>1, <1>2, <1>4
<1>6. CASE pc = "backoff"
  <2>1. elapsed + RetryDelay <= attempt * PerAttempt
    BY <1>0, <1>6 DEF WithinBudget
  <2>2. elapsed + RetryDelay >= TaskMaxTime
    BY <1>6 DEF TotalTimeout, LongestSoFar
  <2> QED BY <1>0, <1>4, <1>5, <2>1, <2>2
<1>7. CASE pc \in {"spawn", "command", "grace"}
  <2>1. elapsed <= (attempt - 1) * PerAttempt
    BY <1>0, <1>7 DEF WithinBudget
  <2>2. elapsed + CommandTimeout[cur] + GracePeriod <= attempt * PerAttempt
    <3>1. elapsed + PerAttempt <= attempt * PerAttempt
      BY <1>0, <1>3, <1>4, <2>1
    <3>2. PerAttempt = CommandTimeout[cur] + GracePeriod + RetryDelay
      BY DEF PerAttempt
    <3> QED BY <1>0, <1>4, <3>1, <3>2
  <2>3. LongestSoFar <= elapsed + CommandTimeout[cur] + GracePeriod
    BY <1>0, <1>7 DEF LongestSoFar
  <2>4. LongestSoFar >= TaskMaxTime /\ LongestSoFar \in Nat
    BY <1>0, <1>7 DEF TotalTimeout, LongestSoFar
  <2> QED BY <1>0, <1>4, <1>5, <2>2, <2>3, <2>4
<1>8. CASE pc = "killed"
  BY <1>8 DEF TotalTimeout, IInv, LoopShape, Waiting
<1> QED BY <1>0, <1>6, <1>7, <1>8 DEF Executing, Waiting

\* A task is marked timeout only when a killed command will not die, for all
\* limits that satisfy RetryBudget (_execute_with_retry under wait_for).
THEOREM TimeoutsAreUnkillable == Spec => TimeoutMeansUnkillable
<1> DEFINE TStep == \A r \in Requests :
       status[r] # "timeout" /\ status'[r] = "timeout"
         => r = cur /\ pc = "killed" /\ Child \in alive
<1>1. Init => WithinBudget
  BY DEF Init, WithinBudget, Executing, Waiting
<1>2. IInv /\ WithinBudget /\ [Next]_vars => [TStep]_vars
  <2> SUFFICES ASSUME IInv, WithinBudget, Next,
                      NEW r \in Requests, status[r] # "timeout", status'[r] = "timeout"
               PROVE  r = cur /\ pc = "killed" /\ Child \in alive
    OBVIOUS
  <2>1. CASE TotalTimeout
    <3>1. pc = "killed" /\ Child \in alive
      BY <2>1, TotalTimeoutMeansHung
    <3>2. tasks[SerialOf[cur]] = cur
      BY <3>1, CurIsRegistered
    <3>3. r = cur
      BY <2>1, <3>2 DEF TotalTimeout, Conclude, SetStatus
    <3> QED BY <3>1, <3>3
  <2>2. CASE ~TotalTimeout
    BY <2>2 DEF Next, WorkLoop, RejectDuplicate, RejectFull, Enqueue, Register, Respond, Dequeue,
       MarkRunning, Spawn, SpawnFails, CommandSucceeds, CommandFails, CommandTimesOut,
       GraceExpires, CommandReaped, BackoffEnds, AttemptFails, Conclude, SetStatus,
       ProcessExits, Cleanup, Stop, Interrupt, Restart, ledger, IInv, TypeOK
  <2> QED BY <2>1, <2>2
<1> QED BY <1>1, <1>2, Invariance, BudgetStep, PTL DEF Spec, TimeoutMeansUnkillable

-----------------------------------------------------------------------------
(* The worker implements TaskStatusView                                     *)

\* A change of the status of cur alone shows in the view at its serial alone.
LEMMA ViewOfSetStatus ==
  ASSUME IInv, pc \notin {"off", "poll"}, NEW st, SetStatus(cur, st)
  PROVE  TaskView' = [TaskView EXCEPT ![SerialOf[cur]] = st]
<1>1. /\ cur \in Requests /\ cur # NoTask /\ SerialOf[cur] \in Serials
      /\ tasks[SerialOf[cur]] = cur
      /\ \A s \in Serials : tasks[s] = cur => s = SerialOf[cur]
  BY CurIsRegistered
<1>2. tasks' = tasks /\ status' = [q \in Requests |-> IF q = cur THEN st ELSE status[q]]
  BY <1>1 DEF SetStatus
<1>3. \A s \in Serials : TaskView'[s] = IF s = SerialOf[cur] THEN st ELSE TaskView[s]
  BY <1>1, <1>2 DEF TaskView, IInv, TypeOK
<1> QED BY <1>1, <1>3 DEF TaskView

\* The end of a task is a Finish step of the status API.
LEMMA FinishView ==
  ASSUME IInv, pc \in Executing, NEW outcome \in Outcomes, Conclude(outcome)
  PROVE  StatusView!Finish(SerialOf[cur], outcome) /\ SerialOf[cur] \in Serials
<1>1. pc \notin {"off", "poll", "taken"}
  BY DEF Executing, Waiting
<1>2. SerialOf[cur] \in Serials /\ tasks[SerialOf[cur]] = cur /\ cur # NoTask /\ cur \in Requests
  BY <1>1, CurIsRegistered
<1>3. TaskView[SerialOf[cur]] = "running"
  BY <1>1, <1>2 DEF TaskView, IInv, LedgerAgrees
<1>4. TaskView' = [TaskView EXCEPT ![SerialOf[cur]] = outcome]
  BY <1>1, ViewOfSetStatus DEF Conclude
<1> QED BY <1>2, <1>3, <1>4 DEF StatusView!Finish

\* Every step of the worker is a step of the status API or invisible to it.
LEMMA StepRefines == IInv /\ [Next]_vars => [StatusView!Next]_TaskView
<1> SUFFICES ASSUME IInv, [Next]_vars PROVE StatusView!Next \/ UNCHANGED TaskView
  OBVIOUS
<1>1. CASE UNCHANGED <<tasks, status>>
  BY <1>1 DEF TaskView
<1>2. ASSUME NEW r \in Requests, Enqueue(r) PROVE StatusView!Next
  <2>1. /\ SerialOf[r] \in Serials /\ SerialOf[r] \notin active
        /\ tasks' = [tasks EXCEPT ![SerialOf[r]] = r]
        /\ status' = [status EXCEPT ![r] = "pending"]
        /\ status[r] = "none" /\ r # NoTask
    BY <1>2 DEF Enqueue, Register, Respond, IInv, Registry
  <2>2. TaskView[SerialOf[r]] \notin {"pending", "running"}
    <3>1. CASE tasks[SerialOf[r]] = NoTask
      BY <2>1, <3>1 DEF TaskView
    <3>2. CASE tasks[SerialOf[r]] # NoTask
      <4>1. status[tasks[SerialOf[r]]] \notin {"pending", "running"}
        BY <2>1, <3>2 DEF IInv, Registry, Outcomes
      <4> QED BY <2>1, <3>2, <4>1 DEF TaskView
    <3> QED BY <3>1, <3>2
  <2>3. \A s \in Serials : s # SerialOf[r] => tasks[s] # r
    BY <2>1 DEF IInv, Registry
  <2>4. TaskView' = [TaskView EXCEPT ![SerialOf[r]] = "pending"]
    BY <2>1, <2>3 DEF TaskView, IInv, TypeOK
  <2> QED BY <2>1, <2>2, <2>4 DEF StatusView!Next, StatusView!Accept
<1>3. CASE MarkRunning
  <2>1. pc = "taken" /\ SetStatus(cur, "running")
    BY <1>3 DEF MarkRunning
  <2>2. /\ SerialOf[cur] \in Serials /\ tasks[SerialOf[cur]] = cur /\ cur # NoTask
        /\ cur \in Requests /\ status[cur] = "pending"
    BY <2>1, CurIsRegistered DEF IInv, LedgerAgrees
  <2>3. TaskView[SerialOf[cur]] = "pending"
    BY <2>2 DEF TaskView
  <2>4. \A s \in Serials : TaskView[s] # "running"
    BY <2>1, <2>2 DEF TaskView, IInv, Registry
  <2>5. TaskView' = [TaskView EXCEPT ![SerialOf[cur]] = "running"]
    BY <2>1, ViewOfSetStatus
  <2> QED BY <2>2, <2>3, <2>4, <2>5 DEF StatusView!Next, StatusView!Begin
<1>4. CASE SpawnFails \/ CommandFails \/ CommandReaped
  <2>1. pc \in Executing /\ \E spent : AttemptFails(spent)
    BY <1>4 DEF SpawnFails, CommandFails, CommandReaped, Executing, Waiting
  <2>2. Conclude("failed") \/ UNCHANGED <<tasks, status>>
    BY <2>1 DEF AttemptFails, ledger
  <2> QED BY <1>1, <2>1, <2>2, FinishView DEF StatusView!Next, StatusView!Outcomes, Outcomes
<1>5. CASE CommandSucceeds
  BY <1>5, FinishView DEF CommandSucceeds, Executing, Waiting, StatusView!Next,
     StatusView!Outcomes, Outcomes
<1>6. CASE TotalTimeout
  BY <1>6, FinishView DEF TotalTimeout, StatusView!Next, StatusView!Outcomes, Outcomes
<1>7. ASSUME NEW S \in SUBSET Serials, Cleanup(S) PROVE StatusView!Next
  <2>1. /\ \A s \in S : tasks[s] # NoTask /\ status[tasks[s]] \in Outcomes
        /\ tasks' = [s \in Serials |-> IF s \in S THEN NoTask ELSE tasks[s]]
        /\ status' = status
    BY <1>7 DEF Cleanup
  <2>2. \A s \in S : TaskView[s] \in StatusView!Outcomes
    BY <2>1 DEF TaskView, StatusView!Outcomes, Outcomes
  <2>3. TaskView' = [s \in Serials |-> IF s \in S THEN "unknown" ELSE TaskView[s]]
    BY <2>1 DEF TaskView
  <2> QED BY <2>2, <2>3 DEF StatusView!Next, StatusView!Forget
<1>8. CASE Restart
  BY <1>8 DEF Restart, TaskView, StatusView!Next, StatusView!Restart
<1>9. CASE \E r \in Requests : RejectDuplicate(r) \/ RejectFull(r)
  BY <1>1, <1>9 DEF RejectDuplicate, RejectFull
<1>10. CASE \/ Dequeue \/ Spawn \/ CommandTimesOut \/ GraceExpires \/ BackoffEnds
            \/ Stop \/ Interrupt \/ UNCHANGED vars
            \/ \E p \in alive, code \in {"zero", "nonzero"} : ProcessExits(p, code)
  BY <1>1, <1>10 DEF Dequeue, Spawn, CommandTimesOut, GraceExpires, BackoffEnds, Stop,
     Interrupt, ProcessExits, ledger, vars
<1> QED
  BY <1>2, <1>3, <1>4, <1>5, <1>6, <1>7, <1>8, <1>9, <1>10 DEF Next, WorkLoop

\* Every behaviour of the queue and the worker is, for a client that polls by
\* serial number, a behaviour of TaskStatusView.
THEOREM Refinement == Spec => Implements
<1>1. Init => StatusView!Init
  BY DEF Init, StatusView!Init, TaskView
<1> QED BY <1>1, StepRefines, Invariance, PTL DEF Spec, Implements, StatusView!Spec
=============================================================================
