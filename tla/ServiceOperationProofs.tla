----------------------- MODULE ServiceOperationProofs -----------------------
(***************************************************************************)
(* Proofs about ServiceOperation, for all operations, requests, batch      *)
(* sizes, earlier rows and numbers of faults.                              *)
(*                                                                         *)
(* IInv says of the row what each writer relies on when it writes without  *)
(* looking; one lemma per writer shows that the writer keeps it.           *)
(***************************************************************************)
EXTENDS ServiceOperation, TLAPS

HasRow(o) == status[o] # "none"

\* A writer only writes rows that are there; every row has its place in created; what a
\* call has recorded has a started_at; a polled status waits for its operation's turn.
Rows ==
  /\ \A o \in Ops : HasRow(o) => \E i \in DOMAIN created : created[i] = o
  /\ \A c \in Calls :
       /\ call[c] \in {"send", "sent", "accepted", "failed"} => HasRow(OpOf[c])
       /\ call[c] \in {"recorded", "given_up"} => OpOf[c] \in started
  /\ \A o \in tracker.todo \cup started : HasRow(o)
  /\ tracker.got # "none" => tracker.phase = "poll" /\ tracker.todo # {}

\* Whoever says success, controllersrv, the row or the polled status, has a reason.
Truth ==
  /\ \A o \in Ops : view[o] = "success" => o \in done
  /\ SuccessIsReal
  /\ \A o \in Ops : IsNext(o) /\ tracker.got = "success" => o \in done

\* The inductive invariant.
IInv == TypeOK /\ Rows /\ Truth

USE ServiceOperationAssumption DEF HasRow

-----------------------------------------------------------------------------

\* The invariant holds when infrasrv starts, whatever rows it finds PENDING.
LEMMA InitIInv == Init => IInv
<1> SUFFICES ASSUME Init PROVE IInv
  OBVIOUS
<1>1. ToSet(Earlier) \subseteq Ops /\ \A o \in ToSet(Earlier) : \E i \in DOMAIN Earlier : Earlier[i] = o
  BY DEF ToSet
<1>2. TypeOK
  BY <1>1 DEF Init, TypeOK, Statuses, Final, Waiting, Controllersrv!Init, Controllersrv!TypeOK,
     Controllersrv!Answers, Controllersrv!Outcomes
<1>3. Rows
  BY <1>1 DEF Init, Rows, Waiting
<1>4. Truth
  BY DEF Init, Truth, SuccessIsReal, Waiting, Controllersrv!Init
<1> QED BY <1>2, <1>3, <1>4 DEF IInv

\* Of two operations in a batch one comes first, so a polled status is of one operation.
LEMMA OneIsNext ==
  ASSUME IInv, NEW o \in Ops, NEW p \in Ops, IsNext(o), IsNext(p)
  PROVE  o = p
<1>1. PICK i \in DOMAIN created : created[i] = o
  BY DEF IInv, Rows, IsNext
<1>2. PICK j \in DOMAIN created : created[j] = p
  BY DEF IInv, Rows, IsNext
<1>3. i \in Int /\ j \in Int /\ ~(i < j) /\ ~(j < i)
  BY <1>1, <1>2 DEF IsNext, CreatedBefore, IInv, TypeOK
<1> QED BY <1>1, <1>2, <1>3

\* A batch consists of operations of the age asked for that have rows.
LEMMA BatchHasRows ==
  ASSUME NEW ages \in SUBSET Ops
  PROVE  Batch(ages) \subseteq ages /\ \A o \in Batch(ages) : HasRow(o)
  BY DEF Batch, Unfinished

\* A call keeps the invariant (execute_service_management).
LEMMA CallIInv ==
  ASSUME IInv, NEW c \in Calls, CallStep(c)
  PROVE  IInv'
<1> DEFINE o == OpOf[c]
<1>0. /\ o \in Ops
      /\ UNCHANGED <<old, view, done, tracker, faults>>
      /\ call[c] # call'[c]
      /\ \E to : call' = [call EXCEPT ![c] = to]
  BY DEF CallStep, Look, Create, CreateFails, Send, Receive, GiveUp, Record, RecordFails, Goes,
     controllersrv, IInv, TypeOK
<1>1. CASE Create(c) /\ status[o] = "none"
  <2>1. /\ call[c] = "create" /\ call' = [call EXCEPT ![c] = "send"]
        /\ status' = [status EXCEPT ![o] = "pending"]
        /\ created' = Append(created, o)
        /\ UNCHANGED <<started, net>>
    BY <1>1 DEF Create, Goes
  <2>2. TypeOK'
    BY <1>0, <2>1 DEF IInv, TypeOK, Statuses, Controllersrv!TypeOK
  <2>3. \A i \in DOMAIN created : i \in DOMAIN created' /\ created'[i] = created[i]
    BY <1>0, <2>1 DEF IInv, TypeOK
  <2>4. \E i \in DOMAIN created' : created'[i] = o
    <3>1. created \in Seq(Ops) /\ Len(created) + 1 \in DOMAIN created'
      BY <1>0, <2>1 DEF IInv, TypeOK
    <3> QED BY <1>0, <2>1, <3>1
  <2>5. Rows'
    BY <1>0, <2>1, <2>3, <2>4 DEF IInv, TypeOK, Rows
  <2>6. \A p \in Ops : IsNext(p)' => IsNext(p)
    BY <1>0, <2>3 DEF IsNext, CreatedBefore
  <2>7. Truth'
    BY <1>0, <2>1, <2>6 DEF IInv, TypeOK, Truth, SuccessIsReal
  <2> QED BY <2>2, <2>5, <2>7 DEF IInv
<1>2. CASE Record(c)
  <2>1. /\ \/ /\ call[c] = "accepted" /\ call' = [call EXCEPT ![c] = "recorded"]
              /\ status' = [status EXCEPT ![o] = "running"]
           \/ /\ call[c] = "failed" /\ call' = [call EXCEPT ![c] = "given_up"]
              /\ status' = [status EXCEPT ![o] = "failed"]
        /\ started' = started \cup {o}
        /\ UNCHANGED <<created, net>>
    BY <1>2 DEF Record, Goes
  <2>2. TypeOK'
    BY <1>0, <2>1 DEF IInv, TypeOK, Statuses, Final, Controllersrv!TypeOK
  <2>3. Rows'
    BY <1>0, <2>1 DEF IInv, TypeOK, Rows
  <2>4. Truth'
    BY <1>0, <2>1 DEF IInv, TypeOK, Truth, SuccessIsReal, IsNext, CreatedBefore
  <2> QED BY <2>2, <2>3, <2>4 DEF IInv
<1>3. CASE Look(c) \/ CreateFails(c) \/ Send(c) \/ Receive(c) \/ GiveUp(c) \/ RecordFails(c)
           \/ (Create(c) /\ status[o] # "none")
  <2>1. UNCHANGED row
    BY <1>3 DEF Look, Create, CreateFails, Send, Receive, GiveUp, RecordFails, row
  <2>2. TypeOK'
    BY <1>0, <1>3, <2>1 DEF Look, Create, CreateFails, Send, Receive, GiveUp, RecordFails, Goes, row,
       IInv, TypeOK, Controllersrv!TypeOK
  <2>3. \/ call'[c] \in {"create", "refused", "unrecorded"}
        \/ call'[c] \in {"send", "sent", "accepted", "failed"} /\ HasRow(o)
    BY <1>0, <1>3 DEF Look, Create, CreateFails, Send, Receive, GiveUp, RecordFails, Goes, IInv,
       TypeOK, Rows
  <2>4. Rows'
    BY <1>0, <2>1, <2>3 DEF row, IInv, TypeOK, Rows
  <2>5. Truth'
    BY <1>0, <2>1 DEF row, IInv, Truth, SuccessIsReal, IsNext, CreatedBefore
  <2> QED BY <2>2, <2>4, <2>5 DEF IInv
<1> QED BY <1>1, <1>2, <1>3 DEF CallStep

\* controllersrv keeps the invariant: it never touches a row.
LEMMA ControllersrvIInv ==
  ASSUME IInv,
         \/ \E c \in Calls : Arrive(c) \/ Reject(c)
         \/ \E o \in Ops : TaskBegins(o) \/ \E outcome \in Final : TaskFinishes(o, outcome)
         \/ Forgets \/ ControllersrvRestarts
  PROVE  IInv'
<1>1. UNCHANGED <<row, old, call, tracker>> /\ done \subseteq done'
  BY DEF Arrive, Reject, TaskBegins, TaskFinishes, Forgets, ControllersrvRestarts,
     ControllersrvOnly, controllersrv
<1>2. TypeOK'
  <2>1. view' \in [Ops -> Controllersrv!Answers] /\ done' \subseteq Ops
    BY DEF Arrive, Reject, TaskBegins, TaskFinishes, Forgets, ControllersrvRestarts, controllersrv,
       Controllersrv!Accept, Controllersrv!Begin, Controllersrv!Finish, Controllersrv!Forget,
       Controllersrv!Restart, Controllersrv!Answers, Controllersrv!Outcomes, Controllersrv!TypeOK,
       Final, IInv, TypeOK
  <2>2. net' \in [Calls -> {"none", "request", "accepted", "rejected"}] /\ faults' \in 0..MaxFaults
    BY DEF Arrive, Reject, TaskBegins, TaskFinishes, Forgets, ControllersrvRestarts,
       ControllersrvOnly, IInv, TypeOK
  <2> QED BY <1>1, <2>1, <2>2 DEF row, IInv, TypeOK, Controllersrv!TypeOK
<1>3. Rows'
  BY <1>1 DEF row, IInv, Rows
<1>4. Truth'
  <2>1. \A o \in Ops : view'[o] = "success" => o \in done'
    BY DEF Arrive, Reject, TaskBegins, TaskFinishes, Forgets, ControllersrvRestarts, controllersrv,
       Controllersrv!Accept, Controllersrv!Begin, Controllersrv!Finish, Controllersrv!Forget,
       Controllersrv!Restart, Controllersrv!TypeOK, IInv, TypeOK, Truth
  <2> QED BY <1>1, <2>1 DEF row, IInv, Truth, SuccessIsReal, IsNext, CreatedBefore
<1> QED BY <1>2, <1>3, <1>4 DEF IInv

\* The tracker keeps the invariant (run_once).
LEMMA TrackerIInv ==
  ASSUME IInv, TrackerStep
  PROVE  IInv'
<1>0. UNCHANGED <<old, call, net, view, done, faults>>
  BY DEF TrackerStep, Tick, LookForStale, TickEnds, Ask, AskFails, Save, TimeOut, TrackerOnly,
     controllersrv
<1>1. CASE Tick \/ LookForStale \/ TickEnds
  <2>1. /\ UNCHANGED row
        /\ tracker'.got = "none" /\ tracker'.todo \subseteq Ops
        /\ \A o \in tracker'.todo : HasRow(o)
        /\ tracker' \in [phase : {"idle", "poll", "stale"}, todo : SUBSET Ops, got : Statuses]
    <3>1. CASE Tick
      BY <3>1, BatchHasRows DEF Tick, Statuses, IInv, TypeOK
    <3>2. CASE LookForStale
      BY <3>2, BatchHasRows DEF LookForStale, Statuses, IInv, TypeOK, Rows
    <3>3. CASE TickEnds
      BY <3>3 DEF TickEnds, Waiting, Statuses
    <3> QED BY <1>1, <3>1, <3>2, <3>3
  <2>2. TypeOK'
    BY <1>0, <2>1 DEF row, IInv, TypeOK, Controllersrv!TypeOK
  <2>3. Rows'
    BY <1>0, <2>1 DEF row, IInv, Rows
  <2>4. Truth'
    BY <1>0, <2>1 DEF row, IInv, Truth, SuccessIsReal
  <2> QED BY <2>2, <2>3, <2>4 DEF IInv
<1>2. ASSUME NEW o \in Ops, Ask(o) PROVE IInv'
  <2>1. /\ UNCHANGED row
        /\ tracker' = [tracker EXCEPT !.got = view[o]]
        /\ tracker.phase = "poll" /\ IsNext(o) /\ view[o] # "unknown"
    BY <1>2 DEF Ask, Polling
  <2>2. TypeOK'
    BY <1>0, <2>1 DEF row, IInv, TypeOK, Statuses, Final, Controllersrv!TypeOK,
       Controllersrv!Answers, Controllersrv!Outcomes
  <2>3. Rows'
    BY <1>0, <2>1 DEF row, IInv, TypeOK, Rows, IsNext
  <2>4. \A p \in Ops : IsNext(p)' => p = o
    BY <2>1, OneIsNext DEF row, IInv, TypeOK, IsNext, CreatedBefore
  <2>5. Truth'
    BY <1>0, <2>1, <2>4 DEF row, IInv, TypeOK, Truth, SuccessIsReal
  <2> QED BY <2>2, <2>3, <2>5 DEF IInv
<1>3. ASSUME NEW o \in Ops, AskFails(o) PROVE IInv'
  <2>1. /\ UNCHANGED row
        /\ tracker.got = "none"
        /\ tracker' = [tracker EXCEPT !.todo = @ \ {o}]
    BY <1>3 DEF AskFails
  <2>2. TypeOK'
    BY <1>0, <2>1 DEF row, IInv, TypeOK, Controllersrv!TypeOK
  <2>3. Rows'
    BY <1>0, <2>1 DEF row, IInv, TypeOK, Rows
  <2>4. Truth'
    BY <1>0, <2>1 DEF row, IInv, TypeOK, Truth, SuccessIsReal
  <2> QED BY <2>2, <2>3, <2>4 DEF IInv
<1>4. ASSUME NEW o \in Ops, Save(o) PROVE IInv'
  <2>1. /\ IsNext(o) /\ tracker.got # "none"
        /\ status' = [status EXCEPT ![o] = tracker.got]
        /\ started' \in {started, started \cup {o}}
        /\ tracker' = [tracker EXCEPT !.todo = @ \ {o}, !.got = "none"]
        /\ UNCHANGED created
    BY <1>4 DEF Save, Polling
  <2>2. TypeOK'
    BY <1>0, <2>1 DEF IInv, TypeOK, Statuses, Controllersrv!TypeOK
  <2>3. Rows'
    BY <1>0, <2>1 DEF IInv, TypeOK, Rows, IsNext
  <2>4. Truth'
    BY <1>0, <2>1 DEF IInv, TypeOK, Truth, SuccessIsReal
  <2> QED BY <2>2, <2>3, <2>4 DEF IInv
<1>5. ASSUME NEW o \in Ops, TimeOut(o) PROVE IInv'
  <2>1. /\ IsNext(o) /\ tracker.phase = "stale"
        /\ status' = [status EXCEPT ![o] = "timeout"]
        /\ tracker' = [tracker EXCEPT !.todo = @ \ {o}]
        /\ UNCHANGED <<started, created>>
    BY <1>5 DEF TimeOut
  <2>2. TypeOK'
    BY <1>0, <2>1 DEF IInv, TypeOK, Statuses, Final, Controllersrv!TypeOK
  <2>3. Rows'
    BY <1>0, <2>1 DEF IInv, TypeOK, Rows, IsNext
  <2>4. Truth'
    BY <1>0, <2>1 DEF IInv, TypeOK, Rows, Truth, SuccessIsReal
  <2> QED BY <2>2, <2>3, <2>4 DEF IInv
<1> QED BY <1>1, <1>2, <1>3, <1>4, <1>5 DEF TrackerStep

\* Time, failed ticks and restarts of infrasrv keep the invariant.
LEMMA FaultIInv ==
  ASSUME IInv, (\E o \in Ops : Age(o)) \/ TickFails \/ Crash
  PROVE  IInv'
<1>1. /\ UNCHANGED <<row, net, view, done>>
      /\ tracker' \in {tracker, Waiting}
      /\ \A c \in Calls : call'[c] \in {call[c], "dead"}
  BY DEF Age, TickFails, Crash, controllersrv, IInv, TypeOK
<1>2. TypeOK'
  BY DEF Age, TickFails, Crash, row, controllersrv, Waiting, Statuses, IInv, TypeOK,
     Controllersrv!TypeOK
<1>3. Rows'
  BY <1>1 DEF row, Waiting, IInv, Rows
<1>4. Truth'
  BY <1>1 DEF row, Waiting, IInv, Truth, SuccessIsReal, IsNext, CreatedBefore
<1> QED BY <1>2, <1>3, <1>4 DEF IInv

\* Every step keeps the invariant.
LEMMA StepIInv == IInv /\ [Next]_vars => IInv'
<1>1. ASSUME IInv, UNCHANGED vars PROVE IInv'
  BY <1>1 DEF vars, row, controllersrv, IInv, TypeOK, Rows, Truth, SuccessIsReal, IsNext,
     CreatedBefore, Controllersrv!TypeOK
<1> QED BY <1>1, CallIInv, ControllersrvIInv, TrackerIInv, FaultIInv DEF Next

\* The invariant holds throughout every behaviour.
LEMMA Invariance == Spec => []IInv
  BY InitIInv, StepIInv, PTL DEF Spec

-----------------------------------------------------------------------------

\* Type correctness of the rows, the calls and the tracker's tick.
THEOREM Typing == Spec => []TypeOK
<1>1. IInv => TypeOK
  BY DEF IInv
<1> QED BY <1>1, Invariance, PTL

\* A row says SUCCESS only of an operation that has been performed
\* (execute_service_management, _sync_operation).
THEOREM SuccessCorrect == Spec => []SuccessIsReal
<1>1. IInv => SuccessIsReal
  BY DEF IInv, Truth
<1> QED BY <1>1, Invariance, PTL

\* What a call has recorded keeps a later request for the operation from being sent
\* (execute_service_management).
THEOREM RecordedOnce == Spec => NotSentAgain
<1> DEFINE Step == \A c, d \in Calls :
       /\ call[c] = "idle" /\ call'[c] \in {"create", "send"}
       /\ call[d] \in {"recorded", "given_up"}
       => OpOf[c] # OpOf[d]
<1>1. IInv /\ [Next]_vars => [Step]_vars
  <2> SUFFICES ASSUME IInv, Next, NEW c \in Calls, NEW d \in Calls,
                      call[c] = "idle", call'[c] \in {"create", "send"},
                      call[d] \in {"recorded", "given_up"}, OpOf[c] = OpOf[d]
               PROVE  FALSE
    OBVIOUS
  <2>1. OpOf[c] \in started /\ HasRow(OpOf[c])
    BY DEF IInv, Rows
  <2>2. ~Look(c)
    BY <2>1 DEF Look, Goes, IInv, TypeOK
  <2>3. \A e \in Calls : ~CallStep(e)
    BY <2>2 DEF CallStep, Look, Create, CreateFails, Send, Receive, GiveUp, Record, RecordFails,
       Goes, IInv, TypeOK
  <2>4. call' = call \/ Crash
    BY <2>3 DEF Next, Arrive, Reject, TaskBegins, TaskFinishes, Forgets, ControllersrvOnly,
       TrackerStep, Tick, LookForStale, TickEnds, Ask, AskFails, Save, TimeOut, TrackerOnly, Age,
       TickFails, ControllersrvRestarts
  <2> QED BY <2>4 DEF Crash, InProgress
<1> QED BY <1>1, Invariance, PTL DEF Spec, NotSentAgain

-----------------------------------------------------------------------------
(* An accepted operation is tracked to the end                              *)

NotSent(c) == call[c] \in {"idle", "create", "send", "refused"}
Sole(c) == \A d \in Calls \ {c} : OpOf[d] = OpOf[c] => NotSent(d)
OnItsWay(c) == NotSent(c) \/ net[c] = "request"

\* Before the request of the only call that sends an operation has arrived, controllersrv
\* does not know it; from then on until its task has finished, neither the row nor the
\* polled status is final, unless the operation is too old or the call has given it up.
Tracked ==
  /\ \A c \in Calls : NotSent(c) => net[c] = "none"
  /\ tracker.phase = "stale" => tracker.todo \subseteq old
  /\ \A c \in Calls : Sole(c) /\ OnItsWay(c) => view[OpOf[c]] = "unknown"
  /\ \A c \in Calls :
       /\ Sole(c) /\ call[c] # "given_up" /\ OpOf[c] \notin old
       /\ OnItsWay(c) \/ view[OpOf[c]] \in Unfinished
       => /\ status[OpOf[c]] \notin Final
          /\ ~(IsNext(OpOf[c]) /\ tracker.got \in Final)

LEMMA InitTracked == Init => Tracked
  BY DEF Init, Tracked, Waiting, NotSent, OnItsWay, Controllersrv!Init, Final, Unfinished

\* A call keeps it: whoever else could write the row has not been sent.
LEMMA CallTracked ==
  ASSUME IInv, Tracked, NEW c \in Calls, CallStep(c)
  PROVE  Tracked'
<1>0. /\ UNCHANGED <<old, view, done, tracker>>
      /\ \E to : call' = [call EXCEPT ![c] = to]
      /\ call \in [Calls -> {"idle", "create", "send", "sent", "accepted", "failed",
                              "recorded", "given_up", "unrecorded", "refused", "dead"}]
  BY DEF CallStep, Look, Create, CreateFails, Send, Receive, GiveUp, Record, RecordFails, Goes,
     controllersrv, IInv, TypeOK
<1>1. \A d \in Calls : NotSent(d)' => NotSent(d)
  BY <1>0 DEF CallStep, Look, Create, CreateFails, Send, Receive, GiveUp, Record, RecordFails, Goes,
     NotSent
<1>2. \A d \in Calls : Sole(d)' => Sole(d)
  BY <1>1 DEF Sole
<1>3. \A d \in Calls : OnItsWay(d)' => OnItsWay(d)
  BY <1>0, <1>1 DEF CallStep, Look, Create, CreateFails, Send, Receive, GiveUp, Record, RecordFails,
     Goes, OnItsWay, NotSent, IInv, TypeOK
<1>4. \A d \in Calls : NotSent(d)' => net'[d] = "none"
  BY <1>0, <1>1 DEF CallStep, Look, Create, CreateFails, Send, Receive, GiveUp, Record, RecordFails,
     Goes, NotSent, IInv, TypeOK, Tracked
<1>5. \A d \in Calls : Sole(d)' /\ OnItsWay(d)' => view'[OpOf[d]] = "unknown"
  BY <1>0, <1>2, <1>3 DEF Tracked
<1>6. \A o \in Ops : IsNext(o)' => IsNext(o)
  <2>1. \A i \in DOMAIN created : i \in DOMAIN created' /\ created'[i] = created[i]
    BY DEF CallStep, Look, Create, CreateFails, Send, Receive, GiveUp, Record, RecordFails, row,
       IInv, TypeOK
  <2> QED BY <1>0, <2>1 DEF IsNext, CreatedBefore
<1>7. ASSUME NEW d \in Calls, Sole(d)', call'[d] # "given_up", OpOf[d] \notin old',
             OnItsWay(d)' \/ view'[OpOf[d]] \in Unfinished
      PROVE  /\ status'[OpOf[d]] \notin Final
             /\ ~(IsNext(OpOf[d])' /\ tracker'.got \in Final)
  <2>1. call[d] # "given_up"
    BY <1>0, <1>7 DEF CallStep, Look, Create, CreateFails, Send, Receive, GiveUp, Record,
       RecordFails, Goes
  <2>2. /\ status[OpOf[d]] \notin Final
        /\ ~(IsNext(OpOf[d]) /\ tracker.got \in Final)
    BY <1>0, <1>2, <1>3, <1>7, <2>1 DEF Tracked
  <2>3. CASE c # d /\ OpOf[c] = OpOf[d] /\ Record(c)
    BY <1>2, <1>7, <2>3 DEF Sole, NotSent, Record, Goes
  <2>4. CASE c = d /\ Record(c)
    BY <1>0, <1>6, <1>7, <2>2, <2>4 DEF Record, Goes, Final, IInv, TypeOK
  <2>5. CASE Create(c)
    BY <1>0, <1>6, <2>2, <2>5 DEF Create, Goes, Final, IInv, TypeOK
  <2>6. CASE ~Create(c) /\ (OpOf[c] # OpOf[d] \/ ~Record(c))
    <3>1. status'[OpOf[d]] = status[OpOf[d]]
      BY <2>6 DEF CallStep, Look, CreateFails, Send, Receive, GiveUp, Record, RecordFails, row,
         IInv, TypeOK
    <3> QED BY <1>0, <1>6, <2>2, <3>1
  <2> QED BY <2>3, <2>4, <2>5, <2>6
<1> QED BY <1>0, <1>4, <1>5, <1>7 DEF Tracked

\* controllersrv keeps it: only the request of the sole call can make it know the operation.
LEMMA ControllersrvTracked ==
  ASSUME IInv, Tracked,
         \/ \E c \in Calls : Arrive(c) \/ Reject(c)
         \/ \E o \in Ops : TaskBegins(o) \/ \E outcome \in Final : TaskFinishes(o, outcome)
         \/ Forgets \/ ControllersrvRestarts
  PROVE  Tracked'
<1>1. UNCHANGED <<row, old, call, tracker>>
  BY DEF Arrive, Reject, TaskBegins, TaskFinishes, Forgets, ControllersrvRestarts,
     ControllersrvOnly
<1>2. \A c \in Calls : (Sole(c)' <=> Sole(c)) /\ (NotSent(c)' <=> NotSent(c))
  BY <1>1 DEF Sole, NotSent
<1>3. \A o \in Ops : IsNext(o)' <=> IsNext(o)
  BY <1>1 DEF row, IsNext, CreatedBefore
<1>4. ASSUME NEW a \in Calls, Arrive(a) PROVE Tracked'
  <2>1. /\ net[a] = "request" /\ net' = [net EXCEPT ![a] = "accepted"]
        /\ view' = [view EXCEPT ![OpOf[a]] = "pending"]
    BY <1>4 DEF Arrive, Controllersrv!Accept
  <2>2. ~NotSent(a)
    BY <2>1 DEF Tracked
  <2>3. \A c \in Calls : Sole(c) /\ c # a => OpOf[c] # OpOf[a]
    BY <2>2 DEF Sole
  <2>4. \A c \in Calls : OnItsWay(c)' => OnItsWay(c) /\ c # a
    BY <1>2, <2>1, <2>2 DEF OnItsWay, IInv, TypeOK
  <2>5. \A c \in Calls : c # a /\ Sole(c) => view'[OpOf[c]] = view[OpOf[c]]
    BY <2>1, <2>3 DEF IInv, TypeOK, Controllersrv!TypeOK
  <2>6. \A c \in Calls : NotSent(c)' => net'[c] = "none"
    BY <1>2, <2>1, <2>2 DEF Tracked, IInv, TypeOK
  <2>7. OnItsWay(a)
    BY <2>1 DEF OnItsWay
  <2> QED BY <1>1, <1>2, <1>3, <2>4, <2>5, <2>6, <2>7 DEF Tracked, row
<1>5. ASSUME NEW a \in Calls, Reject(a) PROVE Tracked'
  <2>1. /\ net[a] = "request" /\ net' = [net EXCEPT ![a] = "rejected"]
        /\ UNCHANGED view
    BY <1>5 DEF Reject, controllersrv
  <2>2. \A c \in Calls : OnItsWay(c)' => OnItsWay(c)
    BY <1>2, <2>1 DEF OnItsWay, IInv, TypeOK
  <2>3. \A c \in Calls : NotSent(c)' => net'[c] = "none"
    BY <1>2, <2>1 DEF Tracked, IInv, TypeOK
  <2> QED BY <1>1, <1>2, <1>3, <2>1, <2>2, <2>3 DEF Tracked, row
<1>6. CASE \/ \E o \in Ops : TaskBegins(o) \/ \E outcome \in Final : TaskFinishes(o, outcome)
           \/ Forgets \/ ControllersrvRestarts
  <2>1. UNCHANGED net
    BY <1>6 DEF TaskBegins, TaskFinishes, Forgets, ControllersrvRestarts
  <2>2. \A o \in Ops :
          /\ view[o] = "unknown" => view'[o] = "unknown"
          /\ view'[o] \in Unfinished => view[o] \in Unfinished
    BY <1>6 DEF TaskBegins, TaskFinishes, Forgets, ControllersrvRestarts, Controllersrv!Begin,
       Controllersrv!Finish, Controllersrv!Forget, Controllersrv!Restart, Controllersrv!Outcomes,
       Controllersrv!TypeOK, Unfinished, Final, IInv, TypeOK
  <2>3. \A c \in Calls : OnItsWay(c)' <=> OnItsWay(c)
    BY <1>2, <2>1 DEF OnItsWay
  <2> QED BY <1>1, <1>2, <1>3, <2>1, <2>2, <2>3 DEF Tracked, row
<1> QED BY <1>4, <1>5, <1>6

\* The tracker keeps it: it polls no outcome before there is one, and gives up old ones only.
LEMMA TrackerTracked ==
  ASSUME IInv, Tracked, TrackerStep
  PROVE  Tracked'
<1>0. UNCHANGED <<old, call, net, view>>
  BY DEF TrackerStep, Tick, LookForStale, TickEnds, Ask, AskFails, Save, TimeOut, TrackerOnly,
     controllersrv
<1>1. \A c \in Calls :
        (Sole(c)' <=> Sole(c)) /\ (NotSent(c)' <=> NotSent(c)) /\ (OnItsWay(c)' <=> OnItsWay(c))
  BY <1>0 DEF Sole, NotSent, OnItsWay
<1> DEFINE Open(c) == /\ Sole(c) /\ call[c] # "given_up" /\ OpOf[c] \notin old
                      /\ OnItsWay(c) \/ view[OpOf[c]] \in Unfinished
<1>2. SUFFICES /\ tracker'.phase = "stale" => tracker'.todo \subseteq old
               /\ \A c \in Calls : Open(c) => /\ status'[OpOf[c]] \notin Final
                                              /\ ~(IsNext(OpOf[c])' /\ tracker'.got \in Final)
  BY <1>0, <1>1 DEF Tracked
<1>3. \A c \in Calls : Open(c) => /\ status[OpOf[c]] \notin Final
                                  /\ ~(IsNext(OpOf[c]) /\ tracker.got \in Final)
                                  /\ view[OpOf[c]] \notin Final
  BY DEF Tracked, Unfinished, Final
<1> HIDE DEF Open
<1>4. CASE Tick \/ LookForStale \/ TickEnds
  <2>1. /\ UNCHANGED status
        /\ tracker'.got = "none"
        /\ tracker'.phase = "stale" => tracker'.todo \subseteq old
    <3>1. CASE Tick
      BY <3>1 DEF Tick, row
    <3>2. CASE LookForStale
      <4>1. Batch(old) \subseteq old
        BY BatchHasRows DEF IInv, TypeOK
      <4>2. tracker.got = "none" /\ tracker'.got = tracker.got /\ tracker'.todo = Batch(old)
        BY <3>2 DEF LookForStale, IInv, TypeOK, Rows
      <4> QED BY <3>2, <4>1, <4>2 DEF LookForStale, row
    <3>3. CASE TickEnds
      BY <3>3 DEF TickEnds, Waiting, row
    <3> QED BY <1>4, <3>1, <3>2, <3>3
  <2> QED BY <1>3, <2>1 DEF Final
<1>5. ASSUME NEW o \in Ops, Ask(o)
      PROVE  /\ tracker'.phase = "stale" => tracker'.todo \subseteq old
             /\ \A c \in Calls : Open(c) => /\ status'[OpOf[c]] \notin Final
                                            /\ ~(IsNext(OpOf[c])' /\ tracker'.got \in Final)
  <2>1. /\ UNCHANGED row /\ IsNext(o) /\ tracker.phase = "poll"
        /\ tracker'.got = view[o] /\ tracker'.todo = tracker.todo /\ tracker'.phase = "poll"
    BY <1>5 DEF Ask, Polling, IInv, TypeOK
  <2>2. \A p \in Ops : IsNext(p)' => p = o
    BY <2>1, OneIsNext DEF row, IsNext, CreatedBefore
  <2> QED BY <1>3, <2>1, <2>2 DEF row
<1>6. ASSUME NEW o \in Ops, AskFails(o)
      PROVE  /\ tracker'.phase = "stale" => tracker'.todo \subseteq old
             /\ \A c \in Calls : Open(c) => /\ status'[OpOf[c]] \notin Final
                                            /\ ~(IsNext(OpOf[c])' /\ tracker'.got \in Final)
  <2>1. UNCHANGED status /\ tracker'.got = "none" /\ tracker'.phase = "poll"
    BY <1>6 DEF AskFails, Polling, row, IInv, TypeOK
  <2> QED BY <1>3, <2>1 DEF Final
<1>7. ASSUME NEW o \in Ops, Save(o)
      PROVE  /\ tracker'.phase = "stale" => tracker'.todo \subseteq old
             /\ \A c \in Calls : Open(c) => /\ status'[OpOf[c]] \notin Final
                                            /\ ~(IsNext(OpOf[c])' /\ tracker'.got \in Final)
  <2>1. /\ IsNext(o) /\ status' = [status EXCEPT ![o] = tracker.got]
        /\ tracker'.got = "none" /\ tracker'.phase = "poll"
    BY <1>7 DEF Save, Polling, IInv, TypeOK
  <2> QED BY <1>3, <2>1 DEF Final, IInv, TypeOK
<1>8. ASSUME NEW o \in Ops, TimeOut(o)
      PROVE  /\ tracker'.phase = "stale" => tracker'.todo \subseteq old
             /\ \A c \in Calls : Open(c) => /\ status'[OpOf[c]] \notin Final
                                            /\ ~(IsNext(OpOf[c])' /\ tracker'.got \in Final)
  <2>1. /\ o \in tracker.todo /\ tracker.phase = "stale"
        /\ status' = [status EXCEPT ![o] = "timeout"]
        /\ tracker'.todo \subseteq tracker.todo /\ tracker'.got = tracker.got
    BY <1>8 DEF TimeOut, IsNext, IInv, TypeOK
  <2>2. tracker.todo \subseteq old /\ tracker.got = "none"
    BY <2>1 DEF Tracked, IInv, Rows
  <2>3. \A c \in Calls : Open(c) => OpOf[c] # o
    BY <2>1, <2>2 DEF Open
  <2> QED BY <1>3, <2>1, <2>2, <2>3 DEF Final, IInv, TypeOK
<1> QED BY <1>4, <1>5, <1>6, <1>7, <1>8 DEF TrackerStep

\* Time and faults keep it: they make operations old and calls dead.
LEMMA FaultTracked ==
  ASSUME IInv, Tracked, (\E o \in Ops : Age(o)) \/ TickFails \/ Crash
  PROVE  Tracked'
<1>1. /\ UNCHANGED <<row, net, view>> /\ old \subseteq old'
      /\ tracker' \in {tracker, Waiting}
      /\ \A c \in Calls : call'[c] = call[c] \/ (call'[c] = "dead" /\ call[c] # "given_up")
  BY DEF Age, TickFails, Crash, InProgress, controllersrv, IInv, TypeOK
<1>2. \A c \in Calls : NotSent(c)' => NotSent(c)
  BY <1>1 DEF NotSent
<1>3. \A c \in Calls : (Sole(c)' => Sole(c)) /\ (OnItsWay(c)' => OnItsWay(c))
  BY <1>1, <1>2 DEF Sole, OnItsWay
<1>4. \A o \in Ops : IsNext(o)' /\ tracker'.got \in Final => IsNext(o) /\ tracker.got \in Final
  BY <1>1 DEF row, IsNext, CreatedBefore, Waiting, Final
<1> QED BY <1>1, <1>2, <1>3, <1>4 DEF Tracked, row, Waiting

\* An operation that only one call has sent and that is known to be accepted stays among
\* those the tracker polls as long as its task is unfinished (run_once).
THEOREM AcceptedIsTracked == Spec => []TrackedToTheEnd
<1>1. IInv /\ Tracked /\ [Next]_vars => Tracked'
  <2>1. ASSUME Tracked, UNCHANGED vars PROVE Tracked'
    BY <2>1 DEF vars, row, controllersrv, Tracked, Sole, NotSent, OnItsWay, IsNext, CreatedBefore
  <2> QED BY <2>1, CallTracked, ControllersrvTracked, TrackerTracked, FaultTracked DEF Next
<1>2. IInv /\ Tracked => TrackedToTheEnd
  <2> SUFFICES ASSUME IInv, Tracked, NEW c \in Calls, call[c] \in {"accepted", "recorded"},
                      \A d \in Calls \ {c} : OpOf[d] = OpOf[c] => call[d] \in {"idle", "refused"},
                      view[OpOf[c]] \in Unfinished, OpOf[c] \notin old
               PROVE  status[OpOf[c]] \in Unfinished
    BY DEF TrackedToTheEnd
  <2>1. status[OpOf[c]] \notin Final
    BY DEF Tracked, Sole, NotSent
  <2>2. HasRow(OpOf[c])
    BY DEF IInv, Rows
  <2> QED BY <2>1, <2>2 DEF IInv, TypeOK, Statuses, Unfinished
<1> QED BY <1>1, <1>2, InitTracked, Invariance, PTL DEF Spec

-----------------------------------------------------------------------------
(* infrasrv implements OperationStatusView                                  *)

Shown == [o \in Ops |-> IF status[o] \in Unfinished THEN "unfinished" ELSE status[o]]

\* A row that is written with an answer that has a reason is a Report.
LEMMA WriteIsReport ==
  ASSUME IInv, NEW o \in Ops, HasRow(o), NEW st \in Statuses \ {"none"},
         status' = [status EXCEPT ![o] = st], UNCHANGED done,
         st = "success" => o \in done
  PROVE  OperationStatus!Next
<1> DEFINE answer == IF st \in Unfinished THEN "unfinished" ELSE st
<1>1. answer \in OperationStatus!Answers /\ (answer = "success" => o \in done)
  BY DEF Statuses, Final, Unfinished, OperationStatus!Answers, OperationStatus!Finished
<1>2. Shown[o] # "none" /\ Shown' = [Shown EXCEPT ![o] = answer]
  BY DEF Shown, IInv, TypeOK
<1>3. OperationStatus!Report(o, answer)
  BY <1>1, <1>2 DEF OperationStatus!Report, Shown
<1> QED BY <1>1, <1>3 DEF OperationStatus!Next

\* Every step is a step of OperationStatusView or invisible to it.
LEMMA StepRefines == IInv /\ [Next]_vars => [OperationStatus!Next]_<<Shown, done>>
<1> SUFFICES ASSUME IInv, [Next]_vars
             PROVE  OperationStatus!Next \/ UNCHANGED <<Shown, done>>
  OBVIOUS
<1>1. CASE UNCHANGED <<status, done>>
  BY <1>1 DEF Shown
<1>2. ASSUME NEW c \in Calls, Create(c), status[OpOf[c]] = "none" PROVE OperationStatus!Next
  <2>1. status' = [status EXCEPT ![OpOf[c]] = "pending"] /\ OpOf[c] \in Ops /\ UNCHANGED done
    BY <1>2 DEF Create, Goes, controllersrv
  <2>2. Shown[OpOf[c]] = "none" /\ Shown' = [Shown EXCEPT ![OpOf[c]] = "unfinished"]
    BY <1>2, <2>1 DEF Shown, Unfinished, IInv, TypeOK
  <2> QED BY <2>1, <2>2 DEF OperationStatus!Next, OperationStatus!Create, Shown
<1>3. ASSUME NEW c \in Calls, Record(c) PROVE OperationStatus!Next
  <2>1. /\ OpOf[c] \in Ops /\ UNCHANGED done
        /\ call[c] \in {"accepted", "failed"}
        /\ \E st \in {"running", "failed"} : status' = [status EXCEPT ![OpOf[c]] = st]
    BY <1>3 DEF Record, Goes, controllersrv
  <2>2. HasRow(OpOf[c])
    BY <2>1 DEF IInv, Rows
  <2> QED BY <2>1, <2>2, WriteIsReport DEF Statuses, Final
<1>4. ASSUME NEW o \in Ops, Save(o) PROVE OperationStatus!Next
  <2>1. /\ status' = [status EXCEPT ![o] = tracker.got] /\ UNCHANGED done
        /\ IsNext(o) /\ tracker.got \in Statuses \ {"none"}
    BY <1>4 DEF Save, Polling, TrackerOnly, controllersrv, IInv, TypeOK
  <2>2. HasRow(o) /\ (tracker.got = "success" => o \in done)
    BY <2>1 DEF IInv, Rows, Truth, IsNext
  <2> QED BY <2>1, <2>2, WriteIsReport
<1>5. ASSUME NEW o \in Ops, TimeOut(o) PROVE OperationStatus!Next
  <2>1. status' = [status EXCEPT ![o] = "timeout"] /\ UNCHANGED done /\ HasRow(o)
    BY <1>5 DEF TimeOut, TrackerOnly, controllersrv, IsNext, IInv, Rows
  <2> QED BY <2>1, WriteIsReport DEF Statuses, Final
<1>6. ASSUME NEW o \in Ops, NEW outcome \in Final, TaskFinishes(o, outcome)
      PROVE  OperationStatus!Next \/ UNCHANGED <<Shown, done>>
  <2>1. UNCHANGED status /\ done' \in {done, done \cup {o}}
    BY <1>6 DEF TaskFinishes, ControllersrvOnly, row
  <2>2. UNCHANGED Shown
    BY <2>1 DEF Shown
  <2> QED BY <2>1, <2>2 DEF OperationStatus!Next, OperationStatus!Perform, Shown
<1>7. CASE \E c \in Calls :
             \/ Look(c) \/ CreateFails(c) \/ Send(c) \/ Receive(c) \/ GiveUp(c) \/ RecordFails(c)
             \/ (Create(c) /\ status[OpOf[c]] # "none") \/ Arrive(c) \/ Reject(c)
  BY <1>1, <1>7 DEF Look, Create, CreateFails, Send, Receive, GiveUp, RecordFails, Goes, Arrive,
     Reject, ControllersrvOnly, row, controllersrv
<1>8. CASE \/ \E o \in Ops : TaskBegins(o) \/ Age(o) \/ Ask(o) \/ AskFails(o)
           \/ Forgets \/ Tick \/ LookForStale \/ TickEnds
           \/ TickFails \/ Crash \/ ControllersrvRestarts \/ UNCHANGED vars
  BY <1>1, <1>8 DEF TaskBegins, Age, Ask, AskFails, Forgets, Tick, LookForStale, TickEnds,
     TickFails, Crash, ControllersrvRestarts, ControllersrvOnly, TrackerOnly, row, controllersrv,
     vars
<1> QED
  BY <1>2, <1>3, <1>4, <1>5, <1>6, <1>7, <1>8 DEF Next, CallStep, TrackerStep

\* Every behaviour of the row and its writers is, for a client that polls the operation,
\* a behaviour of OperationStatusView.
THEOREM Refinement == Spec => Implements
<1>1. Init => OperationStatus!Init
  BY DEF Init, OperationStatus!Init, OperationStatus!Finished, Unfinished
<1>2. IInv /\ [Next]_vars =>
        [OperationStatus!Next]_<<[o \in Ops |-> IF status[o] \in Unfinished THEN "unfinished" ELSE status[o]], done>>
  BY StepRefines DEF Shown
<1> QED BY <1>1, <1>2, Invariance, PTL DEF Spec, Implements, OperationStatus!Spec
=============================================================================
