----------------------- MODULE OperationDialogProofs -----------------------
(***************************************************************************)
(* Proofs about OperationDialog, for all operations and any number of      *)
(* queries in flight.                                                      *)
(*                                                                         *)
(* An answer that says success was true when it was given, and what has    *)
(* been performed stays performed, however late the answer is processed.   *)
(* A patient user has at most one first query in flight, and no timer runs *)
(* until it is answered.                                                   *)
(***************************************************************************)
EXTENDS OperationDialog, TLAPS

USE DialogAssumption

\* Rows, and answers on their way, say success only of what has been performed; a query is
\* about an operation the dialog was opened for, which has a row.
AnswersAreTrue ==
  /\ \A o \in Ops : status[o] = "success" => o \in done
  /\ \A o \in opened : status[o] # "none"
  /\ \A m \in DOMAIN net : m.op \in opened /\ (m.says = "success" => m.op \in done)
  /\ reported \subseteq done

\* The inductive invariant.
IInv == TypeOK /\ AnswersAreTrue /\ ProgressIsBacked

\* A first query is the only one, and nothing has been armed since it was sent.
OneFirst ==
  \A m, n \in DOMAIN net : m.first /\ n.first =>
    m = n /\ net[m] = 1 /\ ticking \cup limited = {}

-----------------------------------------------------------------------------
(* Bags                                                                     *)

\* What adding one element does to a bag.
LEMMA Adding ==
  ASSUME NEW B, NEW x
  PROVE  DOMAIN BagAdd(B, x) = DOMAIN B \cup {x}
BY DEF BagAdd

LEMMA CountAdded ==
  ASSUME NEW B, NEW x
  PROVE  /\ x \notin DOMAIN B => BagAdd(B, x)[x] = 1
         /\ \A y \in DOMAIN B : y # x => BagAdd(B, x)[y] = B[y]
BY DEF BagAdd

\* What removing one element does to a bag.
LEMMA Removing ==
  ASSUME NEW B, NEW x
  PROVE  /\ DOMAIN BagRemove(B, x) \subseteq DOMAIN B
         /\ DOMAIN B \ {x} \subseteq DOMAIN BagRemove(B, x)
         /\ B[x] = 1 => x \notin DOMAIN BagRemove(B, x)
         /\ \A y \in DOMAIN BagRemove(B, x) : y # x => BagRemove(B, x)[y] = B[y]
BY DEF BagRemove

LEMMA InDomain ==
  ASSUME NEW B, NEW x, BagIn(x, B)
  PROVE  x \in DOMAIN B
BY DEF BagIn, BagToSet

-----------------------------------------------------------------------------
(* Types, answers and progress                                              *)

LEMMA InitIInv == Init => IInv
<1> SUFFICES ASSUME Init PROVE IInv
  OBVIOUS
<1>1. DOMAIN net = {}
  BY DEF Init, EmptyBag, SetToBag
<1>2. status \in [Ops -> {"none", "unfinished"}] /\ done = {}
  BY DEF Init, Server!Init
<1>3. Server!TypeOK
  BY <1>2 DEF Server!TypeOK, Server!Answers
<1> QED BY <1>1, <1>2, <1>3 DEF Init, IInv, TypeOK, AnswersAreTrue, ProgressIsBacked

\* The continuation of a query that was answered.
LEMMA ProcessIInv ==
  ASSUME IInv, NEW m \in DOMAIN net, Process(m)
  PROVE  IInv'
<1>1. /\ m \in Queries /\ m.op \in opened /\ m.op \in Ops /\ m.first \in BOOLEAN
      /\ m.says = "success" => m.op \in done
  BY DEF IInv, TypeOK, AnswersAreTrue, Queries
<1>2. /\ UNCHANGED <<status, done, mounted, visible, shown, opened>>
      /\ net' = BagRemove(net, m) /\ current' = m.op
      /\ IF m.first THEN FirstAnswer(m) ELSE NextAnswer(m)
  BY DEF Process, row, dialog
<1>3. DOMAIN net' \subseteq DOMAIN net /\ DOMAIN net \ {m} \subseteq DOMAIN net'
  BY <1>2, Removing
<1>4. /\ ticking' \subseteq ticking \cup {m.op} /\ limited' \subseteq limited \cup {m.op}
      /\ handle' \in {handle, NoOp, m.op} /\ loading' \in {loading, FALSE}
      /\ reported' \subseteq reported \cup (IF m.says = "success" THEN {m.op} ELSE {})
  BY <1>2 DEF FirstAnswer, NextAnswer, EndPolling, ClearTimers, Report, timers
<1>5. TypeOK'
  <2>1. Server!TypeOK'
    BY <1>2 DEF IInv, TypeOK, Server!TypeOK
  <2>2. reported' \subseteq opened' /\ loading' \in BOOLEAN
    BY <1>1, <1>2, <1>4 DEF IInv, TypeOK
  <2> QED BY <1>1, <1>2, <1>3, <1>4, <2>1, <2>2 DEF IInv, TypeOK
<1>6. AnswersAreTrue'
  BY <1>1, <1>2, <1>3, <1>4 DEF IInv, AnswersAreTrue
<1>7. ProgressIsBacked'
  <2>1. CASE m.first
    <3>1. loading' = FALSE \/ (handle' = m.op /\ m.op \in ticking' \cap limited')
      BY <1>2, <2>1 DEF FirstAnswer
    <3> QED BY <1>1, <3>1 DEF ProgressIsBacked
  <2>2. CASE ~m.first
    <3>1. loading' = FALSE \/ UNCHANGED <<ticking, limited, handle, loading>>
      BY <1>2, <2>2 DEF NextAnswer, EndPolling, timers
    <3>2. FirstPending => FirstPending'
      BY <1>3, <2>2 DEF FirstPending
    <3> QED BY <1>2, <3>1, <3>2 DEF IInv, ProgressIsBacked
  <2> QED BY <1>1, <2>1, <2>2
<1> QED BY <1>5, <1>6, <1>7 DEF IInv

LEMMA ErrorIInv ==
  ASSUME IInv, NEW m \in DOMAIN net, ProcessError(m)
  PROVE  IInv'
<1>1. /\ UNCHANGED <<status, done, mounted, visible, shown, opened, current, reported>>
      /\ net' = BagRemove(net, m) /\ loading' = FALSE
  BY DEF ProcessError, row, dialog
<1>2. DOMAIN net' \subseteq DOMAIN net
  BY <1>1, Removing
<1>3. ticking' \subseteq ticking /\ limited' \subseteq limited /\ handle' \in {handle, NoOp}
  BY DEF ProcessError, ClearTimers, timers
<1>4. Server!TypeOK'
  BY <1>1 DEF IInv, TypeOK, Server!TypeOK
<1>5. TypeOK'
  BY <1>1, <1>2, <1>3, <1>4 DEF IInv, TypeOK
<1> QED BY <1>1, <1>2, <1>5 DEF IInv, AnswersAreTrue, ProgressIsBacked

LEMMA AnswerIInv ==
  ASSUME IInv, NEW m \in DOMAIN net, Answer(m)
  PROVE  IInv'
<1>1. UNCHANGED <<status, done, mounted, visible, shown, opened, current, loading, ticking, limited,
                  handle, reported>>
  BY DEF Answer, row, dialog, timers
<1>2. m \in Queries /\ m.op \in opened /\ m.op \in Ops
  BY DEF IInv, TypeOK, AnswersAreTrue, Queries
<1>3. PICK s \in {status[m.op], "error"} :
        net' = BagAdd(BagRemove(net, m), [m EXCEPT !.says = s])
  BY DEF Answer
<1>4. s \in Server!Answers \cup {"error"} /\ (s = "success" => m.op \in done)
  BY <1>2, <1>3 DEF IInv, TypeOK, AnswersAreTrue, Server!TypeOK
<1> DEFINE a == [m EXCEPT !.says = s]
<1>5. a \in Queries /\ a.op = m.op /\ a.first = m.first /\ a.says = s
  BY <1>2, <1>4 DEF Queries
<1> DEFINE rest == BagRemove(net, m)
<1>6. DOMAIN net' \subseteq DOMAIN net \cup {a} /\ (DOMAIN net \ {m}) \cup {a} \subseteq DOMAIN net'
  <2>1. net' = BagAdd(rest, a)
    BY <1>3
  <2>2. DOMAIN rest \subseteq DOMAIN net /\ DOMAIN net \ {m} \subseteq DOMAIN rest
    BY Removing
  <2> HIDE DEF a, rest
  <2>3. DOMAIN net' = DOMAIN rest \cup {a}
    BY <2>1, Adding
  <2> QED BY <2>2, <2>3
<1> HIDE DEF a, rest
<1>7. Server!TypeOK'
  BY <1>1 DEF IInv, TypeOK, Server!TypeOK
<1>8. TypeOK'
  BY <1>1, <1>5, <1>6, <1>7 DEF IInv, TypeOK
<1>9. AnswersAreTrue'
  BY <1>1, <1>2, <1>4, <1>5, <1>6 DEF IInv, AnswersAreTrue
<1>10. FirstPending => FirstPending'
  BY <1>5, <1>6 DEF FirstPending
<1> QED BY <1>1, <1>8, <1>9, <1>10 DEF IInv, ProgressIsBacked

LEMMA TimerIInv ==
  ASSUME IInv, NEW o \in Ops, Tick(o) \/ Limit(o)
  PROVE  IInv'
<1>1. UNCHANGED <<status, done, mounted, visible, shown, opened, current, reported>>
  BY DEF Tick, Limit, row, dialog
<1>2. Server!TypeOK'
  BY <1>1 DEF IInv, TypeOK, Server!TypeOK
<1>3. CASE Tick(o)
  <2>1. UNCHANGED <<ticking, limited, handle, loading>> /\ o \in opened
        /\ DOMAIN net' = DOMAIN net \cup {Query(o, FALSE)}
    BY <1>3, Adding DEF Tick, timers, IInv, TypeOK
  <2>2. Query(o, FALSE) \in Queries /\ Query(o, FALSE).op = o /\ Query(o, FALSE).says = "asked"
    BY DEF Query, Queries
  <2>3. TypeOK'
    BY <1>1, <1>2, <2>1, <2>2 DEF IInv, TypeOK
  <2>4. AnswersAreTrue'
    BY <1>1, <2>1, <2>2 DEF IInv, AnswersAreTrue
  <2>5. FirstPending => FirstPending'
    BY <2>1 DEF FirstPending
  <2> QED BY <1>1, <2>1, <2>3, <2>4, <2>5 DEF IInv, ProgressIsBacked
<1>4. CASE Limit(o)
  <2>1. /\ ticking' \subseteq ticking /\ limited' \subseteq limited /\ handle' = NoOp
        /\ UNCHANGED net /\ loading' = FALSE
    BY <1>4 DEF Limit
  <2>2. TypeOK'
    BY <1>1, <1>2, <2>1 DEF IInv, TypeOK
  <2> QED BY <1>1, <2>1, <2>2 DEF IInv, AnswersAreTrue, ProgressIsBacked
<1> QED BY <1>3, <1>4

LEMMA OpenIInv ==
  ASSUME IInv, NEW o \in Ops, Open(o)
  PROVE  IInv'
<1>1. /\ UNCHANGED <<status, done, mounted, reported>> /\ status[o] # "none"
      /\ opened' = opened \cup {o} /\ visible' = TRUE /\ shown' = o
      /\ current' = NoOp /\ loading' = TRUE /\ net' = BagAdd(net, Query(o, TRUE))
      /\ ticking' \subseteq ticking /\ limited' \subseteq limited /\ handle' = NoOp
  BY DEF Open, StartPolling, ClearTimers, row
<1>2. /\ Query(o, TRUE) \in Queries /\ Query(o, TRUE).op = o /\ Query(o, TRUE).says = "asked"
      /\ Query(o, TRUE).first
  BY DEF Query, Queries
<1>3. DOMAIN net' = DOMAIN net \cup {Query(o, TRUE)}
  BY <1>1, Adding
<1>4. Server!TypeOK'
  BY <1>1 DEF IInv, TypeOK, Server!TypeOK
<1>5. TypeOK'
  BY <1>1, <1>2, <1>3, <1>4 DEF IInv, TypeOK
<1>6. AnswersAreTrue'
  BY <1>1, <1>2, <1>3 DEF IInv, AnswersAreTrue
<1>7. FirstPending'
  BY <1>2, <1>3 DEF FirstPending
<1> QED BY <1>5, <1>6, <1>7 DEF IInv, ProgressIsBacked

LEMMA PageIInv ==
  ASSUME IInv, Close \/ Leave
  PROVE  IInv'
<1>1. /\ UNCHANGED <<status, done, shown, opened, net, reported>>
      /\ mounted' \in BOOLEAN /\ visible' \in BOOLEAN /\ loading' \in BOOLEAN
      /\ current' \in {current, NoOp} /\ handle' = NoOp
      /\ ticking' \subseteq ticking /\ limited' \subseteq limited
      /\ ~(mounted' /\ loading')
  BY DEF Close, Leave, ClearTimers, row, IInv, TypeOK
<1>2. Server!TypeOK'
  BY <1>1 DEF IInv, TypeOK, Server!TypeOK
<1>3. TypeOK'
  BY <1>1, <1>2 DEF IInv, TypeOK
<1> QED BY <1>1, <1>3 DEF IInv, AnswersAreTrue, ProgressIsBacked

LEMMA ServerIInv ==
  ASSUME IInv, ServerStep
  PROVE  IInv'
<1>1. UNCHANGED <<mounted, visible, shown, opened, current, loading, ticking, limited, handle, net,
                  reported>>
  BY DEF ServerStep, dialog, timers
<1>2. /\ Server!TypeOK' /\ done \subseteq done'
      /\ \A o \in Ops : status'[o] = "success" => o \in done'
      /\ \A o \in Ops : status[o] # "none" => status'[o] # "none"
  <2>1. PICK o \in Ops : \/ Server!Create(o) \/ Server!Perform(o)
                         \/ \E answer \in Server!Answers : Server!Report(o, answer)
    BY DEF ServerStep, Server!Next
  <2>2. Server!TypeOK /\ \A p \in Ops : status[p] = "success" => p \in done
    BY DEF IInv, TypeOK, AnswersAreTrue
  <2>3. CASE Server!Create(o)
    BY <2>2, <2>3 DEF Server!Create, Server!TypeOK, Server!Answers
  <2>4. CASE Server!Perform(o)
    BY <2>2, <2>4 DEF Server!Perform, Server!TypeOK
  <2>5. CASE \E answer \in Server!Answers : Server!Report(o, answer)
    BY <2>2, <2>5 DEF Server!Report, Server!TypeOK, Server!Answers, Server!Finished
  <2> QED BY <2>1, <2>3, <2>4, <2>5
<1>3. TypeOK'
  BY <1>1, <1>2 DEF IInv, TypeOK
<1>4. AnswersAreTrue'
  BY <1>1, <1>2 DEF IInv, TypeOK, AnswersAreTrue
<1> QED BY <1>1, <1>3, <1>4 DEF IInv, ProgressIsBacked, FirstPending

LEMMA NextIInv == IInv /\ [Next]_vars => IInv'
<1> SUFFICES ASSUME IInv, [Next]_vars PROVE IInv'
  OBVIOUS
<1>1. CASE Next
  BY <1>1, ProcessIInv, ErrorIInv, AnswerIInv, TimerIInv, OpenIInv, PageIInv, ServerIInv
     DEF Next, QueryStep
<1>2. CASE UNCHANGED vars
  BY <1>2 DEF vars, row, dialog, timers, IInv, TypeOK, Server!TypeOK, AnswersAreTrue,
     ProgressIsBacked, FirstPending
<1> QED BY <1>1, <1>2

LEMMA Invariance == Spec => []IInv
BY InitIInv, NextIInv, PTL DEF Spec

-----------------------------------------------------------------------------
(* A patient user                                                           *)

LEMMA InitOwned == Init => OneFirst /\ TimersOwned
<1> SUFFICES ASSUME Init PROVE OneFirst /\ TimersOwned
  OBVIOUS
<1>1. DOMAIN net = {}
  BY DEF Init, EmptyBag, SetToBag
<1> QED BY <1>1 DEF Init, OneFirst, TimersOwned

LEMMA NextOwned ==
  ASSUME Patient, IInv, OneFirst, TimersOwned, [Next]_vars
  PROVE  OneFirst' /\ TimersOwned'
<1>1. ASSUME NEW m \in DOMAIN net, Process(m) PROVE OneFirst' /\ TimersOwned'
  <2>1. net' = BagRemove(net, m) /\ IF m.first THEN FirstAnswer(m) ELSE NextAnswer(m)
    BY <1>1 DEF Process
  <2>2. /\ DOMAIN net' \subseteq DOMAIN net
        /\ net[m] = 1 => m \notin DOMAIN net'
        /\ \A n \in DOMAIN net' : n # m => net'[n] = net[n]
    BY <2>1, Removing
  <2>3. CASE m.first
    <3>1. ticking \cup limited = {} /\ \A n \in DOMAIN net' : ~n.first
      BY <2>2, <2>3 DEF OneFirst
    <3>2. ticking' \cup limited' \subseteq {handle'}
      BY <2>1, <2>3, <3>1 DEF FirstAnswer, timers
    <3> QED BY <3>1, <3>2 DEF OneFirst, TimersOwned
  <2>4. CASE ~m.first
    <3>1. /\ ticking' \subseteq ticking /\ limited' \subseteq limited
          /\ ticking' \cup limited' \subseteq {handle'}
      BY <2>1, <2>4 DEF NextAnswer, EndPolling, ClearTimers, timers, TimersOwned
    <3> QED BY <2>2, <2>4, <3>1 DEF OneFirst, TimersOwned
  <2> QED BY <2>3, <2>4
<1>2. ASSUME NEW m \in DOMAIN net, ProcessError(m) PROVE OneFirst' /\ TimersOwned'
  <2>1. net' = BagRemove(net, m)
        /\ (m.first => UNCHANGED timers) /\ (~m.first => ClearTimers)
    BY <1>2 DEF ProcessError
  <2>2. /\ DOMAIN net' \subseteq DOMAIN net
        /\ net[m] = 1 => m \notin DOMAIN net'
        /\ \A n \in DOMAIN net' : n # m => net'[n] = net[n]
    BY <2>1, Removing
  <2>3. /\ ticking' \subseteq ticking /\ limited' \subseteq limited
        /\ ticking' \cup limited' \subseteq {handle'}
    BY <2>1 DEF ClearTimers, timers, TimersOwned
  <2>4. m.first \in BOOLEAN
    BY DEF IInv, TypeOK, Queries
  <2> QED BY <2>2, <2>3, <2>4 DEF OneFirst, TimersOwned
<1>3. ASSUME NEW m \in DOMAIN net, Answer(m) PROVE OneFirst' /\ TimersOwned'
  <2>1. UNCHANGED <<ticking, limited, handle>> /\ m.says = "asked"
    BY <1>3 DEF Answer, timers
  <2>2. m \in Queries /\ m.op \in opened /\ m.op \in Ops
    BY DEF IInv, TypeOK, AnswersAreTrue, Queries
  <2>3. PICK s \in {status[m.op], "error"} :
          net' = BagAdd(BagRemove(net, m), [m EXCEPT !.says = s])
    BY <1>3 DEF Answer
  <2>4. s # "asked"
    BY <2>2, <2>3 DEF IInv, TypeOK, Server!TypeOK, Server!Answers, Server!Finished
  <2> DEFINE a == [m EXCEPT !.says = s]
             rest == BagRemove(net, m)
  <2>5. a.first = m.first /\ a # m
    BY <2>1, <2>2, <2>4 DEF Queries
  <2>6. net' = BagAdd(rest, a)
    BY <2>3
  <2>7. /\ DOMAIN rest \subseteq DOMAIN net
        /\ net[m] = 1 => m \notin DOMAIN rest
        /\ \A n \in DOMAIN rest : n # m => rest[n] = net[n]
    BY Removing
  <2> HIDE DEF a, rest
  <2>8. /\ DOMAIN net' = DOMAIN rest \cup {a}
        /\ a \notin DOMAIN rest => net'[a] = 1
        /\ \A n \in DOMAIN rest : n # a => net'[n] = rest[n]
    BY <2>6, Adding, CountAdded
  <2>9. CASE m.first
    <3>1. \A n \in DOMAIN rest : ~n.first
      BY <2>7, <2>9 DEF OneFirst
    <3>2. ticking \cup limited = {}
      BY <2>9 DEF OneFirst
    <3>3. net'[a] = 1 /\ \A n \in DOMAIN net' : n.first => n = a
      BY <2>5, <2>8, <2>9, <3>1
    <3> QED BY <2>1, <3>2, <3>3 DEF OneFirst, TimersOwned
  <2>10. CASE ~m.first
    <3>1. \A n \in DOMAIN net' : n.first => n \in DOMAIN net /\ net'[n] = net[n]
      BY <2>5, <2>7, <2>8, <2>10
    <3> QED BY <2>1, <3>1 DEF OneFirst, TimersOwned
  <2> QED BY <2>9, <2>10
<1>4. ASSUME NEW o \in Ops, Tick(o) PROVE OneFirst' /\ TimersOwned'
  <2>1. UNCHANGED <<ticking, limited, handle>> /\ net' = BagAdd(net, Query(o, FALSE))
    BY <1>4 DEF Tick, timers
  <2> DEFINE a == Query(o, FALSE)
  <2>2. net' = BagAdd(net, a) /\ ~a.first
    BY <2>1 DEF Query
  <2> HIDE DEF a
  <2>3. DOMAIN net' = DOMAIN net \cup {a} /\ \A n \in DOMAIN net : n # a => net'[n] = net[n]
    BY <2>2, Adding, CountAdded
  <2>4. \A n \in DOMAIN net' : n.first => n \in DOMAIN net /\ net'[n] = net[n]
    BY <2>2, <2>3
  <2> QED BY <2>1, <2>4 DEF OneFirst, TimersOwned
<1>5. ASSUME NEW o \in Ops, Limit(o) PROVE OneFirst' /\ TimersOwned'
  BY <1>5 DEF Limit, OneFirst, TimersOwned
<1>6. ASSUME NEW o \in Ops, Open(o) PROVE OneFirst' /\ TimersOwned'
  <2>1. /\ net' = BagAdd(net, Query(o, TRUE)) /\ ~FirstPending
        /\ ticking' = ticking \ {handle} /\ limited' = limited \ {handle}
    BY <1>6 DEF Open, StartPolling, ClearTimers
  <2>2. ticking' \cup limited' = {}
    BY <2>1 DEF TimersOwned
  <2> DEFINE a == Query(o, TRUE)
  <2>3. net' = BagAdd(net, a) /\ a.first /\ a \notin DOMAIN net
    BY <2>1 DEF Query, FirstPending
  <2> HIDE DEF a
  <2>4. DOMAIN net' = DOMAIN net \cup {a} /\ net'[a] = 1
    BY <2>3, Adding, CountAdded
  <2>5. \A n \in DOMAIN net' : n.first => n = a
    BY <2>1, <2>4 DEF FirstPending
  <2> QED BY <2>2, <2>4, <2>5 DEF OneFirst, TimersOwned
<1>7. CASE Close \/ Leave
  BY <1>7 DEF Close, Leave, ClearTimers, OneFirst, TimersOwned
<1>8. CASE ServerStep \/ UNCHANGED vars
  BY <1>8 DEF ServerStep, vars, timers, OneFirst, TimersOwned
<1> QED BY <1>1, <1>2, <1>3, <1>4, <1>5, <1>6, <1>7, <1>8 DEF Next, QueryStep

-----------------------------------------------------------------------------
(* Theorems                                                                 *)

\* Types of the dialog, its timers and its queries, with the statuses a query can meet.
THEOREM Typing == Spec => []TypeOK
BY Invariance, PTL DEF IInv

\* The page is told of a success only if the operation has been performed.
THEOREM EventsAreTrue == Spec => []EventIsTrue
<1>1. IInv => EventIsTrue
  BY DEF IInv, TypeOK, AnswersAreTrue, EventIsTrue
<1> QED BY <1>1, Invariance, PTL

\* While the page shows progress a query or a pair of timers will end it, for impatient
\* users too.
THEOREM ProgressBacked == Spec => []ProgressIsBacked
BY Invariance, PTL DEF IInv

\* A user who waits for the first answer leaves no timer behind.
THEOREM OwnTimers ==
  ASSUME Patient
  PROVE  Spec => []TimersOwned
<1>1. Init => OneFirst /\ TimersOwned
  BY InitOwned
<1>2. IInv /\ OneFirst /\ TimersOwned /\ [Next]_vars => OneFirst' /\ TimersOwned'
  BY NextOwned
<1> QED BY <1>1, <1>2, Invariance, PTL DEF Spec
=============================================================================
