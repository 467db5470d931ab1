-------------------------- MODULE OperationDialog --------------------------
(***************************************************************************)
(* The console's progress dialog for start, stop and restart, as built     *)
(* into assets/www/adminops/assets:                                        *)
(*   OperationProgressDialog-*.js   useOperationPolling, the dialog        *)
(*   service-operation-*.js         the statuses it knows, the query       *)
(*   ServiceDetail-*.js             the page that opens it                 *)
(*                                                                         *)
(* A browser runs one callback at a time, but a query is awaited: between  *)
(* request and answer the user may close the dialog, submit the next       *)
(* operation or leave the page, and the interval may send further queries  *)
(* whose answers overtake each other.  Each callback closes over the       *)
(* operation it was created for, while the variables that hold the timers  *)
(* are shared.  The answers are those of OperationStatusView.              *)
(***************************************************************************)
EXTENDS Naturals, FiniteSets, Bags, BagsExt

CONSTANTS
  Ops,          \* operations the user submits; every submission has a new id
  NoOp,
  MaxInFlight,  \* bound on the unanswered queries when the interval sends one
  Patient       \* the user submits nothing while a first query is unanswered

ASSUME DialogAssumption ==
  /\ NoOp \notin Ops
  /\ MaxInFlight \in Nat \ {0}
  /\ Patient \in BOOLEAN

VARIABLES
  status, done,   \* infrasrv's rows and what has been performed
  opened,         \* operations the dialog has been opened for
  mounted,        \* the page with the dialog is on the screen
  visible,        \* modelValue
  shown,          \* operationId
  current,        \* currentOperation: which operation's answer is on display
  loading,        \* isPolling: the dialog shows progress, otherwise a result
  ticking,        \* the operations whose interval is running
  limited,        \* those whose five-minute timeout is running
  handle,         \* the operation whose timers the two timer variables refer to
  net,            \* queries sent and answers not yet processed
  reported        \* the operations the page has had a success event for

row == <<status, done>>
timers == <<ticking, limited, handle>>
dialog == <<mounted, visible, shown, opened>>
vars == <<row, dialog, current, loading, timers, net, reported>>

Server == INSTANCE OperationStatusView

\* The statuses of service-operation-*.js; TIMEOUT is not among them.
Completed == {"success", "failed"}
Query(o, first) == [op |-> o, first |-> first, says |-> "asked"]
Queries == [op : Ops, first : BOOLEAN, says : Server!Answers \cup {"asked", "error"}]
FirstPending == \E m \in DOMAIN net : m.first

TypeOK ==
  /\ Server!TypeOK
  /\ opened \subseteq Ops
  /\ mounted \in BOOLEAN /\ visible \in BOOLEAN /\ loading \in BOOLEAN
  /\ shown \in Ops \cup {NoOp}
  /\ current \in opened \cup {NoOp}
  /\ ticking \subseteq opened /\ limited \subseteq opened
  /\ handle \in opened \cup {NoOp}
  /\ DOMAIN net \subseteq Queries
  /\ reported \subseteq opened

Init ==
  /\ Server!Init
  /\ opened = {} /\ mounted = TRUE /\ visible = FALSE /\ shown = NoOp
  /\ current = NoOp /\ loading = FALSE
  /\ ticking = {} /\ limited = {} /\ handle = NoOp
  /\ net = EmptyBag
  /\ reported = {}

-----------------------------------------------------------------------------
(* useOperationPolling                                                      *)

\* Only the timers the variables refer to can be cleared.
ClearTimers ==
  /\ ticking' = ticking \ {handle}
  /\ limited' = limited \ {handle}
  /\ handle' = NoOp

\* MUTANT of StartPolling: the timers of the previous operation are not cleared.
StartPolling_KeepTimers(o) ==
  /\ UNCHANGED timers
  /\ loading' = TRUE
  /\ current' = NoOp
  /\ net' = BagAdd(net, Query(o, TRUE))

StartPolling(o) ==
  /\ ClearTimers
  /\ loading' = TRUE
  /\ current' = NoOp
  /\ net' = BagAdd(net, Query(o, TRUE))

\* onSuccess emits an event, which an unmounted component drops.
Report(m) ==
  reported' = IF mounted /\ m.says = "success" THEN reported \cup {m.op} ELSE reported

\* An answer that ends the polling, whichever operation it is about.
EndPolling(m) ==
  /\ ClearTimers
  /\ loading' = FALSE
  /\ Report(m)

\* MUTANTS of FirstAnswer: the five-minute timeout is not armed; a first answer other
\* than SUCCESS is reported as an error.
FirstAnswer_NoLimit(m) ==
  IF m.says \in Completed
    THEN loading' = FALSE /\ Report(m) /\ UNCHANGED timers
    ELSE /\ ticking' = ticking \cup {m.op}
         /\ handle' = m.op
         /\ UNCHANGED <<limited, loading, reported>>
FirstAnswer_AnyIsSuccess(m) ==
  /\ loading' = FALSE /\ Report([m EXCEPT !.says = "success"])
  /\ UNCHANGED timers

\* The timers are armed after the first answer, without a look at what has happened
\* to the dialog since the query was sent.
FirstAnswer(m) ==
  IF m.says \in Completed
    THEN loading' = FALSE /\ Report(m) /\ UNCHANGED timers
    ELSE /\ ticking' = ticking \cup {m.op}
         /\ limited' = limited \cup {m.op}
         /\ handle' = m.op
         /\ UNCHANGED <<loading, reported>>

NextAnswer(m) ==
  IF m.says \in Completed
    THEN EndPolling(m)
    ELSE UNCHANGED <<timers, loading, reported>>

\* The continuation of an awaited query.
Process(m) ==
  /\ BagIn(m, net) /\ m.says \in Server!Answers
  /\ net' = BagRemove(net, m)
  /\ current' = m.op
  /\ IF m.first THEN FirstAnswer(m) ELSE NextAnswer(m)
  /\ UNCHANGED <<row, dialog>>

\* MUTANT of ProcessError: a failed query of the interval only stops the timers.
ProcessError_KeepLoading(m) ==
  /\ BagIn(m, net) /\ m.says = "error"
  /\ net' = BagRemove(net, m)
  /\ IF m.first THEN UNCHANGED timers ELSE ClearTimers
  /\ UNCHANGED <<row, dialog, current, loading, reported>>

ProcessError(m) ==
  /\ BagIn(m, net) /\ m.says = "error"
  /\ net' = BagRemove(net, m)
  /\ loading' = FALSE
  /\ IF m.first THEN UNCHANGED timers ELSE ClearTimers
  /\ UNCHANGED <<row, dialog, current, reported>>

\* setInterval does not wait for the query it sent two seconds ago.
Tick(o) ==
  /\ o \in ticking
  /\ BagCardinality(net) < MaxInFlight
  /\ net' = BagAdd(net, Query(o, FALSE))
  /\ UNCHANGED <<row, dialog, current, loading, timers, reported>>

\* MUTANT of Limit: the timeout only ends the progress display.
Limit_KeepTicking(o) ==
  /\ o \in limited
  /\ limited' = limited \ {o}
  /\ loading' = FALSE
  /\ UNCHANGED <<row, dialog, current, ticking, handle, net, reported>>

Limit(o) ==
  /\ o \in limited
  /\ ticking' = ticking \ {handle}
  /\ limited' = limited \ {o, handle}
  /\ handle' = NoOp
  /\ loading' = FALSE
  /\ UNCHANGED <<row, dialog, current, net, reported>>

-----------------------------------------------------------------------------
(* The dialog, the page and the server                                      *)

\* The page has the id of a submitted operation and shows the dialog: both watchers
\* fire, the second finds the polling started.
Open(o) ==
  /\ mounted /\ ~visible
  /\ o \notin opened /\ status[o] # "none"
  /\ Patient => ~FirstPending
  /\ opened' = opened \cup {o}
  /\ visible' = TRUE
  /\ shown' = o
  /\ StartPolling(o)
  /\ UNCHANGED <<row, mounted, reported>>

\* reset()
Close ==
  /\ mounted /\ visible
  /\ visible' = FALSE
  /\ ClearTimers
  /\ current' = NoOp
  /\ loading' = FALSE
  /\ UNCHANGED <<row, mounted, shown, opened, net, reported>>

\* onUnmounted
Leave ==
  /\ mounted
  /\ mounted' = FALSE
  /\ ClearTimers
  /\ UNCHANGED <<row, visible, shown, opened, current, loading, net, reported>>

\* The server answers from the row as it is now, or the request fails.
Answer(m) ==
  /\ BagIn(m, net) /\ m.says = "asked"
  /\ \E says \in {status[m.op], "error"} :
       net' = BagAdd(BagRemove(net, m), [m EXCEPT !.says = says])
  /\ UNCHANGED <<row, dialog, current, loading, timers, reported>>

QueryStep(o, first) ==
  \E m \in DOMAIN net : m.op = o /\ m.first = first /\ (Process(m) \/ ProcessError(m) \/ Answer(m))

ServerStep ==
  /\ Server!Next
  /\ UNCHANGED <<dialog, current, loading, timers, net, reported>>

Next ==
  \/ \E o \in Ops, first \in BOOLEAN : QueryStep(o, first)
  \/ \E o \in Ops : Tick(o) \/ Limit(o) \/ Open(o)
  \/ Close \/ Leave \/ ServerStep

Spec == Init /\ [][Next]_vars

\* A query ends within the client's timeout of 50 seconds, timers fire.
FairSpec ==
  /\ Spec
  /\ \A o \in Ops, first \in BOOLEAN : WF_vars(QueryStep(o, first))
  /\ \A o \in Ops : WF_vars(Limit(o))

-----------------------------------------------------------------------------
(* Properties                                                               *)

\* The page is told of a success only if the operation has been performed, whatever
\* was closed, reopened, answered late or answered twice (useOperationPolling).
EventIsTrue == \A o \in Ops : o \in reported => o \in done

\* No interval and no timeout runs that nobody can clear, provided the user does not
\* submit the next operation while a first query is unanswered (startPolling, reset).
TimersOwned == ticking \cup limited \subseteq {handle}

\* While the page shows progress something is under way that will end it, although a
\* callback of an earlier operation may clear the timers of this one (setInterval).
ProgressIsBacked ==
  mounted /\ loading => FirstPending \/ (handle # NoOp /\ handle \in ticking \cap limited)

\* Progress is not shown for ever, whatever the row does: not even for a status the
\* console does not know (startPolling).
ProgressEnds == loading /\ mounted ~> ~loading \/ ~mounted

\* Polling stops after the dialog is closed or the page left, also when the first
\* answer arms the timers only then (reset, onUnmounted).
PollingStops == <>[](ticking = {})
=============================================================================
