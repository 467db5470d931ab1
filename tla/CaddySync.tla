----------------------------- MODULE CaddySync -----------------------------
(***************************************************************************)
(* How opsbffsrv brings its route and rate limit tables into Caddy:        *)
(*   application/caddy/route_management_app.py                             *)
(*   application/caddy/rate_limit_management_app.py                        *)
(*   domain/caddy/route_management.py, rate_limit_management.py            *)
(*   infrastructure/caddy/admin_api_client.py                              *)
(*                                                                         *)
(* A call writes its row, reads all the enabled ones, reads Caddy's whole  *)
(* configuration, replaces the group of its table and posts the whole      *)
(* again; if that fails, it takes its row back.  Each of these is a        *)
(* transaction or a request of its own, calls run side by side, and        *)
(* nothing else ever compares the tables with Caddy.                       *)
(***************************************************************************)
EXTENDS Integers

CONSTANTS
  Calls,       \* calls of the API that change a table
  Manual,      \* the caller of POST caddy/routes/sync
  Requests,    \* Requests[c]: what c may ask for, [kind, table, name, on, to]
  Initial,     \* Initial[t]: the rows of table t at the start, one at the most
  Names,       \* names of routes and rate limits
  Targets,     \* what a row makes Caddy do, and its priority
  Creatable,   \* the targets that the validation of a new row accepts
  Nobody, NoRow,
  MaxFaults    \* bound on the actions marked with Fault

Tables == {"routes", "limits"}
Kinds == {"create", "update", "toggle", "delete"}

Rows == [id : Nat, name : Names, on : BOOLEAN, to : Targets]

ASSUME CaddyAssumption ==
  /\ Manual \notin Calls /\ Nobody \notin Calls \cup {Manual}
  /\ \A c \in Calls :
       Requests[c] \subseteq
         [kind : Kinds, table : Tables, name : Names, on : BOOLEAN, to : Targets]
  /\ Initial \in [Tables -> SUBSET {r \in Rows : r.id = 0}]
  /\ \A t \in Tables : \A r, s \in Initial[t] : r = s
  /\ Creatable \subseteq Targets
  /\ MaxFaults \in Nat

VARIABLES
  rows,        \* rows[t]: caddy_route_tbl and caddy_rate_limit_tbl
  nextId,      \* the sequence behind their ids
  caddy,       \* caddy[t]: the managed group of t in the running configuration
  call,        \* call[c]: the call in progress
  posts,       \* configurations on their way to /load
  faults,
  seen,        \* history: seen[t], the sets of enabled rows there have been
  alone,       \* history: callers that have been the only one since they began
  trusted      \* history: tables nothing has come between, see Agree

database == <<rows, nextId>>
history == <<seen, alone, trusted>>
vars == <<database, caddy, call, posts, faults, history>>

Callers == Calls \cup {Manual}
Requested(c) == call[c].req

\* What Caddy is told of a row.
Compiled(r) == [name |-> r.name, to |-> r.to]
Enabled(rs) == {Compiled(r) : r \in {x \in rs : x.on}}

SyncRoutes == [kind |-> "sync", table |-> "routes", name |-> Nobody, on |-> TRUE, to |-> Nobody]
Resting == [step |-> "idle", req |-> SyncRoutes, id |-> 0, old |-> NoRow, set |-> {},
            config |-> [t \in Tables |-> {}]]
Done == [Resting EXCEPT !.step = "done"]

Active(c) == call[c].step \notin {"idle", "done"}
Quiet == posts = {} /\ \A c \in Callers : ~Active(c)

\* No call but c has run, and no late request can come in.
Undisturbed(c) == c \in alone /\ \A p \in posts : p.from = c

Groups == [Tables -> SUBSET [name : Names, to : Targets]]
Asked == [kind : Kinds, table : Tables, name : Names, on : BOOLEAN, to : Targets] \cup {SyncRoutes}
CallStates ==
  [step : {"idle", "read", "write", "rows", "config", "post", "wait", "applied", "undo", "done"},
   req : Asked, id : Nat, old : Rows \cup {NoRow},
   set : SUBSET [name : Names, to : Targets], config : Groups]

\* Rows are told apart by id and by name; a call waits exactly while its request is under
\* way.
TypeOK ==
  /\ nextId \in Nat \ {0}
  /\ rows \in [Tables -> SUBSET Rows]
  /\ \A t \in Tables : \A r, s \in rows[t] :
       r.id < nextId /\ (r # s => r.id # s.id /\ r.name # s.name)
  /\ caddy \in Groups
  /\ call \in [Callers -> CallStates]
  /\ posts \subseteq [from : Callers \cup {Nobody}, config : Groups]
  /\ \A c \in Callers : call[c].step = "wait" <=> \E p \in posts : p.from = c
  /\ faults \in 0..MaxFaults
  /\ seen \in [Tables -> SUBSET SUBSET [name : Names, to : Targets]]
  /\ alone \subseteq Callers /\ trusted \subseteq Tables

Init ==
  /\ rows = Initial /\ nextId = 1
  /\ caddy = [t \in Tables |-> Enabled(Initial[t])]
  /\ call = [c \in Callers |-> Resting]
  /\ posts = {} /\ faults = 0
  /\ seen = [t \in Tables |-> {Enabled(Initial[t])}]
  /\ alone = {} /\ trusted = Tables

Fault == faults < MaxFaults /\ faults' = faults + 1

\* What the history keeps of a step that leaves the callers as they are.
Recorded == seen' = [t \in Tables |-> seen[t] \cup {Enabled(rows'[t])}]
HistoryOnly == Recorded /\ UNCHANGED <<alone, trusted>>

Goes(c, step) == call' = [call EXCEPT ![c].step = step]
Ends(c) == call' = [call EXCEPT ![c] = IF c = Manual THEN Resting ELSE Done]

-----------------------------------------------------------------------------
(* The table                                                                *)

HasId(t, id) == \E r \in rows[t] : r.id = id
HasName(t, name) == \E r \in rows[t] : r.name = name
Row(t, id) == CHOOSE r \in rows[t] : r.id = id

Insert(t, name, on, to) ==
  /\ rows' = [rows EXCEPT ![t] = @ \cup {[id |-> nextId, name |-> name, on |-> on, to |-> to]}]
  /\ nextId' = nextId + 1

Change(t, id, on, to) ==
  /\ rows' = [rows EXCEPT ![t] =
       {IF r.id = id THEN [r EXCEPT !.on = on, !.to = to] ELSE r : r \in @}]
  /\ UNCHANGED nextId

Delete(t, id) ==
  /\ rows' = [rows EXCEPT ![t] = {r \in @ : r.id # id}]
  /\ UNCHANGED nextId

-----------------------------------------------------------------------------
(* A call                                                                   *)

\* A new call comes while others are in progress: none of them is alone.
Joins(c) ==
  /\ alone' = IF Quiet THEN {c} ELSE {}
  /\ trusted' = IF Quiet THEN trusted ELSE {}
  /\ UNCHANGED <<database, caddy, posts, faults, seen>>

\* The id is taken from the list the caller was shown, unless it creates a row.
Begin(c, q, id) ==
  /\ call[c] = Resting
  /\ IF q.kind = "create" THEN id = 0 ELSE HasId(q.table, id)
  /\ call' = [call EXCEPT ![c] = [Resting EXCEPT
       !.req = q, !.id = id, !.step = IF q.kind = "create" THEN "write" ELSE "read"]]
  /\ Joins(c)

\* sync_all_routes.
BeginSync ==
  /\ call[Manual] = Resting
  /\ call' = [call EXCEPT ![Manual].step = "rows"]
  /\ Joins(Manual)

CallOnly == UNCHANGED <<database, caddy, posts, faults>> /\ HistoryOnly

Read(c) ==
  /\ call[c].step = "read"
  /\ IF HasId(Requested(c).table, call[c].id)
       THEN call' = [call EXCEPT ![c].step = "write",
                                 ![c].old = Row(Requested(c).table, call[c].id)]
       ELSE Ends(c)
  /\ CallOnly

\* _validate_route_create, _validate_rate_limit_create; an update is not validated so.
MayInsert(t, name, to) == ~HasName(t, name) /\ to \in Creatable

\* A disabled route is not synchronised when it is created; a rate limit is.
WriteCreate(c) ==
  /\ call[c].step = "write" /\ Requested(c).kind = "create"
  /\ LET q == Requested(c)
     IN  IF ~MayInsert(q.table, q.name, q.to)
           THEN Ends(c) /\ UNCHANGED database
           ELSE /\ Insert(q.table, q.name, q.on, q.to)
                /\ IF q.on \/ q.table = "limits"
                     THEN call' = [call EXCEPT ![c].step = "rows", ![c].id = nextId]
                     ELSE Ends(c)
  /\ UNCHANGED <<caddy, posts, faults>> /\ HistoryOnly

\* A route that has the wanted state already is not written, even if it is gone.
WriteToggle(c) ==
  /\ call[c].step = "write" /\ Requested(c).kind = "toggle"
  /\ LET q == Requested(c)
     IN  IF q.table = "routes" /\ call[c].old.on = q.on
           THEN Goes(c, "rows") /\ UNCHANGED database
           ELSE IF ~HasId(q.table, call[c].id)
                  THEN Ends(c) /\ UNCHANGED database
                  ELSE /\ Change(q.table, call[c].id, q.on, Row(q.table, call[c].id).to)
                       /\ Goes(c, "rows")
  /\ UNCHANGED <<caddy, posts, faults>> /\ HistoryOnly

WriteOther(c) ==
  /\ call[c].step = "write" /\ Requested(c).kind \in {"update", "delete"}
  /\ LET q == Requested(c)
     IN  IF ~HasId(q.table, call[c].id)
           THEN Ends(c) /\ UNCHANGED database
           ELSE /\ Goes(c, "rows")
                /\ IF q.kind = "update" THEN Change(q.table, call[c].id, q.on, q.to)
                                        ELSE Delete(q.table, call[c].id)
  /\ UNCHANGED <<caddy, posts, faults>> /\ HistoryOnly

\* MUTANT of ReadRows: without enabled rows there is nothing to do.
ReadRows_NothingToDo(c) ==
  /\ call[c].step = "rows"
  /\ LET set == Enabled(rows[Requested(c).table])
     IN  call' = [call EXCEPT ![c].step = IF set = {} THEN "applied" ELSE "config", ![c].set = set]
  /\ CallOnly

\* sync_routes_to_caddy, _sync_enabled_rules_to_caddy.
ReadRows(c) ==
  /\ call[c].step = "rows"
  /\ call' = [call EXCEPT ![c].step = "config",
                          ![c].set = Enabled(rows[Requested(c).table])]
  /\ CallOnly

\* get_config, the whole configuration.
ReadConfig(c) ==
  /\ call[c].step = "config"
  /\ call' = [call EXCEPT ![c].step = "post", ![c].config = caddy]
  /\ CallOnly

ReadConfigFails(c) ==
  /\ call[c].step = "config" /\ Goes(c, "undo")
  /\ Fault
  /\ UNCHANGED <<database, caddy, posts>> /\ HistoryOnly

\* MUTANT of Merged: the old routes of the group are kept.
Merged_KeepsOld(config, t, set) == [config EXCEPT ![t] = @ \cup set]

\* apply_routes_batch, apply_rate_limits_batch.
Merged(config, t, set) == [config EXCEPT ![t] = set]

Post(c) ==
  /\ call[c].step = "post"
  /\ call' = [call EXCEPT ![c] =
       [@ EXCEPT !.step = "wait", !.set = {}, !.config = Resting.config]]
  /\ posts' = posts \cup
       {[from |-> c, config |-> Merged(call[c].config, Requested(c).table, call[c].set)]}
  /\ UNCHANGED <<database, caddy, faults>> /\ HistoryOnly

\* MUTANT of Undo: nothing is taken back.
Undo_Nothing(c) ==
  /\ call[c].step = "undo" /\ Ends(c)
  /\ CallOnly

\* A deleted row that a new one could not be like.
Lost(c) == Requested(c).kind = "delete" /\ call[c].old.to \notin Creatable

\* The row goes back to what it was when this call read it, whoever has written it since:
\* a rate limit that was toggled only gets its state back, a deleted row a new id, unless
\* the validation of new rows refuses it.
Undo(c) ==
  /\ call[c].step = "undo" /\ Ends(c)
  /\ LET t == Requested(c).table  kind == Requested(c).kind  old == call[c].old  id == call[c].id
     IN  /\ IF kind = "create" THEN Delete(t, id)
            ELSE IF kind = "toggle" /\ t = "limits" /\ HasId(t, id)
              THEN Change(t, id, old.on, Row(t, id).to)
            ELSE IF kind \in {"update", "toggle"} THEN Change(t, id, old.on, old.to)
            ELSE IF kind = "delete" /\ MayInsert(t, old.name, old.to)
              THEN Insert(t, old.name, old.on, old.to)
            ELSE UNCHANGED database
         /\ trusted' = IF Lost(c) THEN trusted \ {t} ELSE trusted
  /\ UNCHANGED <<caddy, posts, faults, alone>> /\ Recorded

\* A transaction raises: the call ends, and what it has written stays.
DatabaseFails(c) ==
  /\ call[c].step \in {"read", "write", "rows", "undo"} /\ Ends(c)
  /\ trusted' = IF call[c].step \in {"rows", "undo"} THEN trusted \ {Requested(c).table}
                                                    ELSE trusted
  /\ Fault
  /\ UNCHANGED <<database, caddy, posts, alone>> /\ Recorded

Succeed(c) ==
  /\ call[c].step = "applied" /\ Ends(c)
  /\ trusted' = IF Undisturbed(c) THEN trusted \cup {Requested(c).table} ELSE trusted
  /\ UNCHANGED <<database, caddy, posts, faults, alone>> /\ Recorded

\* The client gives up; the request may still arrive, or has been applied.
TimesOut(c) ==
  /\ call[c].step \in {"wait", "applied"} /\ Goes(c, "undo")
  /\ posts' = {IF p.from = c THEN [p EXCEPT !.from = Nobody] ELSE p : p \in posts}
  /\ trusted' = {}
  /\ Fault
  /\ UNCHANGED <<database, caddy, alone>> /\ Recorded

CallStep(c) ==
  \/ Read(c) \/ WriteCreate(c) \/ WriteToggle(c) \/ WriteOther(c)
  \/ ReadRows(c) \/ ReadConfig(c) \/ Post(c) \/ Undo(c) \/ Succeed(c)

-----------------------------------------------------------------------------
(* Caddy                                                                    *)

\* /load replaces the configuration.
Load(p) ==
  /\ p \in posts /\ posts' = posts \ {p}
  /\ caddy' = p.config
  /\ IF p.from = Nobody THEN UNCHANGED call ELSE Goes(p.from, "applied")
  /\ UNCHANGED <<database, faults>> /\ HistoryOnly

\* The request is refused or does not get through.
Refuse(p) ==
  /\ p \in posts /\ posts' = posts \ {p}
  /\ p.from # Nobody /\ Goes(p.from, "undo")
  /\ Fault
  /\ UNCHANGED <<database, caddy>> /\ HistoryOnly

\* Caddy starts again from its Caddyfile, which has neither group.
CaddyRestarts ==
  /\ Fault
  /\ caddy' = [t \in Tables |-> {}]
  /\ alone' = {} /\ trusted' = {}
  /\ seen' = [t \in Tables |-> seen[t] \cup {{}}]
  /\ UNCHANGED <<database, call, posts>>

\* opsbffsrv restarts: its calls end where they are.
Crash ==
  /\ Fault
  /\ call' = [c \in Callers |-> IF ~Active(c) THEN call[c] ELSE IF c = Manual THEN Resting ELSE Done]
  /\ posts' = {[p EXCEPT !.from = Nobody] : p \in posts}
  /\ alone' = {} /\ trusted' = {}
  /\ UNCHANGED <<database, caddy, seen>>

CaddyStep == \E p \in posts : Load(p)

Next ==
  \/ \E c \in Calls : \E q \in Requests[c], id \in 0..(nextId - 1) : Begin(c, q, id)
  \/ BeginSync
  \/ \E c \in Callers : CallStep(c) \/ ReadConfigFails(c) \/ TimesOut(c) \/ DatabaseFails(c)
  \/ CaddyStep \/ \E p \in posts : Refuse(p)
  \/ CaddyRestarts \/ Crash

Spec == Init /\ [][Next]_vars

\* Requests have timeouts, and Caddy takes what arrives.
FairSpec ==
  /\ Spec
  /\ \A c \in Callers : WF_vars(CallStep(c))
  /\ WF_vars(CaddyStep)

-----------------------------------------------------------------------------
(* Properties                                                               *)

\* However calls, late requests and rollbacks interleave, each managed group in Caddy is
\* the set of enabled rows of one moment, never a mixture (apply_routes_batch).
GroupIsSnapshot == \A t \in Tables : caddy[t] \in seen[t]

\* Between calls that came one after the other, table and Caddy agree, whether the calls
\* succeeded or were rolled back.  They may differ after an overlap, a lost answer or a
\* restart, after an exception of the database between the change of a row and the end of
\* its rollback, and if a deletion is to be rolled back of a row as an update has made it
\* and creation would not; then one successful call on the table without company is
\* enough (create_route_and_sync and the others).
Agree == Quiet => \A t \in trusted : caddy[t] = Enabled(rows[t])

\* After the last change, somebody who keeps asking for a synchronisation until it
\* succeeds brings the routes and Caddy together for good, unless Caddy restarts
\* (sync_all_routes).
ManualSyncRepairs ==
  []<><<Succeed(Manual)>>_vars => <>[](caddy["routes"] = Enabled(rows["routes"]))
=============================================================================
