--------------------------- MODULE CaddySyncProofs ---------------------------
(***************************************************************************)
(* Proofs about CaddySync, for all calls, requests and tables and any      *)
(* number of failures and restarts.                                        *)
(*                                                                         *)
(* A call reads the enabled rows in one transaction and the configuration  *)
(* in one request; whatever happens in between, each group it posts is one *)
(* of these two, and both are sets of enabled rows of some moment.  A call *)
(* that nothing comes between leaves table and Caddy in agreement.         *)
(***************************************************************************)
EXTENDS CaddySync, TLAPS

USE CaddyAssumption DEF Tables, Kinds

-----------------------------------------------------------------------------
(* The invariant                                                            *)

TableType ==
  /\ nextId \in Nat \ {0}
  /\ rows \in [Tables -> SUBSET Rows]
  /\ \A t \in Tables : \A r, s \in rows[t] :
       r.id < nextId /\ (r # s => r.id # s.id /\ r.name # s.name)

CallType == call \in [Callers -> CallStates]

NetType == caddy \in Groups /\ posts \subseteq [from : Callers \cup {Nobody}, config : Groups]

RestType ==
  /\ faults \in 0..MaxFaults
  /\ seen \in [Tables -> SUBSET SUBSET [name : Names, to : Targets]]
  /\ alone \subseteq Callers /\ trusted \subseteq Tables

\* A call waits exactly while its only request is under way.
Waits ==
  /\ \A c \in Callers : call[c].step = "wait" <=> \E p \in posts : p.from = c
  /\ \A p, q \in posts : p.from = q.from /\ p.from # Nobody => p = q

\* A call that may take a change back has read the row.
Known(r) ==
  /\ r.req.kind \in {"update", "toggle", "delete"}
  /\ r.step \in {"write", "rows", "config", "post", "wait", "applied", "undo"}
  => r.old \in Rows
OldIsKnown == \A c \in Callers : Known(call[c])

\* Everything that is going to be a group has been the enabled rows.
FromTables(config) == \A t \in Tables : config[t] \in seen[t]
HasRead(r) ==
  /\ r.step \in {"config", "post"} => r.set \in seen[r.req.table]
  /\ r.step = "post" => FromTables(r.config)
Snapshots ==
  /\ \A t \in Tables : Enabled(rows[t]) \in seen[t]
  /\ FromTables(caddy)
  /\ \A p \in posts : FromTables(p.config)
  /\ \A c \in Callers : HasRead(call[c])

\* The inductive invariant.
IInv == TableType /\ CallType /\ NetType /\ RestType /\ Waits /\ OldIsKnown /\ Snapshots

-----------------------------------------------------------------------------
(* Values                                                                   *)

\* What is enabled is a set of groups.
LEMMA EnabledType ==
  ASSUME NEW rs \in SUBSET Rows
  PROVE  Enabled(rs) \subseteq [name : Names, to : Targets]
BY DEF Enabled, Compiled, Rows

LEMMA RestingType ==
  /\ Resting \in CallStates /\ Done \in CallStates
  /\ Resting.step = "idle" /\ Done.step = "done"
  /\ Known(Resting) /\ Known(Done) /\ HasRead(Resting) /\ HasRead(Done)
<1>1. [t \in Tables |-> {}] \in Groups
  BY DEF Groups
<1>2. SyncRoutes \in Asked
  BY DEF Asked
<1>3. Resting \in CallStates /\ Done \in CallStates
  BY <1>1, <1>2 DEF Resting, Done, CallStates
<1> QED BY <1>3 DEF Resting, Done, Known, HasRead, SyncRoutes

LEMMA AskedTable ==
  ASSUME NEW q \in Asked
  PROVE  q.table \in Tables
BY DEF Asked, SyncRoutes

LEMMA MergedType ==
  ASSUME NEW config \in Groups, NEW t \in Tables,
         NEW set \in SUBSET [name : Names, to : Targets]
  PROVE  Merged(config, t, set) \in Groups
BY DEF Merged, Groups

-----------------------------------------------------------------------------
(* The tables                                                               *)

LEMMA InsertType ==
  ASSUME TableType, NEW t \in Tables, NEW name \in Names, NEW on \in BOOLEAN, NEW to \in Targets,
         ~HasName(t, name), Insert(t, name, on, to)
  PROVE  TableType'
<1> DEFINE new == [id |-> nextId, name |-> name, on |-> on, to |-> to]
<1>1. nextId \in Nat \ {0} /\ nextId' = nextId + 1 /\ rows \in [Tables -> SUBSET Rows]
  BY DEF TableType, Insert
<1>2. new \in Rows /\ new.id = nextId /\ new.name = name
  BY <1>1 DEF Rows
<1>3. rows' = [rows EXCEPT ![t] = @ \cup {new}]
  BY DEF Insert
<1> HIDE DEF new
<1>4. rows' \in [Tables -> SUBSET Rows]
  BY <1>1, <1>2, <1>3
<1>5. ASSUME NEW u \in Tables, NEW r \in rows'[u], NEW s \in rows'[u]
      PROVE  r.id < nextId' /\ (r # s => r.id # s.id /\ r.name # s.name)
  <2>1. r \in rows[u] \/ (u = t /\ r = new)
    BY <1>1, <1>3
  <2>2. s \in rows[u] \/ (u = t /\ s = new)
    BY <1>1, <1>3
  <2>3. \A x \in rows[u] : x.id \in Nat /\ x.id < nextId
    BY <1>1 DEF TableType, Rows
  <2>4. u = t => \A x \in rows[u] : x.name # new.name
    BY <1>2 DEF HasName
  <2> QED BY <1>1, <1>2, <2>1, <2>2, <2>3, <2>4 DEF TableType
<1> QED BY <1>1, <1>4, <1>5 DEF TableType

LEMMA ChangeType ==
  ASSUME TableType, NEW t \in Tables, NEW id, NEW on \in BOOLEAN, NEW to \in Targets,
         Change(t, id, on, to)
  PROVE  TableType'
<1> DEFINE new(r) == IF r.id = id THEN [r EXCEPT !.on = on, !.to = to] ELSE r
<1>1. nextId \in Nat \ {0} /\ nextId' = nextId /\ rows \in [Tables -> SUBSET Rows]
  BY DEF TableType, Change
<1>2. \A r \in Rows : new(r) \in Rows /\ new(r).id = r.id /\ new(r).name = r.name
  BY DEF Rows
<1>3. rows' = [rows EXCEPT ![t] = {new(r) : r \in rows[t]}]
  BY <1>1 DEF Change
<1> HIDE DEF new
<1>4. rows' \in [Tables -> SUBSET Rows]
  BY <1>1, <1>2, <1>3
<1>5. ASSUME NEW u \in Tables, NEW r \in rows'[u], NEW s \in rows'[u]
      PROVE  r.id < nextId' /\ (r # s => r.id # s.id /\ r.name # s.name)
  <2>1. CASE u # t
    BY <1>1, <1>3, <2>1 DEF TableType
  <2>2. CASE u = t
    <3>1. PICK x \in rows[t] : r = new(x)
      BY <1>1, <1>3, <2>2
    <3>2. PICK y \in rows[t] : s = new(y)
      BY <1>1, <1>3, <2>2
    <3> QED BY <1>1, <1>2, <3>1, <3>2 DEF TableType
  <2> QED BY <2>1, <2>2
<1> QED BY <1>1, <1>4, <1>5 DEF TableType

LEMMA DeleteType ==
  ASSUME TableType, NEW t \in Tables, NEW id, Delete(t, id)
  PROVE  TableType'
<1>1. nextId' = nextId /\ rows' = [rows EXCEPT ![t] = {r \in rows[t] : r.id # id}]
  BY DEF TableType, Delete
<1>2. \A u \in Tables : rows'[u] \subseteq rows[u]
  BY <1>1 DEF TableType
<1> QED BY <1>1, <1>2 DEF TableType

LEMMA RowFound ==
  ASSUME TableType, NEW t \in Tables, NEW id, HasId(t, id)
  PROVE  Row(t, id) \in Rows
BY DEF TableType, HasId, Row

-----------------------------------------------------------------------------
(* Steps of a call that send nothing                                        *)

SeenGrows == \A t \in Tables : seen[t] \subseteq seen'[t] /\ Enabled(rows'[t]) \in seen'[t]

\* c goes on with the state r.
Moves(c, r) ==
  /\ r \in CallStates /\ Known(r) /\ HasRead(r) /\ r.step # "wait"
  /\ call' = [call EXCEPT ![c] = r] /\ call[c].step # "wait"
  /\ UNCHANGED <<caddy, posts>>

LEMMA MovesIInv ==
  ASSUME IInv, NEW c \in Callers, NEW r, Moves(c, r), TableType', RestType', SeenGrows
  PROVE  IInv'
<1>1. call \in [Callers -> CallStates] /\ call' \in [Callers -> CallStates]
  BY DEF IInv, CallType, Moves
<1>2. call'[c] = r /\ \A d \in Callers : d # c => call'[d] = call[d]
  BY <1>1 DEF Moves
<1>3. CallType' /\ NetType'
  BY <1>1 DEF IInv, CallType, NetType, Moves
<1>4. OldIsKnown'
  BY <1>2 DEF IInv, OldIsKnown, Moves, Known
<1>5. Waits'
  BY <1>2 DEF IInv, Waits, Moves
<1>6. \A config : FromTables(config) => FromTables(config)'
  BY DEF SeenGrows, FromTables
<1>7. ASSUME NEW d \in Callers PROVE HasRead(call[d])'
  <2>1. HasRead(call'[d]) /\ call'[d] \in CallStates
    BY <1>1, <1>2 DEF IInv, Snapshots, Moves
  <2>2. call'[d].req.table \in Tables
    BY <2>1, AskedTable DEF CallStates
  <2> QED BY <1>6, <2>1, <2>2 DEF HasRead, SeenGrows
<1>8. Snapshots'
  BY <1>6, <1>7 DEF IInv, Snapshots, Moves, SeenGrows
<1> QED BY <1>3, <1>4, <1>5, <1>8 DEF IInv

LEMMA RecordedGrows ==
  ASSUME IInv, TableType', Recorded
  PROVE  /\ SeenGrows
         /\ seen' \in [Tables -> SUBSET SUBSET [name : Names, to : Targets]]
<1>1. \A t \in Tables : Enabled(rows'[t]) \subseteq [name : Names, to : Targets]
  BY EnabledType DEF TableType
<1> QED BY <1>1 DEF IInv, RestType, Recorded, SeenGrows

\* A step that writes a history entry, as all steps of a call but the first do.
LEMMA StepIInv ==
  ASSUME IInv, NEW c \in Callers, NEW r, Moves(c, r), TableType', Recorded, alone' = alone,
         trusted' \subseteq Tables, faults' \in 0..MaxFaults
  PROVE  IInv'
<1>1. RestType' /\ SeenGrows
  BY RecordedGrows DEF IInv, RestType
<1> QED BY <1>1, MovesIInv

LEMMA EndsMoves ==
  ASSUME NEW c \in Callers, Ends(c), call[c].step # "wait", UNCHANGED <<caddy, posts>>
  PROVE  \E r : Moves(c, r)
<1>1. CASE c = Manual
  BY <1>1, RestingType DEF Ends, Moves
<1>2. CASE c # Manual
  BY <1>2, RestingType DEF Ends, Moves
<1> QED BY <1>1, <1>2

LEMMA GoesMoves ==
  ASSUME IInv, NEW c \in Callers, NEW s \in {"rows", "undo"}, Goes(c, s),
         call[c].step \in {"write", "rows", "config", "post", "applied"}, UNCHANGED <<caddy, posts>>
  PROVE  Moves(c, [call[c] EXCEPT !.step = s])
<1> DEFINE r == [call[c] EXCEPT !.step = s]
<1>1. call[c] \in CallStates /\ Known(call[c])
  BY DEF IInv, CallType, OldIsKnown
<1>2. r \in CallStates /\ r.step = s /\ r.req = call[c].req /\ r.old = call[c].old
  BY <1>1 DEF CallStates
<1>3. call' = [call EXCEPT ![c] = r]
  BY DEF Goes
<1> HIDE DEF r
<1>4. Known(r) /\ HasRead(r)
  BY <1>1, <1>2 DEF Known, HasRead
<1>5. Moves(c, r)
  BY <1>2, <1>3, <1>4 DEF Moves
<1> QED BY <1>5 DEF r

LEMMA SameTable ==
  ASSUME TableType, UNCHANGED database
  PROVE  TableType'
BY DEF TableType, database

\* The request that c is about, and where it is.
LEMMA CallFacts ==
  ASSUME IInv, NEW c \in Callers
  PROVE  /\ call[c] \in CallStates /\ Known(call[c]) /\ HasRead(call[c])
         /\ Requested(c) \in Asked /\ Requested(c).table \in Tables
         /\ faults \in 0..MaxFaults /\ trusted \subseteq Tables /\ alone \subseteq Callers
         /\ TableType
BY AskedTable DEF IInv, CallType, CallStates, OldIsKnown, Snapshots, RestType, Requested

LEMMA FaultType == faults \in 0..MaxFaults /\ Fault => faults' \in 0..MaxFaults
BY DEF Fault

LEMMA BeginIInv ==
  ASSUME IInv, NEW c \in Callers,
         \/ c = Manual /\ BeginSync
         \/ c \in Calls /\ \E q \in Requests[c], id \in 0..(nextId - 1) : Begin(c, q, id)
  PROVE  IInv'
<1>1. Joins(c) /\ call[c] = Resting
  BY DEF BeginSync, Begin
<1>2. TableType' /\ UNCHANGED <<rows, caddy, posts, faults, seen>>
  BY <1>1, SameTable DEF Joins, IInv, database
<1>3. RestType'
  BY <1>1, <1>2 DEF Joins, IInv, RestType, Callers
<1>4. SeenGrows
  BY <1>2 DEF IInv, Snapshots, SeenGrows
<1>5. CASE c = Manual /\ BeginSync
  <2> DEFINE r == [Resting EXCEPT !.step = "rows"]
  <2>1. r \in CallStates /\ r.step = "rows" /\ r.req = SyncRoutes
    BY RestingType DEF CallStates, Resting
  <2>2. call' = [call EXCEPT ![c] = r]
    BY <1>1, <1>5 DEF BeginSync
  <2> HIDE DEF r
  <2>3. Moves(c, r)
    BY <1>1, <1>2, <2>1, <2>2, RestingType DEF Moves, Known, HasRead, SyncRoutes
  <2> QED BY <1>2, <1>3, <1>4, <2>3, MovesIInv
<1>6. ASSUME NEW q \in Requests[c], NEW id \in 0..(nextId - 1), c \in Calls, Begin(c, q, id)
      PROVE  IInv'
  <2>1. q \in Asked /\ id \in Nat
    BY <1>6 DEF Asked, IInv, TableType
  <2> DEFINE s == IF q.kind = "create" THEN "write" ELSE "read"
             r == [Resting EXCEPT !.req = q, !.id = id, !.step = s]
  <2>2. s \in {"write", "read"} /\ (s = "write" => q.kind = "create")
    OBVIOUS
  <2>3. call' = [call EXCEPT ![c] = r]
    BY <1>6 DEF Begin
  <2> HIDE DEF s
  <2>4. r \in CallStates /\ r.step = s /\ r.req = q
    BY <2>1, <2>2, RestingType DEF CallStates, Resting
  <2> HIDE DEF r
  <2>5. Moves(c, r)
    BY <1>1, <1>2, <2>2, <2>3, <2>4, RestingType DEF Moves, Known, HasRead
  <2> QED BY <1>2, <1>3, <1>4, <2>5, MovesIInv
<1> QED BY <1>5, <1>6

LEMMA ReadIInv ==
  ASSUME IInv, NEW c \in Callers, Read(c) \/ ReadRows(c) \/ ReadConfig(c)
  PROVE  IInv'
<1>1. /\ UNCHANGED <<rows, caddy, posts, faults, alone, trusted>> /\ Recorded /\ TableType'
      /\ call[c].step # "wait"
  BY SameTable DEF Read, ReadRows, ReadConfig, CallOnly, HistoryOnly, IInv, database
<1>2. /\ call[c] \in CallStates /\ Known(call[c]) /\ HasRead(call[c])
      /\ Requested(c) = call[c].req /\ Requested(c).table \in Tables
      /\ faults' \in 0..MaxFaults /\ trusted' \subseteq Tables /\ TableType
  BY <1>1, CallFacts DEF Requested
<1>3. SUFFICES \E r : Moves(c, r)
  BY <1>1, <1>2, StepIInv
<1>4. CASE Read(c) /\ HasId(Requested(c).table, call[c].id)
  <2> DEFINE old == Row(Requested(c).table, call[c].id)
             r == [call[c] EXCEPT !.step = "write", !.old = old]
  <2>1. old \in Rows
    BY <1>2, <1>4, RowFound
  <2>2. call' = [call EXCEPT ![c] = r]
    BY <1>4 DEF Read
  <2> HIDE DEF old
  <2>3. r \in CallStates /\ r.step = "write" /\ r.old = old
    BY <1>2, <2>1 DEF CallStates
  <2> HIDE DEF r
  <2>4. Moves(c, r)
    BY <1>1, <2>1, <2>2, <2>3 DEF Moves, Known, HasRead
  <2> QED BY <2>4
<1>5. CASE Read(c) /\ ~HasId(Requested(c).table, call[c].id)
  BY <1>1, <1>5, EndsMoves DEF Read
<1>6. CASE ReadRows(c)
  <2> DEFINE set == Enabled(rows[Requested(c).table])
             r == [call[c] EXCEPT !.step = "config", !.set = set]
  <2>1. set \subseteq [name : Names, to : Targets] /\ set \in seen[Requested(c).table]
    BY <1>2, EnabledType DEF IInv, TableType, Snapshots
  <2>2. call' = [call EXCEPT ![c] = r] /\ call[c].step = "rows"
    BY <1>6 DEF ReadRows
  <2> HIDE DEF set
  <2>3. r \in CallStates /\ r.step = "config" /\ r.set = set /\ r.req = call[c].req
        /\ r.old = call[c].old
    BY <1>2, <2>1 DEF CallStates
  <2> HIDE DEF r
  <2>4. Moves(c, r)
    BY <1>1, <1>2, <2>1, <2>2, <2>3 DEF Moves, Known, HasRead
  <2> QED BY <2>4
<1>7. CASE ReadConfig(c)
  <2> DEFINE r == [call[c] EXCEPT !.step = "post", !.config = caddy]
  <2>1. caddy \in Groups /\ FromTables(caddy)
    BY DEF IInv, NetType, Snapshots
  <2>2. call' = [call EXCEPT ![c] = r] /\ call[c].step = "config"
    BY <1>7 DEF ReadConfig
  <2>3. r \in CallStates /\ r.step = "post" /\ r.config = caddy /\ r.req = call[c].req
        /\ r.old = call[c].old /\ r.set = call[c].set
    BY <1>2, <2>1 DEF CallStates
  <2> HIDE DEF r
  <2>4. Moves(c, r)
    BY <1>1, <1>2, <2>1, <2>2, <2>3 DEF Moves, Known, HasRead
  <2> QED BY <2>4
<1> QED BY <1>4, <1>5, <1>6, <1>7

LEMMA WriteIInv ==
  ASSUME IInv, NEW c \in Callers, WriteCreate(c) \/ WriteToggle(c) \/ WriteOther(c)
  PROVE  IInv'
<1>1. /\ UNCHANGED <<caddy, posts, faults, alone, trusted>> /\ Recorded
      /\ call[c].step = "write"
  BY DEF WriteCreate, WriteToggle, WriteOther, HistoryOnly
<1>2. /\ call[c] \in CallStates /\ Known(call[c]) /\ HasRead(call[c])
      /\ Requested(c) = call[c].req /\ Requested(c).table \in Tables
      /\ faults' \in 0..MaxFaults /\ trusted' \subseteq Tables /\ TableType
  BY <1>1, CallFacts DEF Requested
<1>3. Requested(c).kind # "sync" =>
        Requested(c).name \in Names /\ Requested(c).on \in BOOLEAN /\ Requested(c).to \in Targets
  BY <1>2 DEF CallStates, Asked, SyncRoutes
<1>4. SUFFICES TableType' /\ \E r : Moves(c, r)
  BY <1>1, <1>2, StepIInv
<1>5. CASE Ends(c) /\ UNCHANGED database
  BY <1>1, <1>2, <1>5, EndsMoves, SameTable
<1>6. CASE Goes(c, "rows") /\ UNCHANGED database
  BY <1>1, <1>2, <1>6, GoesMoves, SameTable
<1>7. CASE WriteCreate(c) /\ MayInsert(Requested(c).table, Requested(c).name, Requested(c).to)
  <2>1. TableType'
    BY <1>2, <1>3, <1>7, InsertType DEF WriteCreate, MayInsert
  <2>2. CASE Ends(c)
    BY <1>1, <2>1, <2>2, EndsMoves
  <2>3. CASE ~Ends(c)
    <3> DEFINE r == [call[c] EXCEPT !.step = "rows", !.id = nextId]
    <3>1. call' = [call EXCEPT ![c] = r] /\ call[c].req.kind = "create"
      BY <1>2, <1>7, <2>3 DEF WriteCreate
    <3>2. r \in CallStates /\ r.step = "rows" /\ r.req = call[c].req
      BY <1>2 DEF CallStates, TableType
    <3> HIDE DEF r
    <3>3. Moves(c, r)
      BY <1>1, <3>1, <3>2 DEF Moves, Known, HasRead
    <3> QED BY <2>1, <3>3
  <2> QED BY <2>2, <2>3
<1>8. ASSUME Goes(c, "rows"), NEW id, NEW on \in BOOLEAN, NEW to \in Targets,
             Change(Requested(c).table, id, on, to)
      PROVE  TableType' /\ \E r : Moves(c, r)
  <2>1. TableType'
    BY <1>2, <1>8, ChangeType
  <2> QED BY <1>1, <1>8, <2>1, GoesMoves
<1>9. CASE Goes(c, "rows") /\ Delete(Requested(c).table, call[c].id)
  BY <1>1, <1>2, <1>9, GoesMoves, DeleteType
<1>10. CASE WriteToggle(c)
  <2> DEFINE q == Requested(c)
             to == Row(q.table, call[c].id).to
  <2>1. CASE q.table = "routes" /\ call[c].old.on = q.on
    BY <1>6, <1>10, <2>1 DEF WriteToggle
  <2>2. CASE ~(q.table = "routes" /\ call[c].old.on = q.on) /\ ~HasId(q.table, call[c].id)
    BY <1>5, <1>10, <2>2 DEF WriteToggle
  <2>3. CASE ~(q.table = "routes" /\ call[c].old.on = q.on) /\ HasId(q.table, call[c].id)
    <3>1. to \in Targets /\ q.on \in BOOLEAN
      BY <1>2, <1>3, <1>10, <2>3, RowFound DEF Rows, WriteToggle
    <3>2. Goes(c, "rows") /\ Change(Requested(c).table, call[c].id, q.on, to)
      BY <1>10, <2>3 DEF WriteToggle
    <3> HIDE DEF to
    <3> QED BY <1>8, <3>1, <3>2
  <2> QED BY <2>1, <2>2, <2>3
<1>11. CASE WriteOther(c)
  <2>1. CASE ~HasId(Requested(c).table, call[c].id)
    BY <1>5, <1>11, <2>1 DEF WriteOther
  <2>2. CASE HasId(Requested(c).table, call[c].id) /\ Requested(c).kind = "update"
    <3>1. Goes(c, "rows")
          /\ Change(Requested(c).table, call[c].id, Requested(c).on, Requested(c).to)
      BY <1>11, <2>2 DEF WriteOther
    <3> QED BY <1>3, <1>8, <2>2, <3>1
  <2>3. CASE HasId(Requested(c).table, call[c].id) /\ Requested(c).kind # "update"
    BY <1>9, <1>11, <2>3 DEF WriteOther
  <2> QED BY <2>1, <2>2, <2>3
<1>12. CASE WriteCreate(c) /\ ~MayInsert(Requested(c).table, Requested(c).name, Requested(c).to)
  BY <1>5, <1>12 DEF WriteCreate
<1> QED BY <1>7, <1>10, <1>11, <1>12

LEMMA UndoIInv ==
  ASSUME IInv, NEW c \in Callers, Undo(c)
  PROVE  IInv'
<1>1. /\ UNCHANGED <<caddy, posts, faults, alone>> /\ trusted' \subseteq trusted /\ Recorded
      /\ call[c].step = "undo" /\ Ends(c)
  BY DEF Undo
<1>2. /\ call[c] \in CallStates /\ Known(call[c]) /\ Requested(c) = call[c].req
      /\ Requested(c).table \in Tables
      /\ faults' \in 0..MaxFaults /\ trusted' \subseteq Tables /\ TableType
  BY <1>1, CallFacts DEF Requested
<1>3. SUFFICES TableType'
  BY <1>1, <1>2, EndsMoves, StepIInv
<1> DEFINE t == Requested(c).table
           kind == Requested(c).kind
           old == call[c].old
           id == call[c].id
<1>4. kind \in {"update", "toggle", "delete"} =>
        old.name \in Names /\ old.on \in BOOLEAN /\ old.to \in Targets
  BY <1>1, <1>2 DEF Known, Rows
<1>5. CASE kind = "create"
  BY <1>2, <1>5, DeleteType DEF Undo
<1>6. CASE kind = "toggle" /\ t = "limits" /\ HasId(t, id)
  <2>1. Change(t, id, old.on, Row(t, id).to)
    BY <1>6 DEF Undo
  <2>2. Row(t, id).to \in Targets
    BY <1>2, <1>6, RowFound DEF Rows
  <2> QED BY <1>2, <1>4, <1>6, <2>1, <2>2, ChangeType
<1>7. CASE kind \in {"update", "toggle"} /\ ~(kind = "toggle" /\ t = "limits" /\ HasId(t, id))
  <2>1. Change(t, id, old.on, old.to)
    BY <1>7 DEF Undo
  <2> QED BY <1>2, <1>4, <1>7, <2>1, ChangeType
<1>8. CASE kind = "delete" /\ MayInsert(t, old.name, old.to)
  <2>1. Insert(t, old.name, old.on, old.to)
    BY <1>8 DEF Undo
  <2> QED BY <1>2, <1>4, <1>8, <2>1, InsertType DEF MayInsert
<1>9. CASE /\ kind \notin {"create", "update", "toggle"}
           /\ ~(kind = "delete" /\ MayInsert(t, old.name, old.to))
  <2>1. UNCHANGED database
    BY <1>9 DEF Undo
  <2> QED BY <1>2, <2>1, SameTable
<1> QED BY <1>5, <1>6, <1>7, <1>8, <1>9

LEMMA EndIInv ==
  ASSUME IInv, NEW c \in Callers, Succeed(c) \/ ReadConfigFails(c) \/ DatabaseFails(c)
  PROVE  IInv'
<1>1. /\ UNCHANGED <<rows, caddy, posts, alone>> /\ Recorded /\ TableType'
      /\ call[c].step \notin {"idle", "wait"}
  BY SameTable DEF Succeed, ReadConfigFails, DatabaseFails, HistoryOnly, IInv, database
<1>2. /\ Requested(c).table \in Tables /\ trusted \subseteq Tables /\ faults \in 0..MaxFaults
  BY CallFacts
<1>3. trusted' \subseteq Tables /\ faults' \in 0..MaxFaults
  BY <1>2, FaultType DEF Succeed, ReadConfigFails, DatabaseFails, HistoryOnly
<1>4. \E r : Moves(c, r)
  BY <1>1, EndsMoves, GoesMoves DEF Succeed, ReadConfigFails, DatabaseFails
<1> QED BY <1>1, <1>3, <1>4, StepIInv

-----------------------------------------------------------------------------
(* Steps of requests, of Caddy and of the process                           *)

\* The tables stay; calls stay or stop waiting, requests stay or come from nobody.
LEMMA NetIInv ==
  ASSUME IInv, UNCHANGED database, SeenGrows, RestType', CallType', NetType', Waits',
         \A d \in Callers : Known(call'[d]),
         \A d \in Callers : call'[d] = call[d] \/ call'[d].step \notin {"config", "post"},
         \A p \in posts' : FromTables(p.config),
         \A t \in Tables : caddy'[t] \in seen'[t]
  PROVE  IInv'
<1>1. TableType' /\ OldIsKnown'
  BY SameTable DEF IInv, OldIsKnown, Known
<1>2. \A config : FromTables(config) => FromTables(config)'
  BY DEF SeenGrows, FromTables
<1>3. ASSUME NEW d \in Callers PROVE HasRead(call[d])'
  <2>1. CASE call'[d].step \notin {"config", "post"}
    BY <2>1 DEF HasRead
  <2>2. CASE call'[d] = call[d]
    <3>1. HasRead(call'[d]) /\ call'[d].req.table \in Tables
      BY <2>2, AskedTable DEF IInv, Snapshots, CallType, CallStates
    <3> QED BY <1>2, <3>1 DEF HasRead, SeenGrows
  <2> QED BY <2>1, <2>2
<1>4. Snapshots'
  BY <1>2, <1>3 DEF Snapshots, SeenGrows, FromTables
<1> QED BY <1>1, <1>4 DEF IInv

LEMMA RestStays ==
  ASSUME IInv, UNCHANGED database, Recorded, alone' = alone, trusted' \subseteq Tables,
         faults' \in 0..MaxFaults
  PROVE  RestType' /\ SeenGrows
BY SameTable, RecordedGrows DEF IInv, RestType

LEMMA PostIInv ==
  ASSUME IInv, NEW c \in Callers, Post(c)
  PROVE  IInv'
<1> DEFINE r == [call[c] EXCEPT !.step = "wait", !.set = {}, !.config = Resting.config]
           config == Merged(call[c].config, Requested(c).table, call[c].set)
           new == [from |-> c, config |-> config]
<1>1. /\ UNCHANGED database /\ caddy' = caddy /\ RestType' /\ SeenGrows
      /\ call[c].step = "post"
  BY RestStays, CallFacts DEF Post, HistoryOnly
<1>2. /\ call[c] \in CallStates /\ Known(call[c]) /\ HasRead(call[c])
      /\ Requested(c).table = call[c].req.table /\ Requested(c).table \in Tables
  BY CallFacts DEF Requested
<1>3. r \in CallStates /\ r.step = "wait" /\ r.req = call[c].req /\ r.old = call[c].old
  BY <1>2, RestingType DEF CallStates
<1>4. call' = [call EXCEPT ![c] = r]
  BY DEF Post
<1>5. posts' = posts \cup {new}
  BY DEF Post
<1>6. config \in Groups
  BY <1>2, MergedType DEF CallStates
<1>7. FromTables(config)
  BY <1>1, <1>2 DEF HasRead, FromTables, Merged, CallStates, Groups
<1> HIDE DEF r, config
<1>8. Known(r)
  BY <1>1, <1>2, <1>3 DEF Known
<1>9. call \in [Callers -> CallStates] /\ c # Nobody
  BY DEF IInv, CallType, Callers
<1>10. CallType' /\ call'[c] = r /\ \A d \in Callers : d # c => call'[d] = call[d]
  BY <1>3, <1>4, <1>9 DEF CallType
<1>11. NetType'
  BY <1>1, <1>5, <1>6 DEF IInv, NetType
<1>12. Waits'
  <2>1. \A p \in posts : p.from # c
    BY <1>1 DEF IInv, Waits
  <2>2. new.from = c
    OBVIOUS
  <2> HIDE DEF new
  <2>3. \A d \in Callers : call'[d].step = "wait" <=> \E p \in posts' : p.from = d
    BY <1>3, <1>5, <1>10, <2>1, <2>2 DEF IInv, Waits
  <2>4. \A p, q \in posts' : p.from = q.from /\ p.from # Nobody => p = q
    BY <1>5, <2>1, <2>2 DEF IInv, Waits
  <2> QED BY <2>3, <2>4 DEF Waits
<1>13. \A d \in Callers : Known(call'[d])
  BY <1>8, <1>10 DEF IInv, OldIsKnown
<1>14. \A p \in posts' : FromTables(p.config)
  BY <1>5, <1>7 DEF IInv, Snapshots
<1>15. \A t \in Tables : caddy'[t] \in seen'[t]
  BY <1>1 DEF IInv, Snapshots, FromTables, SeenGrows
<1> QED BY <1>1, <1>3, <1>10, <1>11, <1>12, <1>13, <1>14, <1>15, NetIInv

\* The client of c gives up or is told; its request, if it has one, has gone or is nobody's.
LEMMA LeavesIInv ==
  ASSUME IInv, NEW c \in Callers, NEW s \in {"undo", "applied"}, Goes(c, s),
         call[c].step \in {"wait", "applied"},
         UNCHANGED database, RestType', SeenGrows, NetType',
         \A p \in posts' : \/ p \in posts /\ p.from # c
                           \/ p.from = Nobody /\ \E q \in posts : p.config = q.config,
         \A p \in posts : p.from # c => p \in posts',
         \A t \in Tables : caddy'[t] \in seen'[t]
  PROVE  IInv'
<1> DEFINE r == [call[c] EXCEPT !.step = s]
<1>1. call[c] \in CallStates /\ Known(call[c]) /\ call \in [Callers -> CallStates] /\ c # Nobody
  BY CallFacts DEF IInv, CallType, Callers
<1>2. r \in CallStates /\ r.step = s /\ r.req = call[c].req /\ r.old = call[c].old
  BY <1>1 DEF CallStates
<1>3. call' = [call EXCEPT ![c] = r]
  BY DEF Goes
<1> HIDE DEF r
<1>4. Known(r)
  BY <1>1, <1>2 DEF Known
<1>5. CallType' /\ call'[c] = r /\ \A d \in Callers : d # c => call'[d] = call[d]
  BY <1>1, <1>2, <1>3 DEF CallType
<1>6. \A d \in Callers : Known(call'[d])
  BY <1>4, <1>5 DEF IInv, OldIsKnown
<1>7. \A p \in posts' : FromTables(p.config)
  BY DEF IInv, Snapshots
<1>8. \A d \in Callers : d # Nobody
  BY DEF Callers
<1>9. \A d \in Callers : call'[d].step = "wait" <=> \E p \in posts' : p.from = d
  BY <1>2, <1>5, <1>8 DEF IInv, Waits
<1>10. \A p, q \in posts' : p.from = q.from /\ p.from # Nobody => p = q
  BY DEF IInv, Waits
<1>11. Waits'
  BY <1>9, <1>10 DEF Waits
<1> QED BY <1>2, <1>5, <1>6, <1>7, <1>11, NetIInv

LEMMA TimesOutIInv ==
  ASSUME IInv, NEW c \in Callers, TimesOut(c)
  PROVE  IInv'
<1>1. /\ UNCHANGED database /\ caddy' = caddy /\ RestType' /\ SeenGrows
      /\ call[c].step \in {"wait", "applied"} /\ Goes(c, "undo")
  BY RestStays, FaultType, CallFacts DEF TimesOut
<1>2. posts' = {IF p.from = c THEN [p EXCEPT !.from = Nobody] ELSE p : p \in posts}
  BY DEF TimesOut
<1>3. \A p \in posts : /\ p.from \in Callers \cup {Nobody} /\ p.config \in Groups
                       /\ [p EXCEPT !.from = Nobody] = [from |-> Nobody, config |-> p.config]
  BY DEF IInv, NetType
<1>4. NetType'
  BY <1>1, <1>2, <1>3 DEF IInv, NetType
<1>5. \A p \in posts' : \/ p \in posts /\ p.from # c
                        \/ p.from = Nobody /\ \E q \in posts : p.config = q.config
  BY <1>2, <1>3
<1>6. \A p \in posts : p.from # c => p \in posts'
  BY <1>2
<1>7. \A t \in Tables : caddy'[t] \in seen'[t]
  BY <1>1 DEF IInv, Snapshots, FromTables, SeenGrows
<1> QED BY <1>1, <1>4, <1>5, <1>6, <1>7, LeavesIInv

LEMMA ArriveIInv ==
  ASSUME IInv, NEW p \in posts, Load(p) \/ Refuse(p)
  PROVE  IInv'
<1>1. /\ UNCHANGED database /\ posts' = posts \ {p} /\ caddy' \in {caddy, p.config}
      /\ RestType' /\ SeenGrows
  BY RestStays, FaultType, CallFacts DEF Load, Refuse, HistoryOnly, IInv, RestType
<1>2. p \in [from : Callers \cup {Nobody}, config : Groups] /\ NetType'
  BY <1>1 DEF IInv, NetType
<1>3. \A t \in Tables : caddy'[t] \in seen'[t]
  BY <1>1 DEF IInv, Snapshots, FromTables, SeenGrows
<1>4. CASE p.from = Nobody
  <2>1. call' = call
    BY <1>4 DEF Load, Refuse
  <2>2. Waits'
    BY <1>1, <1>4, <2>1 DEF IInv, Waits, Callers
  <2> QED BY <1>1, <1>2, <1>3, <2>1, <2>2, NetIInv DEF IInv, CallType, OldIsKnown, Snapshots
<1>5. CASE p.from # Nobody
  <2>1. p.from \in Callers /\ call[p.from].step = "wait"
    BY <1>2, <1>5 DEF IInv, Waits
  <2>2. \E s \in {"undo", "applied"} : Goes(p.from, s)
    BY <1>5 DEF Load, Refuse
  <2>3. \A q \in posts' : q \in posts /\ q.from # p.from
    BY <1>1, <1>5 DEF IInv, Waits
  <2>4. \A q \in posts : q.from # p.from => q \in posts'
    BY <1>1
  <2> QED BY <1>1, <1>2, <1>3, <2>1, <2>2, <2>3, <2>4, LeavesIInv
<1> QED BY <1>4, <1>5

LEMMA RestartIInv ==
  ASSUME IInv, CaddyRestarts
  PROVE  IInv'
<1>1. /\ UNCHANGED <<rows, nextId, call, posts>> /\ caddy' = [t \in Tables |-> {}]
      /\ alone' = {} /\ trusted' = {} /\ faults' \in 0..MaxFaults
      /\ seen' = [t \in Tables |-> seen[t] \cup {{}}]
  BY FaultType DEF CaddyRestarts, database, IInv, RestType
<1>2. RestType' /\ NetType'
  BY <1>1 DEF IInv, RestType, NetType, Groups
<1>3. SeenGrows /\ \A t \in Tables : caddy'[t] \in seen'[t]
  BY <1>1 DEF IInv, Snapshots, SeenGrows
<1>4. CallType' /\ Waits'
  BY <1>1 DEF IInv, CallType, Waits
<1> QED BY <1>1, <1>2, <1>3, <1>4, NetIInv DEF IInv, OldIsKnown, Snapshots, database

LEMMA CrashIInv ==
  ASSUME IInv, Crash
  PROVE  IInv'
<1>1. /\ UNCHANGED <<rows, nextId, caddy, seen>>
      /\ alone' = {} /\ trusted' = {} /\ faults' \in 0..MaxFaults
      /\ posts' = {[p EXCEPT !.from = Nobody] : p \in posts}
  BY FaultType DEF Crash, database, IInv, RestType
<1>2. \A d \in Callers : call'[d] \in {call[d], Resting, Done} /\ call'[d].step \in {"idle", "done"}
  BY RestingType DEF Crash, Active
<1>3. CallType'
  BY <1>2, RestingType DEF IInv, CallType, Crash
<1>4. \A p \in posts : [p EXCEPT !.from = Nobody] = [from |-> Nobody, config |-> p.config]
  BY DEF IInv, NetType
<1>5. \A p \in posts' : p.from = Nobody /\ \E q \in posts : p.config = q.config
  BY <1>1, <1>4
<1>6. NetType' /\ RestType'
  BY <1>1, <1>4 DEF IInv, NetType, RestType
<1>7. Waits'
  BY <1>2, <1>5 DEF Waits, Callers
<1>8. \A d \in Callers : Known(call'[d])
  BY <1>2, RestingType DEF IInv, OldIsKnown
<1>9. SeenGrows /\ \A t \in Tables : caddy'[t] \in seen'[t]
  BY <1>1 DEF IInv, Snapshots, SeenGrows, FromTables
<1>10. \A p \in posts' : FromTables(p.config)
  BY <1>5 DEF IInv, Snapshots
<1> QED BY <1>1, <1>2, <1>3, <1>6, <1>7, <1>8, <1>9, <1>10, NetIInv DEF database

-----------------------------------------------------------------------------
(* The theorems                                                             *)

LEMMA InitIInv == Init => IInv
<1> SUFFICES ASSUME Init PROVE IInv
  OBVIOUS
<1>1. TableType
  BY DEF Init, TableType, Rows
<1>2. \A t \in Tables : Enabled(Initial[t]) \subseteq [name : Names, to : Targets]
  BY EnabledType
<1>3. \A c \in Callers : call[c] = Resting
  BY DEF Init
<1>4. CallType /\ OldIsKnown /\ Waits
  BY <1>3, RestingType DEF Init, CallType, OldIsKnown, Waits
<1>5. NetType /\ RestType
  BY <1>2 DEF Init, NetType, RestType, Groups
<1>6. Snapshots
  BY <1>3, RestingType DEF Init, Snapshots, FromTables
<1> QED BY <1>1, <1>4, <1>5, <1>6 DEF IInv

LEMMA StutterIInv ==
  ASSUME IInv, UNCHANGED vars
  PROVE  IInv'
<1>1. UNCHANGED database /\ SeenGrows
  BY DEF vars, database, history, IInv, Snapshots, SeenGrows
<1>2. RestType' /\ CallType' /\ NetType' /\ Waits'
  BY DEF vars, history, IInv, RestType, CallType, NetType, Waits
<1> QED BY <1>1, <1>2, NetIInv
        DEF vars, history, IInv, OldIsKnown, Snapshots, FromTables

LEMMA NextIInv == IInv /\ [Next]_vars => IInv'
<1> SUFFICES ASSUME IInv, [Next]_vars PROVE IInv'
  OBVIOUS
<1>1. CASE BeginSync
  BY <1>1, BeginIInv DEF Callers
<1>2. CASE \E c \in Calls : \E q \in Requests[c], id \in 0..(nextId - 1) : Begin(c, q, id)
  BY <1>2, BeginIInv DEF Callers
<1>3. ASSUME NEW c \in Callers,
             CallStep(c) \/ ReadConfigFails(c) \/ TimesOut(c) \/ DatabaseFails(c)
      PROVE  IInv'
  BY <1>3, ReadIInv, WriteIInv, PostIInv, UndoIInv, EndIInv, TimesOutIInv DEF CallStep
<1>4. CASE CaddyStep \/ \E p \in posts : Refuse(p)
  BY <1>4, ArriveIInv DEF CaddyStep
<1>5. CASE CaddyRestarts \/ Crash
  BY <1>5, RestartIInv, CrashIInv
<1>6. CASE UNCHANGED vars
  BY <1>6, StutterIInv
<1> QED BY <1>1, <1>2, <1>3, <1>4, <1>5, <1>6 DEF Next

LEMMA Invariance == Spec => []IInv
BY InitIInv, NextIInv, PTL DEF Spec

\* Each table is well formed, with no two rows of one id or one name, however rollbacks write
\* over later changes; a call waits exactly while its request is under way.
THEOREM Typing == Spec => []TypeOK
<1>1. IInv => TypeOK
  BY DEF IInv, TypeOK, TableType, CallType, NetType, RestType, Waits
<1> QED BY <1>1, Invariance, PTL

\* For all calls, late requests, rollbacks and restarts: each managed group in Caddy is the
\* set of enabled rows of one moment (apply_routes_batch).
THEOREM OneMoment == Spec => []GroupIsSnapshot
<1>1. IInv => GroupIsSnapshot
  BY DEF IInv, Snapshots, FromTables, GroupIsSnapshot
<1> QED BY <1>1, Invariance, PTL

-----------------------------------------------------------------------------
(* Agreement: the invariant                                                 *)

\* The rows rs of a table when a call r in progress takes its change back.
TakenBack(rs, r, next) ==
  LET old     == r.old
      kind    == r.req.kind
      back(x) == [x EXCEPT !.on = old.on,
                           !.to = IF kind = "toggle" /\ r.req.table = "limits" THEN x.to ELSE old.to]
  IN  CASE kind = "create" -> {x \in rs : x.id # r.id}
        [] kind \in {"update", "toggle"} -> {IF x.id = r.id THEN back(x) ELSE x : x \in rs}
        [] kind = "delete" /\ ~\E x \in rs : x.name = old.name ->
             rs \cup {[id |-> next, name |-> old.name, on |-> old.on, to |-> old.to]}
        [] OTHER -> rs

\* What a call that is alone has read or posted is its table as it is.
Current(c) ==
  LET t == Requested(c).table
  IN  /\ call[c].step = "write" /\ Requested(c).kind # "create"
           => call[c].old \in rows[t] /\ call[c].old.id = call[c].id
      /\ call[c].step \in {"config", "post"} => call[c].set = Enabled(rows[t])
      /\ call[c].step = "wait" => \A p \in posts : p.config[t] = Enabled(rows[t])
      /\ call[c].step = "applied" => caddy[t] = Enabled(rows[t])

\* c may have changed t and has not brought it into Caddy.
Changing(c, t) ==
  Requested(c).table = t /\ call[c].step \in {"rows", "config", "post", "wait", "undo"}

\* Caddy has the table t, or what it will be if c takes its change back.
Kept(c, t) ==
  caddy[t] = Enabled(IF Changing(c, t) THEN TakenBack(rows[t], call[c], nextId) ELSE rows[t])

\* If c is about the other table, it takes the group of t along as it is.
Carried(c, t) ==
  Requested(c).table # t =>
    /\ call[c].step = "post" => call[c].config[t] = caddy[t]
    /\ call[c].step = "wait" => \A p \in posts : p.config[t] = caddy[t]

\* c has been alone since it began.
Lone(c) ==
  /\ alone = {c} /\ \A d \in Callers : Active(d) => d = c
  /\ Active(c) /\ call[c].step # "undo" => \A p \in posts : p.from = c
  /\ trusted # {} => \A p \in posts : p.from # Nobody
  /\ Current(c)
  /\ \A t \in trusted : Kept(c, t) /\ Carried(c, t)

TrustInv ==
  /\ \A c \in alone : Lone(c)
  /\ alone = {} /\ trusted # {} => Quiet /\ \A t \in trusted : caddy[t] = Enabled(rows[t])

-----------------------------------------------------------------------------
(* Agreement: what a rollback gives                                         *)

LEMMA EnabledMap ==
  ASSUME NEW rs, NEW ss,
         \A x \in rs : \E y \in ss : x.on = y.on /\ Compiled(x) = Compiled(y),
         \A y \in ss : \E x \in rs : x.on = y.on /\ Compiled(x) = Compiled(y)
  PROVE  Enabled(rs) = Enabled(ss)
BY DEF Enabled

\* The table after a change of the row id.
Changed(rs, id, on, to) == {IF x.id = id THEN [x EXCEPT !.on = on, !.to = to] ELSE x : x \in rs}

\* The row old of the table has got other columns, a toggled rate limit another state only.
LEMMA BackChange ==
  ASSUME NEW rs \in SUBSET Rows, NEW r, NEW next, NEW on, NEW to,
         r.req.kind \in {"update", "toggle"}, r.old \in rs, r.old.id = r.id,
         \A x, y \in rs : x.id = y.id => x = y,
         r.req.kind = "toggle" /\ r.req.table = "limits" => to = r.old.to
  PROVE  TakenBack(Changed(rs, r.id, on, to), r, next) = rs
<1> DEFINE chg(x) == IF x.id = r.id THEN [x EXCEPT !.on = on, !.to = to] ELSE x
           bk(x) == [x EXCEPT !.on = r.old.on,
                              !.to = IF r.req.kind = "toggle" /\ r.req.table = "limits"
                                       THEN x.to ELSE r.old.to]
           back(x) == IF x.id = r.id THEN bk(x) ELSE x
           ss == {chg(x) : x \in rs}
<1>1. TakenBack(ss, r, next) = {back(x) : x \in ss}
  BY DEF TakenBack
<1>2. ASSUME NEW x \in rs PROVE back(chg(x)) = x
  <2>1. CASE x.id # r.id
    BY <2>1
  <2>2. CASE x.id = r.id
    <3>1. x = r.old /\ x \in Rows
      BY <2>2
    <3>2. chg(x) = [id |-> x.id, name |-> x.name, on |-> on, to |-> to]
      BY <2>2, <3>1 DEF Rows
    <3> HIDE DEF chg
    <3> DEFINE y == chg(x)
    <3>3. y \in [id : {x.id}, name : {x.name}, on : {on}, to : {to}]
      BY <3>2
    <3> HIDE DEF y
    <3>4. (IF r.req.kind = "toggle" /\ r.req.table = "limits" THEN y.to ELSE r.old.to) = x.to
      BY <3>1, <3>3
    <3>5. bk(y) = [y EXCEPT !.on = x.on, !.to = x.to]
      BY <3>1, <3>4
    <3>6. [y EXCEPT !.on = x.on, !.to = x.to] = x
      BY <3>1, <3>3 DEF Rows
    <3>7. back(y) = x
      BY <2>2, <3>3, <3>5, <3>6
    <3> QED BY <3>7 DEF y
  <2> QED BY <2>1, <2>2
<1> HIDE DEF chg, back
<1>3. {back(x) : x \in ss} = rs
  BY <1>2
<1> QED BY <1>1, <1>3 DEF chg, Changed

\* Nothing has been written.
LEMMA BackSame ==
  ASSUME NEW rs \in SUBSET Rows, NEW r, NEW next,
         r.req.kind \in {"update", "toggle"}, r.old \in rs, r.old.id = r.id,
         \A x, y \in rs : x.id = y.id => x = y
  PROVE  TakenBack(rs, r, next) = rs
<1> DEFINE bk(x) == [x EXCEPT !.on = r.old.on,
                              !.to = IF r.req.kind = "toggle" /\ r.req.table = "limits"
                                       THEN x.to ELSE r.old.to]
           back(x) == IF x.id = r.id THEN bk(x) ELSE x
<1>1. TakenBack(rs, r, next) = {back(x) : x \in rs}
  BY DEF TakenBack
<1>2. \A x \in rs : back(x) = x
  BY DEF Rows
<1> HIDE DEF back
<1> QED BY <1>1, <1>2

\* A row that was deleted comes back with a new id.
LEMMA BackDelete ==
  ASSUME NEW rs, NEW r, NEW next,
         r.req.kind = "delete", r.old \in rs, r.old.id = r.id,
         \A x, y \in rs : x # y => x.id # y.id /\ x.name # y.name
  PROVE  Enabled(TakenBack({x \in rs : x.id # r.id}, r, next)) = Enabled(rs)
<1> DEFINE old == r.old
           ss == {x \in rs : x.id # r.id}
           new == [id |-> next, name |-> old.name, on |-> old.on, to |-> old.to]
<1>1. TakenBack(ss, r, next) = ss \cup {new}
  BY DEF TakenBack
<1>2. rs = ss \cup {old}
  OBVIOUS
<1>3. new.on = old.on /\ Compiled(new) = Compiled(old)
  BY DEF Compiled
<1> HIDE DEF new, ss, old
<1>4. Enabled(ss \cup {new}) = Enabled(rs)
  BY <1>2, <1>3, EnabledMap
<1> QED BY <1>1, <1>4 DEF ss

LEMMA BackSync ==
  ASSUME NEW rs, NEW r, NEW next, r.req.kind = "sync"
  PROVE  TakenBack(rs, r, next) = rs
BY DEF TakenBack

\* Undo does what TakenBack says, unless the row is lost.
LEMMA UndoTakesBack ==
  ASSUME IInv, NEW c \in Callers, Undo(c), ~Lost(c)
  PROVE  rows' = [rows EXCEPT ![Requested(c).table]
                    = TakenBack(rows[Requested(c).table], call[c], nextId)]
<1> DEFINE t == Requested(c).table
           kind == Requested(c).kind
           old == call[c].old
           id == call[c].id
           back == TakenBack(rows[t], call[c], nextId)
<1>1. /\ t \in Tables /\ rows \in [Tables -> SUBSET Rows] /\ kind = call[c].req.kind
      /\ \A r, s \in rows[t] : r.id = s.id => r = s
  BY CallFacts DEF TableType, Requested
<1>2. CASE kind = "create"
  BY <1>1, <1>2 DEF Undo, Delete, TakenBack
<1>3. CASE kind = "toggle" /\ t = "limits" /\ HasId(t, id)
  <2>1. rows' = [rows EXCEPT ![t] = {IF r.id = id THEN [r EXCEPT !.on = old.on, !.to = Row(t, id).to]
                                                  ELSE r : r \in rows[t]}]
    BY <1>1, <1>3 DEF Undo, Change
  <2>2. \A r \in rows[t] : r.id = id => r = Row(t, id)
    BY <1>1, <1>3 DEF HasId, Row
  <2>3. back = {IF r.id = id THEN [r EXCEPT !.on = old.on, !.to = r.to] ELSE r : r \in rows[t]}
    BY <1>1, <1>3 DEF TakenBack, Requested
  <2> DEFINE f(r) == IF r.id = id THEN [r EXCEPT !.on = old.on, !.to = r.to] ELSE r
             g(r) == IF r.id = id THEN [r EXCEPT !.on = old.on, !.to = Row(t, id).to] ELSE r
  <2>4. {f(r) : r \in rows[t]} = {g(r) : r \in rows[t]}
    <3>1. \A r \in rows[t] : f(r) = g(r)
      BY <2>2
    <3> HIDE DEF f, g
    <3> QED BY <3>1
  <2> QED BY <2>1, <2>3, <2>4
<1>4. CASE kind = "toggle" /\ t = "limits" /\ ~HasId(t, id)
  <2>1. rows' = [rows EXCEPT ![t] = {IF r.id = id THEN [r EXCEPT !.on = old.on, !.to = old.to]
                                                  ELSE r : r \in rows[t]}]
    BY <1>1, <1>4 DEF Undo, Change
  <2>2. \A r \in rows[t] : r.id # id
    BY <1>4 DEF HasId
  <2>3. back = {IF r.id = id THEN [r EXCEPT !.on = old.on, !.to = r.to] ELSE r : r \in rows[t]}
    BY <1>1, <1>4 DEF TakenBack, Requested
  <2> DEFINE f(r) == IF r.id = id THEN [r EXCEPT !.on = old.on, !.to = r.to] ELSE r
  <2>4. {f(r) : r \in rows[t]} = rows[t]
    <3>1. \A r \in rows[t] : f(r) = r
      BY <2>2
    <3> HIDE DEF f
    <3> QED BY <3>1
  <2>5. {IF r.id = id THEN [r EXCEPT !.on = old.on, !.to = old.to] ELSE r : r \in rows[t]} = rows[t]
    BY <2>2
  <2> QED BY <2>1, <2>3, <2>4, <2>5
<1>5. CASE kind \in {"update", "toggle"} /\ ~(kind = "toggle" /\ t = "limits")
  <2>1. rows' = [rows EXCEPT ![t] = {IF r.id = id THEN [r EXCEPT !.on = old.on, !.to = old.to]
                                                  ELSE r : r \in rows[t]}]
    BY <1>1, <1>5 DEF Undo, Change
  <2> DEFINE to(r) == IF kind = "toggle" /\ t = "limits" THEN r.to ELSE old.to
             f(r) == IF r.id = id THEN [r EXCEPT !.on = old.on, !.to = to(r)] ELSE r
             g(r) == IF r.id = id THEN [r EXCEPT !.on = old.on, !.to = old.to] ELSE r
  <2>2. back = {f(r) : r \in rows[t]}
    BY <1>5 DEF TakenBack, Requested
  <2>3. {f(r) : r \in rows[t]} = {g(r) : r \in rows[t]}
    <3>1. \A r \in rows[t] : to(r) = old.to
      BY <1>5
    <3> HIDE DEF to
    <3>2. \A r \in rows[t] : f(r) = g(r)
      BY <3>1
    <3> HIDE DEF f, g
    <3> QED BY <3>2
  <2> QED BY <2>1, <2>2, <2>3
<1>6. CASE kind = "delete" /\ ~HasName(t, old.name)
  <2>1. MayInsert(t, old.name, old.to)
    BY <1>6 DEF MayInsert, Lost
  <2> QED BY <1>1, <1>6, <2>1 DEF Undo, Insert, TakenBack, HasName
<1>7. CASE kind \notin {"create", "update", "toggle"} /\ ~(kind = "delete" /\ ~HasName(t, old.name))
  <2>1. rows' = rows
    BY <1>7 DEF Undo, MayInsert, database
  <2>2. back = rows[t]
    BY <1>1, <1>7 DEF TakenBack, HasName
  <2> QED BY <1>1, <2>1, <2>2
<1> QED BY <1>2, <1>3, <1>4, <1>5, <1>6, <1>7

-----------------------------------------------------------------------------
(* Agreement: the steps of a call                                           *)

\* A call in progress is alone, or there is nothing to be kept.
LEMMA AloneOrNot ==
  ASSUME TrustInv, NEW c \in Callers, Active(c)
  PROVE  Lone(c) \/ (alone = {} /\ trusted = {})
BY DEF TrustInv, Lone, Quiet

LEMMA NothingToKeep ==
  ASSUME alone' = {}, trusted' = {}
  PROVE  TrustInv'
BY DEF TrustInv

LEMMA LoneIsTrust ==
  ASSUME NEW c, Lone(c)'
  PROVE  TrustInv'
BY DEF TrustInv, Lone

LEMMA NoRequest ==
  ASSUME IInv, NEW c \in Callers, Lone(c), Active(c), call[c].step \notin {"wait", "undo"}
  PROVE  posts = {}
BY DEF Lone, IInv, Waits

\* Only what was asked, the old row and the id matter for a rollback.
LEMMA BackDepends ==
  ASSUME NEW rs, NEW r, NEW s, NEW next, r.req = s.req, r.old = s.old, r.id = s.id
  PROVE  TakenBack(rs, r, next) = TakenBack(rs, s, next)
BY DEF TakenBack

\* c goes on with the state r.
LEMMA LoneGoes ==
  ASSUME IInv, NEW c \in Callers, Lone(c), Active(c), call[c].step \notin {"wait", "undo"},
         NEW r, call' = [call EXCEPT ![c] = r], r.req = call[c].req,
         r.step \in {"write", "rows", "config", "post", "undo"},
         UNCHANGED <<caddy, posts, alone, trusted>>,
         \A t \in Tables : t # r.req.table => rows'[t] = rows[t],
         r.req.table \in trusted =>
           caddy[r.req.table] = Enabled(IF r.step = "write" THEN rows'[r.req.table]
                                        ELSE TakenBack(rows'[r.req.table], r, nextId')),
         r.step = "write" /\ r.req.kind # "create" =>
           r.old \in rows'[r.req.table] /\ r.old.id = r.id,
         r.step \in {"config", "post"} => r.set = Enabled(rows'[r.req.table]),
         r.step = "post" => r.config = caddy
  PROVE  TrustInv'
<1>1. call'[c] = r /\ \A d \in Callers : d # c => call'[d] = call[d]
  BY DEF IInv, CallType
<1>2. posts' = {}
  BY NoRequest
<1>3. \A d \in Callers : Active(d)' => d = c
  BY <1>1 DEF Lone, Active
<1>4. Current(c)'
  BY <1>1 DEF Current, Requested
<1>5. ASSUME NEW t \in trusted PROVE Kept(c, t)' /\ Carried(c, t)'
  <2>0. t \in Tables
    BY CallFacts
  <2>1. CASE t = r.req.table
    <3>1. Changing(c, t)' <=> r.step # "write"
      BY <1>1, <2>1 DEF Changing, Requested
    <3> QED BY <1>1, <2>1, <3>1 DEF Kept, Carried, Requested
  <2>2. CASE t # r.req.table
    <3>1. ~Changing(c, t) /\ ~Changing(c, t)'
      BY <1>1, <2>2 DEF Changing, Requested
    <3>2. Kept(c, t)'
      BY <2>0, <2>2, <3>1 DEF Lone, Kept
    <3>3. Carried(c, t)'
      BY <1>1, <1>2 DEF Carried, Requested
    <3> QED BY <3>2, <3>3
  <2> QED BY <2>1, <2>2
<1>6. Lone(c)'
  BY <1>2, <1>3, <1>4, <1>5 DEF Lone
<1> QED BY <1>6, LoneIsTrust

\* c has ended, and what is trusted agrees.
LEMMA LoneEnds ==
  ASSUME IInv, NEW c \in Callers, Lone(c), Ends(c), call[c].step # "wait",
         UNCHANGED <<caddy, posts, alone>>, trusted' \subseteq trusted \/ posts = {},
         \A t \in trusted' : caddy[t] = Enabled(rows'[t])
  PROVE  TrustInv'
<1>1. call'[c].step \in {"idle", "done"} /\ \A d \in Callers : d # c => call'[d] = call[d]
  BY RestingType DEF IInv, CallType, Ends
<1>2. \A d \in Callers : ~Active(d)'
  BY <1>1 DEF Lone, Active
<1>3. Current(c)' /\ \A t : ~Changing(c, t)' /\ Carried(c, t)'
  BY <1>1 DEF Current, Changing, Carried
<1>4. trusted' # {} => \A p \in posts' : p.from # Nobody
  BY DEF Lone
<1>5. \A t \in trusted' : Kept(c, t)'
  BY <1>3 DEF Kept
<1>6. Lone(c)'
  BY <1>2, <1>3, <1>4, <1>5 DEF Lone
<1> QED BY <1>6, LoneIsTrust

LEMMA BeginTrust ==
  ASSUME IInv, TrustInv, NEW c \in Callers,
         \/ c = Manual /\ BeginSync
         \/ c \in Calls /\ \E q \in Requests[c], id \in 0..(nextId - 1) : Begin(c, q, id)
  PROVE  TrustInv'
<1>1. Joins(c) /\ call[c] = Resting
  BY DEF BeginSync, Begin
<1>2. CASE ~Quiet
  BY <1>1, <1>2, NothingToKeep DEF Joins
<1>3. CASE Quiet
  <2>1. /\ alone' = {c} /\ trusted' = trusted /\ posts' = {} /\ caddy' = caddy /\ rows' = rows
        /\ nextId' = nextId
    BY <1>1, <1>3 DEF Joins, Quiet, database
  <2>2. \A t \in trusted : caddy[t] = Enabled(rows[t])
    <3>1. CASE alone = {}
      BY <3>1 DEF TrustInv
    <3>2. ASSUME NEW d \in alone PROVE \A t \in trusted : caddy[t] = Enabled(rows[t])
      <4>1. d \in Callers /\ ~Active(d) /\ Lone(d)
        BY <1>3 DEF TrustInv, Quiet, IInv, RestType
      <4>2. \A t : ~Changing(d, t)
        BY <4>1 DEF Active, Changing
      <4> QED BY <4>1, <4>2 DEF Lone, Kept
    <3> QED BY <3>1, <3>2
  <2>3. \E r \in CallStates : /\ call' = [call EXCEPT ![c] = r]
                              /\ \/ r.step = "rows" /\ r.req.kind = "sync"
                                 \/ r.step = "write" /\ r.req.kind = "create"
                                 \/ r.step = "read"
    <3>1. CASE c = Manual /\ BeginSync
      <4> DEFINE r == [Resting EXCEPT !.step = "rows"]
      <4>1. r \in CallStates /\ r.step = "rows" /\ r.req.kind = "sync"
        BY RestingType DEF CallStates, Resting, SyncRoutes
      <4>2. call' = [call EXCEPT ![c] = r]
        BY <1>1, <3>1 DEF BeginSync
      <4> HIDE DEF r
      <4> QED BY <4>1, <4>2
    <3>2. ASSUME NEW q \in Requests[c], NEW id \in 0..(nextId - 1), c \in Calls, Begin(c, q, id)
          PROVE  \E r \in CallStates : /\ call' = [call EXCEPT ![c] = r]
                                       /\ \/ r.step = "write" /\ r.req.kind = "create"
                                          \/ r.step = "read"
      <4> DEFINE s == IF q.kind = "create" THEN "write" ELSE "read"
                 r == [Resting EXCEPT !.req = q, !.id = id, !.step = s]
      <4>1. q \in Asked /\ id \in Nat
        BY <3>2 DEF Asked, IInv, TableType
      <4>2. s \in {"write", "read"} /\ (s = "write" => q.kind = "create")
        OBVIOUS
      <4>3. call' = [call EXCEPT ![c] = r]
        BY <3>2 DEF Begin
      <4> HIDE DEF s
      <4>4. r \in CallStates /\ r.step = s /\ r.req = q
        BY <4>1, <4>2, RestingType DEF CallStates, Resting
      <4> HIDE DEF r
      <4> QED BY <4>2, <4>3, <4>4
    <3> QED BY <3>1, <3>2
  <2>4. PICK r \in CallStates : /\ call' = [call EXCEPT ![c] = r]
                                /\ \/ r.step = "rows" /\ r.req.kind = "sync"
                                   \/ r.step = "write" /\ r.req.kind = "create"
                                   \/ r.step = "read"
    BY <2>3
  <2>5. call'[c] = r /\ \A d \in Callers : d # c => call'[d] = call[d]
    BY <2>4 DEF IInv, CallType
  <2>6. \A d \in Callers : Active(d)' => d = c
    BY <1>3, <2>5 DEF Quiet, Active
  <2>7. Current(c)'
    BY <2>4, <2>5 DEF Current, Requested
  <2>8. ASSUME NEW t \in trusted PROVE Kept(c, t)' /\ Carried(c, t)'
    <3>1. Carried(c, t)'
      BY <2>4, <2>5 DEF Carried
    <3>2. Changing(c, t)' => r.req.kind = "sync"
      BY <2>4, <2>5 DEF Changing
    <3>3. r.req.kind = "sync" => TakenBack(rows[t], r, nextId) = rows[t]
      BY BackSync
    <3>4. Kept(c, t)'
      BY <2>1, <2>2, <2>5, <3>2, <3>3 DEF Kept
    <3> QED BY <3>1, <3>4
  <2>9. Lone(c)'
    BY <2>1, <2>6, <2>7, <2>8 DEF Lone
  <2> QED BY <2>9, LoneIsTrust
<1> QED BY <1>2, <1>3

LEMMA ReadTrust ==
  ASSUME IInv, NEW c \in Callers, Lone(c),
         Read(c) \/ ReadRows(c) \/ ReadConfig(c) \/ ReadConfigFails(c)
  PROVE  TrustInv'
<1> DEFINE t == call[c].req.table
<1>1. /\ UNCHANGED <<rows, nextId, caddy, posts, alone, trusted>>
      /\ Active(c) /\ call[c].step \in {"read", "rows", "config"}
  BY DEF Read, ReadRows, ReadConfig, ReadConfigFails, CallOnly, HistoryOnly, database, Active
<1>2. call[c] \in CallStates /\ Requested(c) = call[c].req /\ t \in Tables /\ TableType
  BY CallFacts DEF Requested
<1>3. Kept(c, t) \/ t \notin trusted
  BY DEF Lone
<1>4. CASE Read(c) /\ ~HasId(t, call[c].id)
  <2>1. \A u \in trusted : ~Changing(c, u)
    BY <1>4 DEF Read, Changing
  <2>2. Ends(c)
    BY <1>2, <1>4 DEF Read
  <2> QED BY <1>1, <2>1, <2>2, LoneEnds DEF Lone, Kept
<1>5. CASE Read(c) /\ HasId(t, call[c].id)
  <2> DEFINE old == Row(t, call[c].id)
             r == [call[c] EXCEPT !.step = "write", !.old = old]
  <2>1. old \in rows[t] /\ old.id = call[c].id
    BY <1>5 DEF HasId, Row
  <2>2. call' = [call EXCEPT ![c] = r]
    BY <1>2, <1>5 DEF Read
  <2>3. t \in trusted => caddy[t] = Enabled(rows[t])
    BY <1>3, <1>5 DEF Kept, Changing, Read
  <2> HIDE DEF old
  <2>4. r.step = "write" /\ r.old = old /\ r.id = call[c].id /\ r.req = call[c].req
    BY <1>2 DEF CallStates
  <2> HIDE DEF r
  <2> QED BY <1>1, <2>1, <2>2, <2>3, <2>4, LoneGoes
<1>6. CASE ReadRows(c) \/ ReadConfig(c) \/ ReadConfigFails(c)
  <2>1. t \in trusted => caddy[t] = Enabled(TakenBack(rows[t], call[c], nextId))
    BY <1>2, <1>3, <1>6 DEF Kept, Changing, ReadRows, ReadConfig, ReadConfigFails
  <2>2. SUFFICES ASSUME NEW r, call' = [call EXCEPT ![c] = r], r.req = call[c].req,
                        r.old = call[c].old, r.id = call[c].id, r.step \in {"config", "post", "undo"},
                        r.step \in {"config", "post"} => r.set = Enabled(rows[t]),
                        r.step = "post" => r.config = caddy
                 PROVE  TrustInv'
    <3>1. CASE ReadRows(c)
      <4> DEFINE set == Enabled(rows[t])
                 r == [call[c] EXCEPT !.step = "config", !.set = set]
      <4>1. call' = [call EXCEPT ![c] = r]
        BY <1>2, <3>1 DEF ReadRows
      <4> HIDE DEF set
      <4>2. /\ r.step = "config" /\ r.set = set /\ r.req = call[c].req /\ r.old = call[c].old
            /\ r.id = call[c].id
        BY <1>2 DEF CallStates
      <4> HIDE DEF r
      <4> QED BY <2>2, <4>1, <4>2 DEF set
    <3>2. CASE ReadConfig(c)
      <4> DEFINE r == [call[c] EXCEPT !.step = "post", !.config = caddy]
      <4>1. call' = [call EXCEPT ![c] = r]
        BY <3>2 DEF ReadConfig
      <4>2. /\ r.step = "post" /\ r.set = call[c].set /\ r.req = call[c].req
            /\ r.old = call[c].old /\ r.id = call[c].id /\ r.config = caddy
        BY <1>2 DEF CallStates
      <4>3. call[c].set = Enabled(rows[t])
        BY <1>2, <3>2 DEF ReadConfig, Lone, Current
      <4> HIDE DEF r
      <4> QED BY <2>2, <4>1, <4>2, <4>3
    <3>3. CASE ReadConfigFails(c)
      <4> DEFINE r == [call[c] EXCEPT !.step = "undo"]
      <4>1. call' = [call EXCEPT ![c] = r]
        BY <3>3 DEF ReadConfigFails, Goes
      <4>2. r.step = "undo" /\ r.req = call[c].req /\ r.old = call[c].old /\ r.id = call[c].id
        BY <1>2 DEF CallStates
      <4> HIDE DEF r
      <4> QED BY <2>2, <4>1, <4>2
    <3> QED BY <1>6, <3>1, <3>2, <3>3
  <2>3. TakenBack(rows[t], r, nextId) = TakenBack(rows[t], call[c], nextId)
    BY <2>2, BackDepends
  <2> QED BY <1>1, <2>1, <2>2, <2>3, LoneGoes
<1> QED BY <1>4, <1>5, <1>6

LEMMA WriteTrust ==
  ASSUME IInv, NEW c \in Callers, Lone(c), WriteCreate(c) \/ WriteToggle(c) \/ WriteOther(c)
  PROVE  TrustInv'
<1> DEFINE q == call[c].req
           t == call[c].req.table
           id == call[c].id
           old == call[c].old
<1>1. UNCHANGED <<caddy, posts, alone, trusted>> /\ Active(c) /\ call[c].step = "write"
  BY DEF WriteCreate, WriteToggle, WriteOther, HistoryOnly, Active
<1>2. /\ call[c] \in CallStates /\ Requested(c) = q /\ t \in Tables /\ trusted \subseteq Tables
      /\ nextId \in Nat /\ rows \in [Tables -> SUBSET Rows]
      /\ \A x \in rows[t] : x.id < nextId
      /\ \A x, y \in rows[t] : x # y => x.id # y.id /\ x.name # y.name
  BY CallFacts DEF Requested, TableType
<1>3. \A u \in trusted : caddy[u] = Enabled(rows[u])
  BY <1>1 DEF Lone, Kept, Changing
<1>4. q.kind # "create" => old \in rows[t] /\ old.id = id
  BY <1>1, <1>2 DEF Lone, Current
<1>5. ASSUME Ends(c), UNCHANGED database PROVE TrustInv'
  BY <1>1, <1>3, <1>5, LoneEnds DEF database
<1>6. ASSUME NEW r, call' = [call EXCEPT ![c] = r], r.req = q, r.step = "rows",
             \A u \in Tables : u # t => rows'[u] = rows[u],
             Enabled(TakenBack(rows'[t], r, nextId')) = Enabled(rows[t])
      PROVE  TrustInv'
  BY <1>1, <1>3, <1>6, LoneGoes
<1> DEFINE g == [call[c] EXCEPT !.step = "rows"]
<1>7. g.step = "rows" /\ g.req = q /\ g.old = old /\ g.id = id
  BY <1>2 DEF CallStates
<1>8. Goes(c, "rows") => call' = [call EXCEPT ![c] = g]
  BY DEF Goes
<1> HIDE DEF g
<1>9. ASSUME q.kind \in {"update", "toggle"}, Goes(c, "rows"),
             NEW on, NEW to, Change(t, id, on, to),
             q.kind = "toggle" /\ t = "limits" => to = old.to
      PROVE  TrustInv'
  <2> DEFINE changed == Changed(rows[t], id, on, to)
  <2>1. rows' = [rows EXCEPT ![t] = changed]
    BY <1>9 DEF Change, Changed
  <2>2. changed = Changed(rows[t], g.id, on, to)
    BY <1>7
  <2>3. TakenBack(changed, g, nextId') = rows[t]
    <3>1. rows[t] \in SUBSET Rows /\ \A x, y \in rows[t] : x.id = y.id => x = y
      BY <1>2
    <3>2. /\ g.req.kind \in {"update", "toggle"} /\ g.old \in rows[t] /\ g.old.id = g.id
          /\ g.req.kind = "toggle" /\ g.req.table = "limits" => to = g.old.to
      BY <1>4, <1>7, <1>9
    <3> QED BY <2>2, <3>1, <3>2, BackChange
  <2>4. rows'[t] = changed /\ \A u \in Tables : u # t => rows'[u] = rows[u]
    BY <1>2, <2>1
  <2> QED BY <1>6, <1>7, <1>8, <1>9, <2>3, <2>4
<1>10. CASE WriteCreate(c)
  <2> DEFINE new == [id |-> nextId, name |-> q.name, on |-> q.on, to |-> q.to]
  <2>1. CASE ~MayInsert(t, q.name, q.to)
    BY <1>2, <1>5, <1>10, <2>1 DEF WriteCreate
  <2>2. CASE MayInsert(t, q.name, q.to)
    <3>1. rows' = [rows EXCEPT ![t] = @ \cup {new}]
      BY <1>2, <1>10, <2>2 DEF WriteCreate, Insert
    <3>2. new.id = nextId /\ new.on = q.on
      OBVIOUS
    <3> HIDE DEF new
    <3>3. rows'[t] = rows[t] \cup {new} /\ \A u \in Tables : u # t => rows'[u] = rows[u]
      BY <1>2, <3>1
    <3>4. CASE q.on \/ t = "limits"
      <4> DEFINE r == [call[c] EXCEPT !.step = "rows", !.id = nextId]
      <4>1. call' = [call EXCEPT ![c] = r] /\ q.kind = "create"
        <5>1. /\ Requested(c).on \/ Requested(c).table = "limits"
              /\ MayInsert(Requested(c).table, Requested(c).name, Requested(c).to)
          BY <1>2, <2>2, <3>4
        <5>2. call' = [call EXCEPT ![c].step = "rows", ![c].id = nextId] /\ q.kind = "create"
          BY <1>2, <1>10, <5>1 DEF WriteCreate
        <5> QED BY <5>2
      <4>2. r.step = "rows" /\ r.req = q /\ r.id = nextId
        BY <1>2 DEF CallStates
      <4> HIDE DEF r
      <4>3. \A x \in rows[t] : x.id # nextId
        BY <1>2 DEF Rows
      <4>4. TakenBack(rows'[t], r, nextId') = rows[t]
        <5>1. r.req.kind = "create" /\ new.id = r.id /\ \A x \in rows[t] : x.id # r.id
          BY <3>2, <4>1, <4>2, <4>3
        <5>2. TakenBack(rows'[t], r, nextId') = {x \in rows'[t] : x.id # r.id}
          BY <5>1 DEF TakenBack
        <5> QED BY <3>3, <5>1, <5>2
      <4> QED BY <1>6, <3>3, <4>1, <4>2, <4>4
    <3>5. CASE ~(q.on \/ t = "limits")
      <4>1. Ends(c)
        BY <1>2, <1>10, <2>2, <3>5 DEF WriteCreate
      <4>2. Enabled(rows'[t]) = Enabled(rows[t])
        BY <3>2, <3>3, <3>5 DEF Enabled
      <4>3. \A u \in trusted' : caddy[u] = Enabled(rows'[u])
        BY <1>1, <1>2, <1>3, <3>3, <4>2
      <4> QED BY <1>1, <4>1, <4>3, LoneEnds
    <3> QED BY <3>4, <3>5
  <2> QED BY <2>1, <2>2
<1>11. CASE WriteToggle(c)
  <2>1. CASE t = "routes" /\ old.on = q.on
    <3>1. Goes(c, "rows") /\ UNCHANGED database /\ q.kind = "toggle"
      BY <1>2, <1>11, <2>1 DEF WriteToggle
    <3>2. TakenBack(rows[t], g, nextId) = rows[t]
      BY <1>2, <1>4, <1>7, <3>1, BackSame
    <3> QED BY <1>6, <1>7, <1>8, <3>1, <3>2 DEF database
  <2>2. CASE ~(t = "routes" /\ old.on = q.on) /\ ~HasId(t, id)
    BY <1>2, <1>5, <1>11, <2>2 DEF WriteToggle
  <2>3. CASE ~(t = "routes" /\ old.on = q.on) /\ HasId(t, id)
    <3>1. Goes(c, "rows") /\ Change(t, id, q.on, Row(t, id).to) /\ q.kind = "toggle"
      BY <1>2, <1>11, <2>3 DEF WriteToggle
    <3>2. Row(t, id) = old
      BY <1>2, <1>4, <3>1 DEF Row
    <3> QED BY <1>9, <3>1, <3>2
  <2> QED BY <2>1, <2>2, <2>3
<1>12. CASE WriteOther(c)
  <2>1. CASE ~HasId(t, id)
    BY <1>2, <1>5, <1>12, <2>1 DEF WriteOther
  <2>2. CASE HasId(t, id) /\ q.kind = "update"
    <3>1. Goes(c, "rows") /\ Change(t, id, q.on, q.to)
      BY <1>2, <1>12, <2>2 DEF WriteOther
    <3> QED BY <1>9, <2>2, <3>1
  <2>3. CASE HasId(t, id) /\ q.kind # "update"
    <3>1. Goes(c, "rows") /\ Delete(t, id) /\ q.kind = "delete"
      BY <1>2, <1>12, <2>3 DEF WriteOther
    <3>2. /\ rows'[t] = {x \in rows[t] : x.id # g.id}
          /\ \A u \in Tables : u # t => rows'[u] = rows[u]
      BY <1>2, <1>7, <3>1 DEF Delete
    <3>3. Enabled(TakenBack({x \in rows[t] : x.id # g.id}, g, nextId')) = Enabled(rows[t])
      <4>1. g.req.kind = "delete" /\ g.old \in rows[t] /\ g.old.id = g.id
        BY <1>4, <1>7, <3>1
      <4>2. \A x, y \in rows[t] : x # y => x.id # y.id /\ x.name # y.name
        BY <1>2
      <4> QED BY <4>1, <4>2, BackDelete
    <3> QED BY <1>6, <1>7, <1>8, <3>1, <3>2, <3>3
  <2> QED BY <2>1, <2>2, <2>3
<1> QED BY <1>10, <1>11, <1>12

LEMMA UndoTrust ==
  ASSUME IInv, NEW c \in Callers, Lone(c), Undo(c)
  PROVE  TrustInv'
<1> DEFINE t == Requested(c).table
<1>1. /\ UNCHANGED <<caddy, posts, alone>> /\ Ends(c) /\ call[c].step = "undo"
      /\ trusted' = IF Lost(c) THEN trusted \ {t} ELSE trusted
  BY DEF Undo
<1>2. /\ t \in Tables /\ trusted \subseteq Tables /\ rows \in [Tables -> SUBSET Rows]
      /\ \A u \in Tables : u # t => rows'[u] = rows[u]
  BY CallFacts DEF TableType, Undo, Insert, Change, Delete, database
<1>3. ASSUME NEW u \in trusted' PROVE caddy[u] = Enabled(rows'[u])
  <2>1. Kept(c, u) /\ u \in Tables
    BY <1>1, <1>2 DEF Lone
  <2>2. Changing(c, u) <=> u = t
    BY <1>1 DEF Changing
  <2>3. CASE u = t
    <3>1. ~Lost(c)
      BY <1>1, <2>3
    <3>2. rows' = [rows EXCEPT ![t] = TakenBack(rows[t], call[c], nextId)]
      BY <3>1, UndoTakesBack
    <3> QED BY <1>2, <2>1, <2>2, <2>3, <3>2 DEF Kept
  <2>4. CASE u # t
    BY <1>2, <2>1, <2>2, <2>4 DEF Kept
  <2> QED BY <2>3, <2>4
<1> QED BY <1>1, <1>3, LoneEnds

LEMMA DatabaseFailsTrust ==
  ASSUME IInv, NEW c \in Callers, Lone(c), DatabaseFails(c)
  PROVE  TrustInv'
<1>1. /\ UNCHANGED <<rows, caddy, posts, alone>> /\ Ends(c)
      /\ call[c].step \in {"read", "write", "rows", "undo"} /\ trusted' \subseteq trusted
      /\ call[c].step \in {"rows", "undo"} => Requested(c).table \notin trusted'
  BY DEF DatabaseFails, database
<1>2. \A u \in trusted' : Kept(c, u) /\ ~Changing(c, u)
  BY <1>1 DEF Lone, Changing
<1> QED BY <1>1, <1>2, LoneEnds DEF Kept

LEMMA SucceedTrust ==
  ASSUME IInv, NEW c \in Callers, Lone(c), Succeed(c)
  PROVE  TrustInv'
<1>1. /\ UNCHANGED <<rows, caddy, posts, alone>> /\ Ends(c) /\ call[c].step = "applied" /\ Active(c)
      /\ trusted' \subseteq trusted \cup {Requested(c).table}
  BY DEF Succeed, database, Active
<1>2. posts = {}
  BY <1>1, NoRequest
<1>3. caddy[Requested(c).table] = Enabled(rows[Requested(c).table])
  BY <1>1 DEF Lone, Current
<1>4. \A u \in trusted : caddy[u] = Enabled(rows[u])
  BY <1>1 DEF Lone, Kept, Changing
<1> QED BY <1>1, <1>2, <1>3, <1>4, LoneEnds

LEMMA TimesOutTrust ==
  ASSUME IInv, NEW c \in Callers, Lone(c), TimesOut(c)
  PROVE  TrustInv'
<1>1. call'[c].step = "undo" /\ (\A d \in Callers : d # c => call'[d] = call[d])
      /\ trusted' = {} /\ alone' = alone
  BY CallFacts DEF TimesOut, Goes, IInv, CallType, CallStates
<1>2. \A d \in Callers : Active(d)' => d = c
  BY <1>1 DEF Lone, Active
<1>3. Lone(c)'
  BY <1>1, <1>2 DEF Lone, Current
<1> QED BY <1>3, LoneIsTrust

LEMMA PostTrust ==
  ASSUME IInv, NEW c \in Callers, Lone(c), Post(c)
  PROVE  TrustInv'
<1> DEFINE t == call[c].req.table
           r == [call[c] EXCEPT !.step = "wait", !.set = {}, !.config = Resting.config]
           config == Merged(call[c].config, t, call[c].set)
<1>1. UNCHANGED <<rows, nextId, caddy, alone, trusted>> /\ Active(c) /\ call[c].step = "post"
  BY DEF Post, HistoryOnly, database, Active
<1>2. call[c] \in CallStates /\ Requested(c) = call[c].req /\ t \in Tables /\ trusted \subseteq Tables
      /\ c # Nobody
  BY CallFacts DEF Requested, Callers
<1>3. call' = [call EXCEPT ![c] = r]
  BY DEF Post
<1>4. posts' = {[from |-> c, config |-> config]}
  BY <1>1, <1>2, NoRequest DEF Post
<1>5. r.step = "wait" /\ r.req = call[c].req /\ r.old = call[c].old /\ r.id = call[c].id
  BY <1>2 DEF CallStates
<1>6. config[t] = Enabled(rows[t]) /\ \A u \in trusted : u # t => config[u] = caddy[u]
  BY <1>1, <1>2 DEF Merged, Lone, Current, Carried, CallStates, Groups
<1> HIDE DEF r, config
<1>7. call'[c] = r /\ \A d \in Callers : d # c => call'[d] = call[d]
  BY <1>3 DEF IInv, CallType
<1>8. \A p \in posts' : p.from = c /\ p.config = config
  BY <1>4
<1>9. \A d \in Callers : Active(d)' => d = c
  BY <1>7 DEF Lone, Active
<1>10. Current(c)'
  BY <1>1, <1>5, <1>6, <1>7, <1>8 DEF Current, Requested
<1>11. ASSUME NEW u \in trusted PROVE Kept(c, u)' /\ Carried(c, u)'
  <2>1. Changing(c, u)' <=> Changing(c, u)
    BY <1>1, <1>5, <1>7 DEF Changing, Requested
  <2>2. TakenBack(rows[u], r, nextId) = TakenBack(rows[u], call[c], nextId)
    BY <1>5, BackDepends
  <2>3. Kept(c, u)'
    BY <1>1, <1>7, <2>1, <2>2 DEF Lone, Kept
  <2>4. Carried(c, u)'
    BY <1>1, <1>5, <1>6, <1>7, <1>8 DEF Carried, Requested
  <2> QED BY <2>3, <2>4
<1>12. Lone(c)'
  BY <1>1, <1>2, <1>8, <1>9, <1>10, <1>11 DEF Lone
<1> QED BY <1>12, LoneIsTrust

-----------------------------------------------------------------------------
(* Agreement: Caddy                                                         *)

\* A request that comes late.
LEMMA LateTrust ==
  ASSUME IInv, TrustInv, NEW p \in posts, p.from = Nobody, Load(p)
  PROVE  TrustInv'
<1>1. UNCHANGED <<rows, call, alone, trusted>> /\ posts' \subseteq posts
  BY DEF Load, HistoryOnly, database
<1>2. CASE alone = {}
  <2>1. trusted = {}
    BY <1>2 DEF TrustInv, Quiet
  <2> QED BY <1>1, <1>2, <2>1, NothingToKeep
<1>3. ASSUME NEW d \in alone PROVE TrustInv'
  <2>1. Lone(d) /\ d \in Callers /\ d # Nobody
    BY DEF TrustInv, IInv, RestType, Callers
  <2>2. trusted = {} /\ call[d].step \in {"idle", "done", "undo"}
    BY <2>1 DEF Lone, Active
  <2>3. Lone(d)'
    BY <1>1, <2>1, <2>2 DEF Lone, Active, Current
  <2> QED BY <2>3, LoneIsTrust
<1> QED BY <1>2, <1>3

LEMMA AnswerTrust ==
  ASSUME IInv, TrustInv, NEW p \in posts, p.from # Nobody, Load(p) \/ Refuse(p)
  PROVE  TrustInv'
<1> DEFINE c == p.from
           t == call[c].req.table
<1>1. c \in Callers /\ call[c].step = "wait" /\ Active(c)
  BY DEF IInv, NetType, Waits, Active
<1>2. UNCHANGED <<rows, nextId, alone, trusted>> /\ posts' = posts \ {p}
  BY DEF Load, Refuse, HistoryOnly, database
<1>3. CASE alone = {} /\ trusted = {}
  BY <1>2, <1>3, NothingToKeep
<1>4. CASE Lone(c)
  <2>1. \A d \in posts' : d \in posts /\ d.from # Nobody
    BY <1>1, <1>2, <1>4 DEF Lone, Callers
  <2>2. posts' = {}
    BY <1>1, <1>2, <1>4 DEF Lone, IInv, Waits
  <2>3. call[c] \in CallStates /\ Requested(c) = call[c].req /\ t \in Tables
        /\ trusted \subseteq Tables
    BY <1>1, CallFacts DEF Requested
  <2>4. p.config[t] = Enabled(rows[t]) /\ \A u \in trusted : u # t => p.config[u] = caddy[u]
    BY <1>1, <1>4, <2>3 DEF Lone, Current, Carried
  <2>5. ASSUME NEW s \in {"undo", "applied"}, Goes(c, s),
               s = "undo" => caddy' = caddy, s = "applied" => caddy' = p.config
        PROVE  TrustInv'
    <3> DEFINE r == [call[c] EXCEPT !.step = s]
    <3>1. r.step = s /\ r.req = call[c].req /\ r.old = call[c].old /\ r.id = call[c].id
      BY <2>3 DEF CallStates
    <3>2. call' = [call EXCEPT ![c] = r]
      BY <2>5 DEF Goes
    <3> HIDE DEF r
    <3>3. call'[c] = r /\ \A d \in Callers : d # c => call'[d] = call[d]
      BY <1>1, <3>2 DEF IInv, CallType
    <3>4. \A d \in Callers : Active(d)' => d = c
      BY <1>4, <3>3 DEF Lone, Active
    <3>5. Current(c)'
      BY <1>2, <2>4, <2>5, <3>1, <3>3 DEF Current, Requested
    <3>6. ASSUME NEW u \in trusted PROVE Kept(c, u)' /\ Carried(c, u)'
      <4>1. Carried(c, u)'
        BY <3>1, <3>3 DEF Carried
      <4>2. TakenBack(rows[u], r, nextId) = TakenBack(rows[u], call[c], nextId)
        BY <3>1, BackDepends
      <4>3. Changing(c, u) <=> u = t
        BY <1>1, <2>3 DEF Changing
      <4>4. Changing(c, u)' <=> u = t /\ s = "undo"
        BY <3>1, <3>3 DEF Changing, Requested
      <4>5. Kept(c, u)
        BY <1>4 DEF Lone
      <4>6. caddy[u] = Enabled(IF u = t THEN TakenBack(rows[u], call[c], nextId) ELSE rows[u])
        BY <4>3, <4>5 DEF Kept
      <4>7. caddy'[u] = Enabled(IF u = t /\ s = "undo" THEN TakenBack(rows[u], r, nextId)
                                                      ELSE rows[u])
        <5>1. CASE s = "undo"
          BY <2>5, <4>2, <4>6, <5>1
        <5>2. CASE s = "applied" /\ u = t
          BY <2>4, <2>5, <5>2
        <5>3. CASE s = "applied" /\ u # t
          BY <2>4, <2>5, <4>6, <5>3
        <5> QED BY <5>1, <5>2, <5>3
      <4>8. Kept(c, u)'
        BY <1>2, <3>3, <4>4, <4>7 DEF Kept
      <4> QED BY <4>1, <4>8
    <3>7. Lone(c)'
      BY <1>2, <1>4, <2>2, <3>4, <3>5, <3>6 DEF Lone
    <3> QED BY <3>7, LoneIsTrust
  <2> QED BY <2>5 DEF Load, Refuse
<1> QED BY <1>1, <1>3, <1>4, AloneOrNot

LEMMA InitTrust == Init => TrustInv
<1> SUFFICES ASSUME Init PROVE TrustInv
  OBVIOUS
<1>1. \A c \in Callers : ~Active(c)
  BY RestingType DEF Init, Active
<1> QED BY <1>1 DEF Init, TrustInv, Quiet

LEMMA StutterTrust ==
  ASSUME TrustInv, UNCHANGED vars
  PROVE  TrustInv'
<1>1. UNCHANGED <<rows, nextId, caddy, call, posts, alone, trusted>>
  BY DEF vars, database, history
<1>2. \A c : Lone(c) => Lone(c)'
  BY <1>1 DEF Lone, Current, Kept, Carried, Changing, Active, Requested
<1> QED BY <1>1, <1>2 DEF TrustInv, Quiet, Active

LEMMA NextTrust == IInv /\ TrustInv /\ [Next]_vars => TrustInv'
<1> SUFFICES ASSUME IInv, TrustInv, [Next]_vars PROVE TrustInv'
  OBVIOUS
<1>1. CASE BeginSync
  BY <1>1, BeginTrust DEF Callers
<1>2. CASE \E c \in Calls : \E q \in Requests[c], id \in 0..(nextId - 1) : Begin(c, q, id)
  BY <1>2, BeginTrust DEF Callers
<1>3. ASSUME NEW c \in Callers,
             CallStep(c) \/ ReadConfigFails(c) \/ TimesOut(c) \/ DatabaseFails(c)
      PROVE  TrustInv'
  <2>1. Active(c)
    BY <1>3 DEF CallStep, Read, WriteCreate, WriteToggle, WriteOther, ReadRows, ReadConfig, Post,
                Undo, Succeed, ReadConfigFails, TimesOut, DatabaseFails, Active
  <2>2. CASE Lone(c)
    BY <1>3, <2>2, ReadTrust, WriteTrust, PostTrust, UndoTrust, SucceedTrust, TimesOutTrust,
       DatabaseFailsTrust DEF CallStep
  <2>3. CASE alone = {} /\ trusted = {}
    <3>1. alone' = {} /\ trusted' = {}
      BY <1>3, <2>3
         DEF CallStep, Read, WriteCreate, WriteToggle, WriteOther, ReadRows, ReadConfig, Post, Undo,
             Succeed, ReadConfigFails, TimesOut, DatabaseFails, CallOnly, HistoryOnly, Undisturbed
    <3> QED BY <3>1, NothingToKeep
  <2> QED BY <2>1, <2>2, <2>3, AloneOrNot
<1>4. CASE CaddyStep \/ \E p \in posts : Refuse(p)
  BY <1>4, LateTrust, AnswerTrust DEF CaddyStep, Refuse
<1>5. CASE CaddyRestarts \/ Crash
  BY <1>5, NothingToKeep DEF CaddyRestarts, Crash
<1>6. CASE UNCHANGED vars
  BY <1>6, StutterTrust
<1> QED BY <1>1, <1>2, <1>3, <1>4, <1>5, <1>6 DEF Next

\* A call that nothing has come between leaves its table and Caddy in agreement, whether it
\* succeeded or was rolled back, and the other table as it was.  This lasts until calls
\* overlap, an answer is lost, something restarts, or the change of a row stays although
\* Caddy has not got it: the database raises, or a deleted row is one that the validation
\* of new rows refuses (create_route_and_sync and the others).
THEOREM Agreement == Spec => []Agree
<1>1. IInv /\ TrustInv => Agree
  <2> SUFFICES ASSUME IInv, TrustInv, Quiet, NEW t \in trusted PROVE caddy[t] = Enabled(rows[t])
    BY DEF Agree
  <2>1. CASE alone = {}
    BY <2>1 DEF TrustInv
  <2>2. ASSUME NEW c \in alone PROVE caddy[t] = Enabled(rows[t])
    <3>1. Lone(c) /\ c \in Callers /\ ~Active(c)
      BY DEF TrustInv, Quiet, IInv, RestType
    <3>2. ~Changing(c, t)
      BY <3>1 DEF Active, Changing
    <3> QED BY <3>1, <3>2 DEF Lone, Kept
  <2> QED BY <2>1, <2>2
<1>2. Spec => [](IInv /\ TrustInv)
  BY Invariance, InitTrust, NextTrust, PTL DEF Spec
<1> QED BY <1>1, <1>2, PTL
=============================================================================
