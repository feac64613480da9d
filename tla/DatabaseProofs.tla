--------------------------- MODULE DatabaseProofs ---------------------------
(***************************************************************************)
(* For any number of contexts, client_ids and tokens, and any bound on the *)
(* clock: db.py leaves no lock behind, keeps its timestamps in order, and  *)
(* implements the atomic table of TokensTable.                             *)
(***************************************************************************)
EXTENDS Database, Integers, TLAPS

\* The lock belongs to the one writer that is between its statement and its
\* commit, on a connection of its own, and the table that it writes exists.
Locking ==
  /\ \A c \in Contexts :
       /\ pc[c] \in {"commit", "rollback"} <=> lock = c
       /\ pc[c] \in {"commit", "rollback"} =>
            op[c].kind \in Writes /\ connected[c]
       /\ pc[c] = "execute" /\ op[c].kind # "count" => connected[c]
       /\ pc[c] = "commit" /\ op[c].kind \in {"insert", "update"} => table
       /\ pc[c] = "commit" /\ op[c].kind = "insert" => rows[op[c].id] = NoRow
  /\ ~table => \A i \in Ids : rows[i] = NoRow

\* A context inside an operation has one, and a fresh one has found nothing.
Calling ==
  \A c \in Contexts :
    /\ pc[c] \in Inside \cup {"returned"} => op[c] \in Table!Calls
    /\ pc[c] \in {"idle", "begun"} => op[c] = NoOp /\ found[c] = NoRow

\* The row of a pending update exists and is no younger than its timestamp,
\* because it was looked up first and rows are never deleted.
Timing ==
  /\ TimestampsInOrder
  /\ \A c \in Contexts :
       /\ op[c].kind \in {"insert", "update"} => op[c].now * Fraction <= clock
       /\ op[c].kind = "lookup" /\ found[c] # NoRow => rows[op[c].id] # NoRow
       /\ op[c].kind = "update" =>
            rows[op[c].id] # NoRow /\ rows[op[c].id].created <= op[c].now

Inv == TypeOK /\ Locking /\ Calling /\ Timing

-----------------------------------------------------------------------------
\* Truncation to whole seconds: never later than the clock, and no earlier
\* than any whole second that has passed (db.py:176-177).
LEMMA Truncation ==
  ASSUME NEW t \in 0..MaxClock
  PROVE  /\ _prepare_timestamp(t) \in Nat
         /\ _prepare_timestamp(t) * Fraction <= t
         /\ \A k \in Nat : k * Fraction <= t => k <= _prepare_timestamp(t)
  <1> DEFINE q == t \div Fraction
             r == t % Fraction
  <1>1. t \in Nat /\ Fraction \in Nat /\ Fraction > 0
    BY DatabaseAssumption
  <1>2. q \in Nat /\ r \in 0..(Fraction - 1) /\ t = Fraction * q + r
    BY <1>1, SMTT(30)
  <1>3. q * Fraction <= t
    BY <1>1, <1>2, SMTT(30)
  <1>4. ASSUME NEW k \in Nat, k * Fraction <= t
        PROVE  k <= q
    <2>1. SUFFICES ASSUME k >= q + 1 PROVE FALSE
      BY <1>2, SMTT(30)
    <2>2. k * Fraction >= (q + 1) * Fraction
      BY <1>1, <1>2, <2>1, SMTT(30)
    <2>3. (q + 1) * Fraction = q * Fraction + Fraction
      BY <1>1, <1>2, SMTT(30)
    <2> QED BY <1>1, <1>2, <1>4, <2>2, <2>3, SMTT(30)
  <1> QED BY <1>2, <1>3, <1>4 DEF _prepare_timestamp

\* A number of whole seconds that has passed is within the bound of the clock.
LEMMA SecondsInRange ==
  ASSUME NEW k \in Nat, NEW t \in 0..MaxClock, k * Fraction <= t
  PROVE  k \in 0..MaxClock
  <1>1. Fraction \in Nat /\ Fraction >= 1 /\ MaxClock \in Nat
    BY DatabaseAssumption
  <1>2. k * Fraction >= k
    BY <1>1, SMTT(30)
  <1>3. k * Fraction \in Nat
    BY <1>1, SMTT(30)
  <1> QED BY <1>1, <1>2, <1>3

-----------------------------------------------------------------------------
\* What insert() and update() write is a row (db.py:190-206, 238-247).
LEMMA EffectIsTable ==
  ASSUME NEW o \in Table!Calls, NEW r \in [Ids -> Row \cup {NoRow}],
         o.kind \in {"insert", "update"} => o.now \in 0..MaxClock
  PROVE  Table!Effect(o, r) \in [Ids -> Row \cup {NoRow}]
  <1>1. CASE o.kind = "insert"
    BY <1>1 DEF Table!Effect, Table!NewRow, Table!Calls, Row
  <1>2. CASE o.kind = "update" /\ r[o.id] # NoRow
    BY <1>2 DEF Table!Effect, Table!UpdatedRow, Table!Calls, Row
  <1>3. CASE ~(o.kind = "insert") /\ ~(o.kind = "update" /\ r[o.id] # NoRow)
    BY <1>3 DEF Table!Effect
  <1> QED BY <1>1, <1>2, <1>3

\* A row can be told from its absence.
LEMMA RowIsThere == NoRow \notin Row
  BY DatabaseAssumption DEF Row

\* A new database and no context satisfy the invariant.
LEMMA InitInv == Init => Inv
  <1> SUFFICES ASSUME Init PROVE Inv
    OBVIOUS
  <1> USE DatabaseAssumption DEF Init
  <1>1. TypeOK
    <2>1. handler \in [Contexts -> Handlers \cup {"none"}]
      OBVIOUS
    <2>2. op \in [Contexts -> Table!Calls \cup {NoOp}]
      OBVIOUS
    <2>3. clock \in 0..MaxClock
      OBVIOUS
    <2>4. counts \in [Contexts -> [present : SUBSET Ids, revoked : SUBSET Ids]]
      BY DEF Table!NoCounts
    <2> QED BY <2>1, <2>2, <2>3, <2>4 DEF TypeOK
  <1>2. Locking
    BY DEF Locking, NoOp
  <1>3. Calling
    BY DEF Calling, Inside
  <1>4. Timing
    BY DEF Timing, TimestampsInOrder, NoOp
  <1> QED BY <1>1, <1>2, <1>3, <1>4 DEF Inv

\* The other operations have no timestamp (db.py:51-55, 114-116, 212-221, 261-281).
LEMMA SimpleCalls ==
  ASSUME NEW c \in Contexts, Lookup(c) \/ Operate(c)
  PROVE  \E o \in Table!Calls :
           Call(c, o) /\ o.kind \in {"lookup", "count", "initdb", "vacuum"}
  <1>1. CASE Lookup(c)
    BY <1>1 DEF Lookup, Table!Calls
  <1>2. CASE Operate(c)
    <2>1. \A k \in {"count", "initdb", "vacuum"} :
            [kind |-> k] \in Table!Calls /\ [kind |-> k].kind = k
      BY DEF Table!Calls
    <2> QED BY <1>2, <2>1 DEF Operate
  <1> QED BY <1>1, <1>2

\* A writer writes the time of its call, and updates only a row it has found.
LEMMA WriteCalls ==
  ASSUME Inv, NEW c \in Contexts, Insert(c) \/ Update(c)
  PROVE  \E o \in Table!Calls :
           /\ Call(c, o)
           /\ o.kind \in {"insert", "update"}
           /\ o.now = _prepare_timestamp(clock)
           /\ o.kind = "update" => rows[o.id] # NoRow
  <1> DEFINE now == _prepare_timestamp(clock)
  <1>1. now \in Nat
    BY Truncation DEF Inv, TypeOK
  <1> HIDE DEF now
  <1>2. CASE Insert(c)
    BY <1>1, <1>2 DEF Insert, Write, Table!Calls, now
  <1>3. CASE Update(c)
    <2>1. PICK t \in Tokens \cup {Null} : Call(c, Write("update", op[c].id, t))
      BY <1>3 DEF Update
    <2>2. op[c].kind = "lookup" /\ op[c].id \in Ids /\ rows[op[c].id] # NoRow
      BY <1>3 DEF Update, Inv, Calling, Timing, Table!Calls
    <2>3. Write("update", op[c].id, t) \in Table!Calls
      BY <1>1, <2>2 DEF Write, Table!Calls, now
    <2> QED BY <2>1, <2>2, <2>3 DEF Write, now
  <1> QED BY <1>2, <1>3

\* The counts are of ids of the table, whatever the rows are (db.py:262-281).
LEMMA CountsType ==
  ASSUME NEW r
  PROVE  Table!Counts(r) \in [present : SUBSET Ids, revoked : SUBSET Ids]
  BY DEF Table!Counts

\* Every action preserves the invariant.
LEMMA NextInv == Inv /\ [Next]_vars => Inv'
  <1> SUFFICES ASSUME Inv, [Next]_vars PROVE Inv'
    OBVIOUS
  <1> USE DatabaseAssumption
  <1>1. ASSUME NEW c \in Contexts, Begin(c) PROVE Inv'
    BY <1>1 DEF Begin, Goto, store, results, Handlers, Inside, Inv, TypeOK, Locking,
                Calling, Timing, TimestampsInOrder
  <1>2. ASSUME NEW c \in Contexts, Lookup(c) \/ Operate(c) PROVE Inv'
    <2>1. PICK o \in Table!Calls :
            /\ Call(c, o)
            /\ o.kind \in {"lookup", "count", "initdb", "vacuum"}
      BY <1>2, SimpleCalls
    <2>2. pc[c] = "begun"
      BY <1>2 DEF Lookup, Operate
    <2> USE <2>1, <2>2 DEF Call, Goto, store, results
    <2>3. TypeOK'
      BY DEF Inv, TypeOK
    <2>4. Locking'
      BY DEF Inv, TypeOK, Locking
    <2>5. Calling'
      BY DEF Inv, TypeOK, Calling, Inside
    <2>6. Timing'
      BY DEF Inv, TypeOK, Calling, Timing, TimestampsInOrder
    <2> QED BY <2>3, <2>4, <2>5, <2>6 DEF Inv
  <1>3. ASSUME NEW c \in Contexts, Insert(c) \/ Update(c) PROVE Inv'
    <2> DEFINE now == _prepare_timestamp(clock)
    <2>1. /\ now \in Nat
          /\ now * Fraction <= clock
          /\ \A k \in Nat : k * Fraction <= clock => k <= now
      BY Truncation DEF Inv, TypeOK
    <2>2. PICK o \in Table!Calls :
            /\ Call(c, o)
            /\ o.kind \in {"insert", "update"}
            /\ o.now = now
            /\ o.kind = "update" => rows[o.id] # NoRow
      BY <1>3, WriteCalls
    <2> HIDE DEF now
    <2>3. pc[c] \in {"begun", "returned"}
      BY <1>3 DEF Insert, Update
    <2> USE <2>2, <2>3 DEF Call, Goto, store, results
    <2>4. TypeOK'
      BY DEF Inv, TypeOK
    <2>5. Locking'
      BY DEF Inv, TypeOK, Locking
    <2>6. Calling'
      BY DEF Inv, TypeOK, Calling, Inside
    <2>7. o.kind = "update" => rows[o.id].created <= now
      <3>1. o.kind = "update" => o.id \in Ids /\ rows[o.id] \in Row
        BY DEF Inv, TypeOK, Table!Calls
      <3>2. o.kind = "update" =>
              rows[o.id].created \in Nat /\ rows[o.id].created * Fraction <= clock
        BY <3>1 DEF Inv, Timing, TimestampsInOrder, Row
      <3> QED BY <2>1, <3>2
    <2>8. Timing'
      BY <2>1, <2>7 DEF Inv, TypeOK, Timing, TimestampsInOrder
    <2> QED BY <2>4, <2>5, <2>6, <2>8 DEF Inv
  <1>4. ASSUME NEW c \in Contexts, Get(c) PROVE Inv'
    <2> USE <1>4 DEF Get, Goto, store, results
    <2>1. TypeOK'
      BY DEF Inv, TypeOK
    <2>2. /\ connected'[c] = (op[c].kind # "count")
          /\ \A d \in Contexts \ {c} : connected'[d] = connected[d]
      BY DEF Inv, TypeOK
    <2>3. /\ pc'[c] = "execute" /\ lock # c
          /\ \A d \in Contexts \ {c} : pc'[d] = pc[d]
      BY DEF Inv, TypeOK, Locking
    <2>4. Locking'
      BY <2>2, <2>3 DEF Inv, Locking
    <2>5. Calling'
      BY DEF Inv, TypeOK, Calling, Inside
    <2>6. Timing'
      BY DEF Inv, Timing, TimestampsInOrder
    <2> QED BY <2>1, <2>4, <2>5, <2>6 DEF Inv
  <1>5. ASSUME NEW c \in Contexts, ConnectFails(c) \/ StatementFails(c) \/ NoSuchTable(c) \/ Busy(c)
        PROVE  Inv'
    <2> USE <1>5 DEF ConnectFails, StatementFails, NoSuchTable, Busy, Goto, store, results
    <2>1. TypeOK'
      BY DEF Inv, TypeOK
    <2>2. Locking'
      BY DEF Inv, TypeOK, Locking
    <2>3. Calling'
      BY DEF Inv, TypeOK, Calling, Inside
    <2>4. Timing'
      BY DEF Inv, Timing, TimestampsInOrder
    <2> QED BY <2>1, <2>2, <2>3, <2>4 DEF Inv
  <1>6. ASSUME NEW c \in Contexts, Execute(c) PROVE Inv'
    BY <1>6 DEF Execute, Conflict, Goto, store, results, Writes, Inside, Inv, TypeOK,
                Locking, Calling, Timing, TimestampsInOrder
  <1>7. ASSUME NEW c \in Contexts, Rollback(c) \/ CommitFails(c) PROVE Inv'
    <2> USE <1>7 DEF Rollback, CommitFails, Goto, results
    <2>1. TypeOK'
      BY DEF Inv, TypeOK
    <2>2. Locking'
      BY DEF Inv, TypeOK, Locking
    <2>3. Calling'
      BY DEF Inv, TypeOK, Calling, Inside
    <2>4. Timing'
      BY DEF Inv, Timing, TimestampsInOrder
    <2> QED BY <2>1, <2>2, <2>3, <2>4 DEF Inv
  <1>8. ASSUME NEW c \in Contexts, Read(c) PROVE Inv'
    <2> USE <1>8 DEF Read, Goto, store
    <2>1. TypeOK'
      <3>1. Table!Counts(rows) \in [present : SUBSET Ids, revoked : SUBSET Ids]
        BY CountsType
      <3>2. Table!NoCounts \in [present : SUBSET Ids, revoked : SUBSET Ids]
        BY DEF Table!NoCounts
      <3>3. found' \in [Contexts -> Row \cup {NoRow}]
        BY DEF Inv, TypeOK, Calling, Inside, Table!Calls
      <3>4. counts' \in [Contexts -> [present : SUBSET Ids, revoked : SUBSET Ids]]
        BY <3>1, <3>2 DEF Inv, TypeOK
      <3> QED BY <3>3, <3>4 DEF Inv, TypeOK
    <2>2. Locking'
      BY DEF Inv, TypeOK, Locking
    <2>3. Calling'
      BY DEF Inv, TypeOK, Calling, Inside
    <2>4. Timing'
      BY DEF Inv, TypeOK, Timing, TimestampsInOrder
    <2> QED BY <2>1, <2>2, <2>3, <2>4 DEF Inv
  <1>9. ASSUME NEW c \in Contexts, Commit(c) PROVE Inv'
    <2> DEFINE o == op[c]
    <2>1. o \in Table!Calls /\ o.kind \in Writes /\ pc[c] = "commit" /\ lock = c
      BY <1>9 DEF Commit, Inv, Locking, Calling, Inside
    <2>2. o.kind \in {"insert", "update"} => o.id \in Ids /\ o.now \in Nat /\ o.now * Fraction <= clock
      BY <2>1 DEF Inv, Timing, Table!Calls
    <2>3. o.kind \in {"insert", "update"} => o.now \in 0..MaxClock
      BY <2>2, SecondsInRange DEF Inv, TypeOK
    <2>4. rows' = Table!Effect(o, rows) /\ rows' \in [Ids -> Row \cup {NoRow}]
      BY <1>9, <2>1, <2>3, EffectIsTable DEF Commit, Inv, TypeOK
    <2>5. \/ /\ o.kind = "insert" /\ o.id \in Ids /\ rows[o.id] = NoRow
             /\ rows' = [rows EXCEPT ![o.id] = Table!NewRow(o)]
          \/ /\ o.kind = "update" /\ o.id \in Ids /\ rows[o.id] # NoRow
             /\ rows' = [rows EXCEPT ![o.id] = Table!UpdatedRow(o, rows[o.id])]
          \/ o.kind \notin {"insert", "update"} /\ rows' = rows
      BY <2>1, <2>2, <2>4 DEF Table!Effect, Inv, Locking, Timing
    <2>6. \A i \in Ids : rows[i] # NoRow =>
            rows'[i] # NoRow /\ rows'[i].created = rows[i].created
      <3>1. CASE o.kind = "update"
        <4>1. Table!UpdatedRow(o, rows[o.id]) \in Row
          BY <2>1, <2>3, <2>5, <3>1 DEF Table!UpdatedRow, Table!Calls, Inv, TypeOK, Row
        <4>2. Table!UpdatedRow(o, rows[o.id]).created = rows[o.id].created
          BY DEF Table!UpdatedRow
        <4> QED BY <2>5, <3>1, <4>1, <4>2, RowIsThere DEF Inv, TypeOK
      <3>2. CASE o.kind # "update"
        BY <2>5, <3>2 DEF Inv, TypeOK
      <3> QED BY <3>1, <3>2
    <2>7. \A i \in Ids : rows'[i] # NoRow =>
            \/ rows[i] # NoRow /\ rows'[i] = rows[i]
            \/ rows[i] # NoRow /\ o.kind = "update" /\ o.id = i /\ rows'[i].updated = o.now
            \/ /\ o.kind = "insert" /\ rows'[i].created = o.now
               /\ rows'[i].updated = o.now
      BY <2>5 DEF Table!NewRow, Table!UpdatedRow, Inv, TypeOK
    <2>8. /\ pc'[c] = "returned" /\ lock' = Unlocked /\ UNCHANGED <<op, found, connected, clock>>
          /\ \A d \in Contexts \ {c} : pc'[d] = pc[d] /\ pc[d] \notin {"commit", "rollback"}
      BY <1>9, <2>1 DEF Commit, Goto, results, Inv, TypeOK, Locking
    <2>9. TypeOK'
      BY <1>9, <2>4 DEF Commit, Goto, results, Inv, TypeOK
    <2>10. Locking'
      <3>1. ~table' => \A i \in Ids : rows'[i] = NoRow
        BY <1>9, <2>1, <2>5 DEF Commit, Inv, TypeOK, Locking
      <3> QED BY <2>8, <3>1 DEF Inv, Locking
    <2>11. Calling'
      BY <1>9 DEF Commit, Goto, results, Inv, TypeOK, Calling, Inside
    <2>12. TimestampsInOrder'
      <3> SUFFICES ASSUME NEW i \in Ids, rows'[i] # NoRow
                   PROVE  rows'[i].created * Fraction <= clock' /\ rows'[i].created <= rows'[i].updated
        BY DEF TimestampsInOrder
      <3>1. CASE rows[i] # NoRow /\ rows'[i] = rows[i]
        BY <2>8, <3>1 DEF Inv, Timing, TimestampsInOrder
      <3>2. CASE rows[i] # NoRow /\ o.kind = "update" /\ o.id = i /\ rows'[i].updated = o.now
        BY <2>6, <2>8, <3>2 DEF Inv, Timing, TimestampsInOrder
      <3>3. CASE o.kind = "insert" /\ rows'[i].created = o.now /\ rows'[i].updated = o.now
        BY <2>2, <2>8, <3>3
      <3> QED BY <2>7, <3>1, <3>2, <3>3
    <2>13. \A d \in Contexts :
             op[d].kind \in {"lookup", "update"} => op[d].id \in Ids
      BY DEF Inv, TypeOK, Table!Calls, NoOp
    <2>14. Timing'
      BY <2>6, <2>8, <2>12, <2>13 DEF Inv, Timing
    <2> QED BY <2>9, <2>10, <2>11, <2>14 DEF Inv
  <1>10. CASE Tick
    <2> USE <1>10 DEF Tick, store, results
    <2>1. TypeOK'
      BY DEF Inv, TypeOK
    <2>2. Locking' /\ Calling'
      BY DEF Inv, Locking, Calling
    <2>3. TimestampsInOrder'
      <3> SUFFICES ASSUME NEW i \in Ids, rows[i] # NoRow
                   PROVE  /\ rows[i].created * Fraction <= clock + 1
                          /\ rows[i].created <= rows[i].updated
        BY DEF TimestampsInOrder
      <3>1. rows[i].created * Fraction \in Int /\ clock \in Int
        BY DEF Inv, TypeOK, Row
      <3> QED BY <3>1 DEF Inv, Timing, TimestampsInOrder
    <2>4. ASSUME NEW d \in Contexts, op[d].kind \in {"insert", "update"}
          PROVE  op[d].now * Fraction <= clock'
      <3>1. op[d].now * Fraction \in Int /\ clock \in Int
        BY <2>4 DEF Inv, TypeOK, Table!Calls, NoOp
      <3> QED BY <2>4, <3>1 DEF Inv, Timing
    <2>5. Timing'
      BY <2>3, <2>4 DEF Inv, Timing
    <2> QED BY <2>1, <2>2, <2>5 DEF Inv
  <1>11. ASSUME NEW c \in Contexts, Teardown(c) \/ Crash(c) PROVE Inv'
    <2> USE <1>11 DEF Teardown, Crash, Leave, Goto
    <2>1. TypeOK'
      <3>1. counts' \in [Contexts -> [present : SUBSET Ids, revoked : SUBSET Ids]]
        BY DEF Inv, TypeOK, Table!NoCounts
      <3>2. op' \in [Contexts -> Table!Calls \cup {NoOp}]
        BY DEF Inv, TypeOK
      <3> QED BY <3>1, <3>2 DEF Inv, TypeOK
    <2>2. Locking'
      BY DEF Inv, TypeOK, Locking
    <2>3. Calling'
      BY DEF Inv, TypeOK, Calling, Inside
    <2>4. Timing'
      BY DEF Inv, TypeOK, Timing, TimestampsInOrder, NoOp
    <2> QED BY <2>1, <2>2, <2>3, <2>4 DEF Inv
  <1>12. CASE UNCHANGED vars
    BY <1>12 DEF vars, Inside, Inv, TypeOK, Locking, Calling, Timing,
                 TimestampsInOrder
  <1> QED BY <1>1, <1>2, <1>3, <1>4, <1>5, <1>6, <1>7, <1>8, <1>9, <1>10, <1>11, <1>12
          DEF Next, Perform, Disturb

-----------------------------------------------------------------------------
\* The invariant holds in every state of every behaviour.
LEMMA Invariance == Spec => []Inv
  <1>1. Inv /\ [Next]_vars => Inv'
    BY NextInv
  <1> QED BY InitInv, <1>1, PTL DEF Spec

\* The types of the tables and the contexts, every timestamp within the bound
\* of the clock included.
THEOREM TypeCorrect == Spec => []TypeOK
  BY Invariance, PTL DEF Inv

\* However many contexts compete and whatever fails, a writer that has
\* returned or raised holds no lock (db.py:136-153).
THEOREM LocksAreReleased == Spec => []NoLockLeftBehind
  <1>1. Inv => NoLockLeftBehind
    BY DEF Inv, TypeOK, Locking, NoLockLeftBehind
  <1> QED BY Invariance, <1>1, PTL

\* However long a writer waits between reading the clock and writing the row,
\* no row is younger than its creation (db.py:193, 241).
THEOREM TimestampsAreInOrder == Spec => []TimestampsInOrder
  BY Invariance, PTL DEF Inv, Timing

-----------------------------------------------------------------------------
\* An empty table counts as no table (db.py:262-281).
LEMMA EmptyCounts ==
  ASSUME \A i \in Ids : rows[i] = NoRow
  PROVE  Table!Counts(rows) = Table!NoCounts
  BY DEF Table!Counts, Table!NoCounts

\* Every step of db.py is a step of the atomic table, or none.
LEMMA StepIsAtomic == Inv /\ [Next]_vars => [Table!Next]_(Table!vars)
  <1> SUFFICES ASSUME Inv, [Next]_vars PROVE [Table!Next]_(Table!vars)
    OBVIOUS
  <1>1. ASSUME NEW c \in Contexts, Begin(c) \/ Get(c) \/ Execute(c)
        PROVE  UNCHANGED Table!vars
    BY <1>1 DEF Begin, Get, Execute, Goto, store, results, Inside, Inv, TypeOK, Table!vars
  <1>2. ASSUME NEW c \in Contexts, NEW o \in Table!Calls, Call(c, o), pc[c] \notin Inside
        PROVE  Table!Begin(c)
    BY <1>2 DEF Call, Goto, store, results, Inside, Inv, TypeOK, Table!Begin
  <1>3. ASSUME NEW c \in Contexts,
               \/ ConnectFails(c) \/ StatementFails(c) \/ NoSuchTable(c) \/ Busy(c)
               \/ Rollback(c) \/ CommitFails(c)
        PROVE  Table!Fail(c)
    BY <1>3 DEF ConnectFails, StatementFails, NoSuchTable, Busy, Rollback, CommitFails, Goto, store,
                results, Inside, Inv, TypeOK, Table!Fail
  <1>4. ASSUME NEW c \in Contexts, Read(c) PROVE Table!Succeed(c)
    <2>1. rows' = Table!Effect(op[c], rows)
      BY <1>4 DEF Read, store, Table!Effect
    <2>2. op[c].kind = "count" => counts' = [counts EXCEPT ![c] = Table!Counts(rows)]
      BY <1>4, EmptyCounts DEF Read, Inv, Locking
    <2> QED BY <1>4, <2>1, <2>2 DEF Read, Goto, store, Inside, Inv, TypeOK, Table!Succeed
  <1>5. ASSUME NEW c \in Contexts, Commit(c) PROVE Table!Succeed(c)
    BY <1>5 DEF Commit, Goto, results, Inside, Writes, Inv, TypeOK, Locking, Table!Succeed
  <1>6. ASSUME NEW c \in Contexts, Teardown(c) \/ Crash(c) PROVE Table!Leave(c)
    <2> DEFINE phase(p) == IF p \in {"idle", "begun"} THEN "ready"
                           ELSE IF p \in Inside THEN "pending"
                           ELSE IF p = "returned" THEN "done" ELSE "failed"
    <2>1. /\ pc' = [pc EXCEPT ![c] = "idle"]
          /\ op' = [op EXCEPT ![c] = [kind |-> "none"]]
          /\ found' = [found EXCEPT ![c] = NoRow]
          /\ counts' = [counts EXCEPT ![c] = Table!NoCounts]
          /\ UNCHANGED rows
      BY <1>6 DEF Teardown, Crash, Leave, Goto, NoOp
    <2>2. [d \in Contexts |-> phase(pc'[d])]
            = [[d \in Contexts |-> phase(pc[d])] EXCEPT ![c] = "ready"]
      BY <2>1 DEF Inv, TypeOK
    <2> QED BY <2>1, <2>2 DEF Table!Leave
  <1>7. CASE Tick \/ UNCHANGED vars
    <2>1. UNCHANGED <<rows, pc, op, found, counts>>
      BY <1>7 DEF Tick, store, results, vars
    <2> QED BY <2>1 DEF Table!vars
  <1>8. ASSUME NEW c \in Contexts, Lookup(c) \/ Operate(c) \/ Insert(c) \/ Update(c)
        PROVE  Table!Begin(c)
    <2>1. pc[c] \notin Inside
      BY <1>8 DEF Lookup, Operate, Insert, Update, Inside
    <2>2. \E o \in Table!Calls : Call(c, o)
      BY <1>8, SimpleCalls, WriteCalls
    <2> QED BY <1>2, <2>1, <2>2
  <1>9. CASE \E c \in Contexts : Begin(c) \/ Get(c) \/ Execute(c)
    BY <1>1, <1>9
  <1>10. ASSUME NEW c \in Contexts,
                Table!Begin(c) \/ Table!Succeed(c) \/ Table!Fail(c) \/ Table!Leave(c)
         PROVE  Table!Next
    BY <1>10 DEF Table!Next
  <1> QED BY <1>3, <1>4, <1>5, <1>6, <1>7, <1>8, <1>9, <1>10 DEF Next, Perform, Disturb

\* For any number of application contexts, db.py on SQLite behaves as one
\* table whose operations are atomic: Spec implements TokensTable.
THEOREM DatabaseIsAtomic == Spec => Atomic
  <1>1. Init => Table!Init
    BY DEF Init, NoOp, Table!Init
  <1>2. Inv /\ [Next]_vars => [Table!Next]_(Table!vars)
    BY StepIsAtomic
  <1> QED BY <1>1, <1>2, Invariance, PTL DEF Spec, Atomic, Table!Spec
=============================================================================
