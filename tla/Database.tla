------------------------------ MODULE Database ------------------------------
(***************************************************************************)
(* db.py on top of SQLite in WAL mode (settings.py:135-137): readers see   *)
(* the last committed state and never wait, writers take turns through one *)
(* write lock and give up after the connection's timeout.                  *)
(*                                                                         *)
(* An application context has one connection, opened by its first          *)
(* operation and closed when it ends.  A context is a request to /token    *)
(* (a lookup, then perhaps an update), to /callback (an insert), a refresh *)
(* of the metrics (a count on a connection of its own) or a CLI command.   *)
(* The clock counts fractions of a second, Fraction of them to a second;   *)
(* a timestamp in the table is whole seconds.                              *)
(***************************************************************************)
EXTENDS Naturals

CONSTANTS
  Contexts, Ids, Tokens, Null, NoRow,
  Unlocked,   \* nobody holds SQLite's write lock
  Fraction,   \* clock ticks in a second
  MaxClock    \* bound: ticks

ASSUME DatabaseAssumption ==
  /\ Null \notin Tokens
  /\ NoRow \notin [token : Tokens \cup {Null}, created : Nat, updated : Nat]
  /\ Unlocked \notin Contexts
  /\ Fraction \in Nat \ {0}
  /\ MaxClock \in Nat

VARIABLES
  table,      \* whether the tokens table exists
  rows,       \* its committed rows
  lock,       \* the context whose transaction holds the write lock
  clock,
  handler,    \* what each context is for
  connected,  \* whether g._oauth_database is set
  pc,         \* where it is in its operation
  op,         \* the operation: statement, parameters, timestamp
  found,      \* the TokenRecord it looked up
  counts      \* the counts it read

vars == <<table, rows, lock, clock, handler, connected, pc, op, found, counts>>

store == <<table, rows, lock>>
results == <<found, counts>>

Inside == {"get", "execute", "commit", "rollback"}

Table == INSTANCE TokensTable WITH
  phase <- [c \in Contexts |->
    IF pc[c] \in {"idle", "begun"} THEN "ready"
      ELSE IF pc[c] \in Inside THEN "pending"
      ELSE IF pc[c] = "returned" THEN "done" ELSE "failed"]

NoOp == [kind |-> "none"]

Init ==
  /\ table = FALSE
  /\ rows = [i \in Ids |-> NoRow]
  /\ lock = Unlocked
  /\ clock = 0
  /\ handler = [c \in Contexts |-> "none"]
  /\ connected = [c \in Contexts |-> FALSE]
  /\ pc = [c \in Contexts |-> "idle"]
  /\ op = [c \in Contexts |-> NoOp]
  /\ found = [c \in Contexts |-> NoRow]
  /\ counts = [c \in Contexts |-> Table!NoCounts]

Goto(c, label) == pc' = [pc EXCEPT ![c] = label]

\* Mutant: the timestamp is rounded instead of truncated.
RoundedTimestamp(t) == (t + Fraction - 1) \div Fraction

_prepare_timestamp(t) == t \div Fraction

-----------------------------------------------------------------------------
(* Application contexts and the operations they perform.                   *)

Handlers == {"token", "callback", "refresh", "initdb", "cleandb"}

Begin(c) ==
  /\ pc[c] = "idle"
  /\ \E h \in Handlers : handler' = [handler EXCEPT ![c] = h]
  /\ Goto(c, "begun")
  /\ UNCHANGED <<store, clock, connected, op, results>>

Call(c, o) ==
  /\ op' = [op EXCEPT ![c] = o]
  /\ Goto(c, "get")
  /\ UNCHANGED <<store, clock, handler, connected, results>>

\* insert() and update() take the time before they open their cursor.
Write(kind, id, token) ==
  [kind |-> kind, id |-> id, token |-> token, now |-> _prepare_timestamp(clock)]

Lookup(c) ==
  /\ pc[c] = "begun" /\ handler[c] = "token"
  /\ \E i \in Ids : Call(c, [kind |-> "lookup", id |-> i])

\* token() stores a new token, or None for a grant that is gone, under the
\* client_id it looked up.
Update(c) ==
  /\ pc[c] = "returned" /\ op[c].kind = "lookup"
  /\ found[c] # NoRow /\ found[c].token # Null
  /\ \E t \in Tokens \cup {Null} : Call(c, Write("update", op[c].id, t))

\* generate_id() draws an id at random; a collision is not excluded.
Insert(c) ==
  /\ pc[c] = "begun" /\ handler[c] = "callback"
  /\ \E i \in Ids, t \in Tokens : Call(c, Write("insert", i, t))

\* The other contexts perform one operation without parameters.
Operate(c) ==
  /\ pc[c] = "begun"
  /\ \/ handler[c] = "refresh" /\ Call(c, [kind |-> "count"])
     \/ handler[c] = "initdb"  /\ Call(c, [kind |-> "initdb"])
     \/ handler[c] = "cleandb" /\ Call(c, [kind |-> "vacuum"])

-----------------------------------------------------------------------------
(* get() and cursor().                                                     *)

Writes == {"insert", "update", "initdb", "vacuum"}

\* _token_state_counts() is given a connection that is not the context's.
Get(c) ==
  /\ pc[c] = "get"
  /\ connected' = [connected EXCEPT ![c] = op[c].kind # "count"]
  /\ Goto(c, "execute")
  /\ UNCHANGED <<store, clock, handler, op, results>>

\* A new connection fails, or one of the pragmas does.
ConnectFails(c) ==
  /\ pc[c] = "get"
  /\ ~connected[c]
  /\ Goto(c, "raised")
  /\ UNCHANGED <<store, clock, handler, connected, op, results>>

\* One SELECT, outside a transaction, reads one committed state.
Read(c) ==
  /\ pc[c] = "execute"
  /\ \/ /\ op[c].kind = "lookup" /\ table
        /\ found' = [found EXCEPT ![c] = rows[op[c].id]]
        /\ UNCHANGED counts
     \/ /\ op[c].kind = "count"
        /\ counts' = [counts EXCEPT ![c] =
             IF table THEN Table!Counts(rows) ELSE Table!NoCounts]
        /\ UNCHANGED found
  /\ Goto(c, "returned")
  /\ UNCHANGED <<store, clock, handler, connected, op>>

\* The table is not there yet.  _token_state_counts() asks first, and VACUUM
\* does not need it.
NoSuchTable(c) ==
  /\ pc[c] = "execute" /\ op[c].kind \in {"lookup", "insert", "update"}
  /\ ~table
  /\ Goto(c, "raised")
  /\ UNCHANGED <<store, clock, handler, connected, op, results>>

\* The disk fails before the statement has written anything.
StatementFails(c) ==
  /\ pc[c] = "execute"
  /\ Goto(c, "raised")
  /\ UNCHANGED <<store, clock, handler, connected, op, results>>

Conflict(c) == op[c].kind = "insert" /\ rows[op[c].id] # NoRow

\* Mutant: the statement is not part of a transaction.
ExecuteAutocommit(c) ==
  /\ pc[c] = "execute" /\ op[c].kind \in Writes
  /\ lock = Unlocked
  /\ op[c].kind = "initdb" \/ table
  /\ lock' = c
  /\ rows' = IF Conflict(c) THEN rows ELSE Table!Effect(op[c], rows)
  /\ Goto(c, IF Conflict(c) THEN "rollback" ELSE "commit")
  /\ UNCHANGED <<table, clock, handler, connected, op, results>>

\* BEGIN takes no lock: the statement does.
Execute(c) ==
  /\ pc[c] = "execute" /\ op[c].kind \in Writes
  /\ lock = Unlocked
  /\ op[c].kind \in {"initdb", "vacuum"} \/ table
  /\ lock' = c
  /\ Goto(c, IF Conflict(c) THEN "rollback" ELSE "commit")
  /\ UNCHANGED <<table, rows, clock, handler, connected, op, results>>

\* Mutant: no timeout.
WaitForLock(c) ==
  /\ pc[c] = "execute" /\ op[c].kind \in Writes
  /\ lock # Unlocked
  /\ UNCHANGED vars

\* "database is locked": the timeout of the connection is over.
Busy(c) ==
  /\ pc[c] = "execute" /\ op[c].kind \in Writes
  /\ lock # Unlocked
  /\ Goto(c, "raised")
  /\ UNCHANGED <<store, clock, handler, connected, op, results>>

\* The constraint on client_id failed: IntegrityError.
Rollback(c) ==
  /\ pc[c] = "rollback"
  /\ lock' = Unlocked
  /\ Goto(c, "raised")
  /\ UNCHANGED <<table, rows, clock, handler, connected, op, results>>

Commit(c) ==
  /\ pc[c] = "commit"
  /\ lock' = Unlocked
  /\ table' = (table \/ op[c].kind = "initdb")
  /\ rows' = Table!Effect(op[c], rows)
  /\ Goto(c, "returned")
  /\ UNCHANGED <<clock, handler, connected, op, results>>

\* Mutant: a failing commit leaves the transaction open.
CommitFailsOpen(c) ==
  /\ pc[c] = "commit"
  /\ Goto(c, "raised")
  /\ UNCHANGED <<table, rows, lock, clock, handler, connected, op, results>>

\* commit() is outside the try of cursor(): "with source" rolls back.
CommitFails(c) ==
  /\ pc[c] = "commit"
  /\ lock' = Unlocked
  /\ Goto(c, "raised")
  /\ UNCHANGED <<table, rows, clock, handler, connected, op, results>>

-----------------------------------------------------------------------------
\* The context is gone, its connection closed and its transaction with it.
Leave(c) ==
  /\ lock' = IF lock = c THEN Unlocked ELSE lock
  /\ handler' = [handler EXCEPT ![c] = "none"]
  /\ connected' = [connected EXCEPT ![c] = FALSE]
  /\ Goto(c, "idle")
  /\ op' = [op EXCEPT ![c] = NoOp]
  /\ found' = [found EXCEPT ![c] = NoRow]
  /\ counts' = [counts EXCEPT ![c] = Table!NoCounts]
  /\ UNCHANGED <<table, rows, clock>>

\* teardown_appcontext calls close().
Teardown(c) == pc[c] \in {"returned", "raised"} /\ Leave(c)

Crash(c) == pc[c] # "idle" /\ Leave(c)

Tick ==
  /\ clock < MaxClock
  /\ clock' = clock + 1
  /\ UNCHANGED <<store, handler, connected, pc, op, results>>

Perform(c) ==
  \/ Get(c) \/ Read(c) \/ NoSuchTable(c) \/ Execute(c) \/ Busy(c)
  \/ Rollback(c) \/ Commit(c)

Disturb(c) == ConnectFails(c) \/ StatementFails(c) \/ CommitFails(c)

Next ==
  \/ \E c \in Contexts :
       \/ Begin(c) \/ Lookup(c) \/ Update(c) \/ Insert(c) \/ Operate(c)
       \/ Perform(c) \/ Disturb(c) \/ Teardown(c) \/ Crash(c)
  \/ Tick

Spec == Init /\ [][Next]_vars

\* A thread that is inside an operation goes on; waiting for the lock ends
\* with the timeout.  No disturbance is needed to end an operation.
Fairness == \A c \in Contexts : WF_vars(Perform(c))

FairSpec == Spec /\ Fairness

-----------------------------------------------------------------------------
Row ==
  [token : Tokens \cup {Null}, created : 0..MaxClock, updated : 0..MaxClock]

TypeOK ==
  /\ table \in BOOLEAN
  /\ rows \in [Ids -> Row \cup {NoRow}]
  /\ lock \in Contexts \cup {Unlocked}
  /\ clock \in 0..MaxClock
  /\ handler \in [Contexts -> Handlers \cup {"none"}]
  /\ connected \in [Contexts -> BOOLEAN]
  /\ pc \in [Contexts -> {"idle", "begun", "get", "execute", "commit", "rollback",
                          "returned", "raised"}]
  /\ op \in [Contexts -> Table!Calls \cup {NoOp}]
  /\ found \in [Contexts -> Row \cup {NoRow}]
  /\ counts \in [Contexts -> [present : SUBSET Ids, revoked : SUBSET Ids]]

\* No lock is left behind: whatever fails inside an operation, the write lock
\* is free once the caller has its answer or its exception, although the
\* connection stays open until the request ends (db.py:136-153).
NoLockLeftBehind ==
  lock # Unlocked => pc[lock] \in {"commit", "rollback"} /\ connected[lock]

\* A grant is never younger than it is old: no handler ever sees a created_at
\* in the future, nor a row that was updated before it was created, although
\* each timestamp is taken before the writer waits for its turn and loses its
\* fraction (db.py:176-177, 193, 241; telemetry/_prometheus.py:210).
TimestampsInOrder ==
  \A i \in Ids : rows[i] # NoRow =>
    rows[i].created * Fraction <= clock /\ rows[i].created <= rows[i].updated

\* Every operation is atomic (TokensTable): it takes effect in one step while
\* its caller waits for it, or it raises and has changed nothing; an insert
\* never replaces a row, and initdb and cleandb never lose one.
Atomic == Table!Spec

\* Every operation ends, however many others compete for the write lock.
OperationEnds ==
  \A c \in Contexts :
    pc[c] \in Inside ~> pc[c] \notin Inside
=============================================================================
