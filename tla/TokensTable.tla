----------------------------- MODULE TokensTable -----------------------------
(***************************************************************************)
(* What the functions of db.py promise to the code that calls them: each   *)
(* call takes effect in one step between its beginning and its end, or     *)
(* fails and changes nothing, whatever the other callers do at the time.   *)
(***************************************************************************)
EXTENDS Naturals

CONSTANTS
  Contexts,   \* application contexts: a request, a refresh, a CLI command
  Ids,        \* client_ids
  Tokens,     \* encrypted tokens
  Null,       \* the token column of a revoked grant
  NoRow       \* no row has this client_id

VARIABLES
  rows,       \* the tokens table
  phase,      \* ready, or where the context is in its call
  op,         \* the call
  found,      \* what its last lookup() returned
  counts      \* what its last token_state_counts() returned

vars == <<rows, phase, op, found, counts>>

NewRow(o) == [token |-> o.token, created |-> o.now, updated |-> o.now]
UpdatedRow(o, row) == [token |-> o.token, created |-> row.created, updated |-> o.now]

\* The statements of insert() and update(); VACUUM, "create table if not
\* exists" and the queries change no row.
Effect(o, r) ==
  IF o.kind = "insert"
    THEN [r EXCEPT ![o.id] = NewRow(o)]
    ELSE IF o.kind = "update" /\ r[o.id] # NoRow
           THEN [r EXCEPT ![o.id] = UpdatedRow(o, @)]
           ELSE r

\* The counts of the query, as the sets of ids that it counts.
Counts(r) ==
  [present |-> {i \in Ids : r[i] # NoRow /\ r[i].token # Null},
   revoked |-> {i \in Ids : r[i] # NoRow /\ r[i].token = Null}]

\* Nothing has been counted: the query finds no table.
NoCounts == [present |-> {}, revoked |-> {}]

Init ==
  /\ rows = [i \in Ids |-> NoRow]
  /\ phase = [c \in Contexts |-> "ready"]
  /\ op = [c \in Contexts |-> [kind |-> "none"]]
  /\ found = [c \in Contexts |-> NoRow]
  /\ counts = [c \in Contexts |-> NoCounts]

Calls ==
  [kind : {"lookup"}, id : Ids]
  \cup [kind : {"insert", "update"}, id : Ids, token : Tokens \cup {Null}, now : Nat]
  \cup [kind : {"count", "initdb", "vacuum"}]

Begin(c) ==
  /\ phase[c] # "pending"
  /\ phase' = [phase EXCEPT ![c] = "pending"]
  /\ op'[c] \in Calls
  /\ op' = [op EXCEPT ![c] = op'[c]]
  /\ UNCHANGED <<rows, found, counts>>

Succeed(c) ==
  /\ phase[c] = "pending"
  /\ op[c].kind = "insert" => rows[op[c].id] = NoRow
  /\ phase' = [phase EXCEPT ![c] = "done"]
  /\ rows' = Effect(op[c], rows)
  /\ found' = [found EXCEPT ![c] = IF op[c].kind = "lookup" THEN rows[op[c].id] ELSE @]
  /\ counts' = [counts EXCEPT ![c] = IF op[c].kind = "count" THEN Counts(rows) ELSE @]
  /\ UNCHANGED op

Fail(c) ==
  /\ phase[c] = "pending"
  /\ phase' = [phase EXCEPT ![c] = "failed"]
  /\ UNCHANGED <<rows, op, found, counts>>

\* The context ends, or its process dies.
Leave(c) ==
  /\ phase' = [phase EXCEPT ![c] = "ready"]
  /\ op' = [op EXCEPT ![c] = [kind |-> "none"]]
  /\ found' = [found EXCEPT ![c] = NoRow]
  /\ counts' = [counts EXCEPT ![c] = NoCounts]
  /\ UNCHANGED rows

Next == \E c \in Contexts : Begin(c) \/ Succeed(c) \/ Fail(c) \/ Leave(c)

Spec == Init /\ [][Next]_vars
=============================================================================
