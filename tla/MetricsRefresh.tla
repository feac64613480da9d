--------------------------- MODULE MetricsRefresh ---------------------------
(***************************************************************************)
(* The background refresh of the oauth_token_records gauge                 *)
(* (telemetry/_refresh.py, utils/coalescing.py).  Handlers write to the    *)
(* tokens table and then request a refresh; one worker thread per process  *)
(* coalesces the requests, counts the rows and sets the gauge, which all   *)
(* processes share: its value is the one that was set most recently.       *)
(*                                                                         *)
(* The table is abstracted to the number of writes committed so far, the   *)
(* gauge to the number of writes its value accounts for.                   *)
(***************************************************************************)
EXTENDS Naturals

CONSTANTS
  Processes,     \* WSGI processes
  MaxWrites,     \* bound: writes to the tokens table
  MaxExits,      \* bound: times a process stops or crashes
  MaxFailures    \* bound: refreshes that raise

ASSUME MetricsAssumption ==
  MaxWrites \in Nat /\ MaxExits \in Nat /\ MaxFailures \in Nat

VARIABLES
  written,     \* writes committed to the tokens table
  gauge,       \* writes the gauge accounts for
  exits, failures,
  registered,  \* whether the process has a worker in app.extensions
  owing,       \* calls of request_refresh() its handlers are about to make
  own,         \* history: the last write its handlers committed
  failed,      \* history: whether its last refresh raised
  pc,          \* where its worker thread is in _run()
  generation, handled, stopped,   \* _generation, _handled_generation, _stopped
  notified,    \* the condition was notified since the worker began to wait
  captured,    \* generation, as read before the debounce
  seen         \* the state of the table the worker counted

shared == <<written, gauge, exits, failures>>
condition == <<generation, handled, stopped, notified>>
vars ==
  <<shared, registered, owing, own, failed, pc, condition, captured, seen>>

Init ==
  /\ written = 0 /\ gauge = 0 /\ exits = 0 /\ failures = 0
  /\ registered = [p \in Processes |-> FALSE]
  /\ owing = [p \in Processes |-> 0]
  /\ own = [p \in Processes |-> 0]
  /\ failed = [p \in Processes |-> FALSE]
  /\ pc = [p \in Processes |-> "off"]
  /\ generation = [p \in Processes |-> 0]
  /\ handled = [p \in Processes |-> 0]
  /\ stopped = [p \in Processes |-> FALSE]
  /\ notified = [p \in Processes |-> FALSE]
  /\ captured = [p \in Processes |-> 0]
  /\ seen = [p \in Processes |-> 0]

Goto(p, label) == pc' = [pc EXCEPT ![p] = label]

-----------------------------------------------------------------------------
(* The process and its request handlers.                                   *)

\* start_runtime_services(): the worker starts with one request made, and a
\* second one follows.
StartServices(p) ==
  /\ pc[p] = "off"
  /\ Goto(p, "startup")
  /\ registered' = [registered EXCEPT ![p] = TRUE]
  /\ generation' = [generation EXCEPT ![p] = 1]
  /\ owing' = [owing EXCEPT ![p] = 1]
  /\ UNCHANGED <<shared, own, failed, handled, stopped, notified, captured, seen>>

\* insert() or update() commits.
Commit(p) ==
  /\ pc[p] # "off"
  /\ written < MaxWrites
  /\ written' = written + 1
  /\ own' = [own EXCEPT ![p] = written']
  /\ owing' = [owing EXCEPT ![p] = @ + 1]
  /\ UNCHANGED <<gauge, exits, failures, registered, failed, pc, condition,
                 captured, seen>>

\* Mutant: the condition is not notified.
RequestSilently(p) ==
  /\ owing[p] > 0
  /\ owing' = [owing EXCEPT ![p] = @ - 1]
  /\ generation' = [generation EXCEPT ![p] = IF registered[p] THEN @ + 1 ELSE @]
  /\ UNCHANGED <<shared, registered, own, failed, pc, handled, stopped, notified,
                 captured, seen>>

\* request_refresh(): increment and notify under the lock.
Request(p) ==
  /\ owing[p] > 0
  /\ owing' = [owing EXCEPT ![p] = @ - 1]
  /\ IF registered[p]
       THEN /\ generation' = [generation EXCEPT ![p] = @ + 1]
            /\ notified' = [notified EXCEPT ![p] = TRUE]
       ELSE UNCHANGED <<generation, notified>>
  /\ UNCHANGED <<shared, registered, own, failed, pc, handled, stopped, captured,
                 seen>>

\* stop_runtime_services() at exit: unregister, set the flag, notify, join.
Stop(p) ==
  /\ registered[p]
  /\ exits < MaxExits
  /\ registered' = [registered EXCEPT ![p] = FALSE]
  /\ stopped' = [stopped EXCEPT ![p] = TRUE]
  /\ notified' = [notified EXCEPT ![p] = TRUE]
  /\ UNCHANGED <<shared, owing, own, failed, pc, generation, handled, captured, seen>>

\* The process is gone, and with it all it knew.
Gone(p) ==
  /\ exits' = exits + 1
  /\ Goto(p, "off")
  /\ registered' = [registered EXCEPT ![p] = FALSE]
  /\ owing' = [owing EXCEPT ![p] = 0]
  /\ own' = [own EXCEPT ![p] = 0]
  /\ failed' = [failed EXCEPT ![p] = FALSE]
  /\ generation' = [generation EXCEPT ![p] = 0]
  /\ handled' = [handled EXCEPT ![p] = 0]
  /\ stopped' = [stopped EXCEPT ![p] = FALSE]
  /\ notified' = [notified EXCEPT ![p] = FALSE]
  /\ captured' = [captured EXCEPT ![p] = 0]
  /\ seen' = [seen EXCEPT ![p] = 0]
  /\ UNCHANGED <<written, gauge, failures>>

\* join() returns because the worker ended, or because it took too long.
Exit(p) ==
  /\ stopped[p]
  /\ Gone(p)

Crash(p) ==
  /\ pc[p] # "off"
  /\ exits < MaxExits
  /\ Gone(p)

-----------------------------------------------------------------------------
(* CoalescingWorker._run().                                                *)

\* _wait() returned: the delay is over, or stop() interrupted it.
StartupOver(p) ==
  /\ pc[p] = "startup"
  /\ Goto(p, IF stopped[p] THEN "exited" ELSE "check")
  /\ UNCHANGED <<shared, registered, owing, own, failed, condition, captured, seen>>

\* wait_for() evaluates its predicate, and waits, while it holds the lock.
Check(p) ==
  /\ pc[p] = "check"
  /\ \/ /\ stopped[p]
        /\ Goto(p, "exited")
        /\ UNCHANGED <<notified, captured>>
     \/ /\ ~stopped[p] /\ generation[p] # handled[p]
        /\ Goto(p, "debounce")
        /\ captured' = [captured EXCEPT ![p] = generation[p]]
        /\ UNCHANGED notified
     \/ /\ ~stopped[p] /\ generation[p] = handled[p]
        /\ Goto(p, "waiting")
        /\ notified' = [notified EXCEPT ![p] = FALSE]
        /\ UNCHANGED captured
  /\ UNCHANGED <<shared, registered, owing, own, failed, generation, handled,
                 stopped, seen>>

Wake(p) ==
  /\ pc[p] = "waiting"
  /\ notified[p]
  /\ Goto(p, "check")
  /\ UNCHANGED <<shared, registered, owing, own, failed, condition, captured, seen>>

DebounceOver(p) ==
  /\ pc[p] = "debounce"
  /\ Goto(p, IF stopped[p] THEN "exited" ELSE "claim")
  /\ UNCHANGED <<shared, registered, owing, own, failed, condition, captured, seen>>

\* Mutant: stop() is not looked for after the debounce.
ClaimStopped(p) ==
  /\ pc[p] = "claim"
  /\ handled' = [handled EXCEPT ![p] = generation[p]]
  /\ Goto(p, "read")
  /\ UNCHANGED <<shared, registered, owing, own, failed, generation, stopped,
                 notified, captured, seen>>

Claim(p) ==
  /\ pc[p] = "claim"
  /\ \/ /\ stopped[p]
        /\ Goto(p, "exited")
        /\ UNCHANGED handled
     \/ /\ ~stopped[p]
        /\ handled' = [handled EXCEPT ![p] =
             IF captured[p] > generation[p] THEN captured[p] ELSE generation[p]]
        /\ Goto(p, "read")
  /\ UNCHANGED <<shared, registered, owing, own, failed, generation, stopped,
                 notified, captured, seen>>

\* token_state_counts() on a connection of its own.
Read(p) ==
  /\ pc[p] = "read"
  /\ seen' = [seen EXCEPT ![p] = written]
  /\ Goto(p, "set")
  /\ UNCHANGED <<shared, registered, owing, own, failed, condition, captured>>

\* Mutant: requests that arrived during the refresh count as handled.
SetGaugeAndHandle(p) ==
  /\ pc[p] = "set"
  /\ gauge' = seen[p]
  /\ failed' = [failed EXCEPT ![p] = FALSE]
  /\ handled' = [handled EXCEPT ![p] = generation[p]]
  /\ Goto(p, "check")
  /\ UNCHANGED <<written, exits, failures, registered, owing, own, generation,
                 stopped, notified, captured, seen>>

SetGauge(p) ==
  /\ pc[p] = "set"
  /\ gauge' = seen[p]
  /\ failed' = [failed EXCEPT ![p] = FALSE]
  /\ Goto(p, "check")
  /\ UNCHANGED <<written, exits, failures, registered, owing, own, condition,
                 captured, seen>>

\* The refresh raises; _refresh_metrics_in_app() logs it and returns.
RefreshFails(p) ==
  /\ pc[p] \in {"read", "set"}
  /\ failures < MaxFailures
  /\ failures' = failures + 1
  /\ failed' = [failed EXCEPT ![p] = TRUE]
  /\ Goto(p, "check")
  /\ UNCHANGED <<written, gauge, exits, registered, owing, own, condition,
                 captured, seen>>

-----------------------------------------------------------------------------
Run(p) ==
  \/ StartupOver(p) \/ Check(p) \/ Wake(p) \/ DebounceOver(p) \/ Claim(p)
  \/ Read(p) \/ SetGauge(p) \/ RefreshFails(p)

Next ==
  \E p \in Processes :
    \/ StartServices(p) \/ Commit(p) \/ Request(p)
    \/ Stop(p) \/ Exit(p) \/ Crash(p)
    \/ Run(p)

Spec == Init /\ [][Next]_vars

\* The worker thread runs, a handler that committed reaches its next line, a
\* process that stops exits, and one that is gone is started again.
Fairness ==
  \A p \in Processes :
    /\ WF_vars(Run(p)) /\ WF_vars(Request(p))
    /\ WF_vars(Exit(p)) /\ WF_vars(StartServices(p))

FairSpec == Spec /\ Fairness

-----------------------------------------------------------------------------
TypeOK ==
  /\ written \in 0..MaxWrites
  /\ gauge \in 0..MaxWrites
  /\ exits \in Nat
  /\ failures \in 0..MaxFailures
  /\ registered \in [Processes -> BOOLEAN]
  /\ owing \in [Processes -> 0..(MaxWrites + 1)]
  /\ own \in [Processes -> 0..MaxWrites]
  /\ failed \in [Processes -> BOOLEAN]
  /\ pc \in [Processes -> {"off", "startup", "check", "waiting", "debounce",
                           "claim", "read", "set", "exited"}]
  /\ generation \in [Processes -> 0..(MaxWrites + 2)]
  /\ handled \in [Processes -> 0..(MaxWrites + 2)]
  /\ stopped \in [Processes -> BOOLEAN]
  /\ notified \in [Processes -> BOOLEAN]
  /\ captured \in [Processes -> 0..(MaxWrites + 2)]
  /\ seen \in [Processes -> 0..MaxWrites]

\* The worker is blocked and nobody is about to wake it.
Quiescent(p) == pc[p] = "waiting" /\ ~notified[p] /\ owing[p] = 0

\* No write is missed: when a worker has nothing to do it has counted the rows
\* after the last write of its process, although requests that arrive during
\* the debounce or during a refresh are coalesced (coalescing.py:66-84).
NoWriteMissed ==
  \A p \in Processes : Quiescent(p) /\ ~failed[p] => seen[p] >= own[p]

\* No wakeup is lost: a worker only stays blocked when all requests are handled
\* (coalescing.py:47-50, 67-71).
NoWakeupLost ==
  \A p \in Processes :
    pc[p] = "waiting" /\ ~notified[p] => generation[p] = handled[p] /\ ~stopped[p]

\* Once stop() has returned from its critical section no new refresh begins,
\* whatever wait it interrupted (coalescing.py:72, 81, 99, 104).
StoppedStartsNothing ==
  [][\A p \in Processes : stopped[p] /\ pc[p] # "read" => pc'[p] # "read"]_vars

\* The gauge is kept fresh: it eventually accounts for every write, also for
\* one whose handler crashed before it requested a refresh, unless the last
\* refresh failed (coalescing.py:60-95, telemetry/_refresh.py:65-71).
KeptFresh ==
  \A n \in 1..MaxWrites :
    written >= n ~> gauge >= n \/ \E p \in Processes : failed[p]
=============================================================================
