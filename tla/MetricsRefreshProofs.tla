------------------------ MODULE MetricsRefreshProofs ------------------------
(***************************************************************************)
(* Proofs about MetricsRefresh, for any number of processes, writes,       *)
(* failures and restarts.                                                  *)
(***************************************************************************)
EXTENDS MetricsRefresh, TLAPS

PCs == {"off", "startup", "check", "waiting", "debounce", "claim", "read", "set",
        "exited"}

Types ==
  /\ written \in Nat
  /\ registered \in [Processes -> BOOLEAN]
  /\ owing \in [Processes -> Nat]
  /\ own \in [Processes -> Nat]
  /\ failed \in [Processes -> BOOLEAN]
  /\ pc \in [Processes -> PCs]
  /\ generation \in [Processes -> Nat]
  /\ handled \in [Processes -> Nat]
  /\ stopped \in [Processes -> BOOLEAN]
  /\ notified \in [Processes -> BOOLEAN]
  /\ captured \in [Processes -> Nat]
  /\ seen \in [Processes -> Nat]

\* The last write of process p has been counted, or something is bound to lead
\* to another count: a request to come, a request to handle, a count about to
\* start.  Otherwise the last refresh failed.
Covered(p) ==
  \/ own[p] <= seen[p]
  \/ owing[p] > 0
  \/ generation[p] # handled[p]
  \/ pc[p] = "read"
  \/ failed[p] /\ pc[p] # "set"

ProcessInv(p) ==
  /\ own[p] <= written
  /\ handled[p] <= generation[p]
  /\ pc[p] = "off" => handled[p] = 0
  /\ pc[p] # "off" => registered[p] \/ stopped[p]
  /\ pc[p] \in {"debounce", "claim"} =>
       handled[p] < captured[p] /\ captured[p] <= generation[p]
  /\ pc[p] = "waiting" /\ ~notified[p] => generation[p] = handled[p] /\ ~stopped[p]
  /\ registered[p] => Covered(p)

WorkerInv == Types /\ \A p \in Processes : ProcessInv(p)

LEMMA WorkerInit == Init => WorkerInv
  BY DEF Init, WorkerInv, Types, PCs, ProcessInv, Covered

LEMMA WorkerTypes ==
  ASSUME Types, [Next]_vars
  PROVE  Types'
  <1> USE DEF Types, PCs
  <1>1. ASSUME NEW p \in Processes, StartServices(p)
        PROVE  Types'
    BY <1>1 DEF StartServices, Goto, shared
  <1>2. ASSUME NEW p \in Processes, Commit(p)
        PROVE  Types'
    BY <1>2 DEF Commit, condition
  <1>3. ASSUME NEW p \in Processes, Request(p)
        PROVE  Types'
    <2>1. owing' \in [Processes -> Nat]
      BY <1>3 DEF Request
    <2>2. generation' \in [Processes -> Nat]
      BY <1>3 DEF Request
    <2>3. notified' \in [Processes -> BOOLEAN]
      BY <1>3, Zenon DEF Request
    <2> QED
      BY <1>3, <2>1, <2>2, <2>3 DEF Request, shared
  <1>4. ASSUME NEW p \in Processes, Stop(p)
        PROVE  Types'
    BY <1>4 DEF Stop, shared
  <1>5. ASSUME NEW p \in Processes, Exit(p) \/ Crash(p)
        PROVE  Types'
    <2>1. Gone(p)
      BY <1>5 DEF Exit, Crash
    <2>2. /\ pc' \in [Processes -> PCs]
          /\ registered' \in [Processes -> BOOLEAN]
          /\ failed' \in [Processes -> BOOLEAN]
          /\ stopped' \in [Processes -> BOOLEAN]
          /\ notified' \in [Processes -> BOOLEAN]
      BY <2>1 DEF Gone, Goto
    <2>3. /\ owing' \in [Processes -> Nat]
          /\ own' \in [Processes -> Nat]
          /\ generation' \in [Processes -> Nat]
          /\ handled' \in [Processes -> Nat]
          /\ captured' \in [Processes -> Nat]
          /\ seen' \in [Processes -> Nat]
      BY <2>1 DEF Gone
    <2> QED
      BY <2>1, <2>2, <2>3 DEF Gone
  <1>6. ASSUME NEW p \in Processes, StartupOver(p) \/ Wake(p) \/ DebounceOver(p)
        PROVE  Types'
    BY <1>6 DEF StartupOver, Wake, DebounceOver, Goto, shared, condition
  <1>7. ASSUME NEW p \in Processes, Check(p)
        PROVE  Types'
    BY <1>7 DEF Check, Goto, shared
  <1>8. ASSUME NEW p \in Processes, Claim(p)
        PROVE  Types'
    <2>1. handled' \in [Processes -> Nat]
      BY <1>8 DEF Claim
    <2>2. pc' \in [Processes -> PCs]
      BY <1>8 DEF Claim, Goto
    <2> QED
      BY <1>8, <2>1, <2>2 DEF Claim, shared
  <1>9. ASSUME NEW p \in Processes, Read(p) \/ SetGauge(p) \/ RefreshFails(p)
        PROVE  Types'
    <2>1. CASE Read(p)
      BY <2>1 DEF Read, Goto, shared, condition
    <2>2. CASE SetGauge(p)
      BY <2>2 DEF SetGauge, Goto, condition
    <2>3. CASE RefreshFails(p)
      BY <2>3 DEF RefreshFails, Goto, condition
    <2> QED
      BY <1>9, <2>1, <2>2, <2>3
  <1>10. CASE UNCHANGED vars
    BY <1>10 DEF vars, shared, condition
  <1> QED
    BY <1>1, <1>2, <1>3, <1>4, <1>5, <1>6, <1>7, <1>8, <1>9, <1>10 DEF Next, Run

\* Another process disturbs nothing of this one, but may write.
LEMMA OthersStep ==
  ASSUME Types, NEW p \in Processes, NEW q \in Processes, q # p, ProcessInv(q),
         \/ StartServices(p) \/ Commit(p) \/ Request(p) \/ Stop(p) \/ Exit(p)
         \/ Crash(p) \/ Run(p)
  PROVE  ProcessInv(q)'
  <1>1. /\ UNCHANGED <<registered[q], owing[q], own[q], failed[q], pc[q]>>
        /\ UNCHANGED <<generation[q], handled[q], stopped[q], notified[q]>>
        /\ UNCHANGED <<captured[q], seen[q]>>
        /\ written' \in Nat /\ written' >= written
    <2>1. CASE StartServices(p) \/ Commit(p) \/ Request(p) \/ Stop(p)
      BY <2>1 DEF Types, StartServices, Commit, Request, Stop, Goto, shared, condition
    <2>2. CASE Exit(p) \/ Crash(p)
      BY <2>2 DEF Types, Exit, Crash, Gone, Goto
    <2>3. CASE StartupOver(p) \/ Check(p) \/ Wake(p) \/ DebounceOver(p)
      BY <2>3 DEF Types, StartupOver, Check, Wake, DebounceOver, Goto, shared, condition
    <2>4. CASE Claim(p) \/ Read(p) \/ SetGauge(p) \/ RefreshFails(p)
      BY <2>4 DEF Types, Claim, Read, SetGauge, RefreshFails, Goto, shared, condition
    <2> QED
      BY <2>1, <2>2, <2>3, <2>4 DEF Run
  <1> QED
    BY <1>1 DEF Types, ProcessInv, Covered

\* A step of the process itself.
LEMMA OwnStep ==
  ASSUME Types, NEW p \in Processes, ProcessInv(p),
         \/ StartServices(p) \/ Commit(p) \/ Request(p) \/ Stop(p) \/ Exit(p)
         \/ Crash(p) \/ Run(p)
  PROVE  ProcessInv(p)'
  <1> USE DEF Types, ProcessInv, Covered
  <1>1. CASE StartServices(p)
    BY <1>1 DEF StartServices, Goto, shared
  <1>2. CASE Commit(p)
    BY <1>2 DEF Commit, condition
  <1>3. CASE Request(p)
    <2>1. CASE registered[p]
      BY <1>3, <2>1 DEF Request, shared
    <2>2. CASE ~registered[p]
      BY <1>3, <2>2 DEF Request, shared
    <2> QED
      BY <2>1, <2>2
  <1>4. CASE Stop(p)
    BY <1>4 DEF Stop, shared
  <1>5. CASE Exit(p) \/ Crash(p)
    BY <1>5 DEF Exit, Crash, Gone, Goto
  <1>6. CASE StartupOver(p)
    BY <1>6 DEF StartupOver, Goto, shared, condition
  <1>7. CASE Check(p)
    BY <1>7 DEF Check, Goto, shared
  <1>8. CASE Wake(p)
    BY <1>8 DEF Wake, Goto, shared, condition
  <1>9. CASE DebounceOver(p)
    BY <1>9 DEF DebounceOver, Goto, shared, condition
  <1>10. CASE Claim(p)
    BY <1>10 DEF Claim, Goto, shared
  <1>11. CASE Read(p)
    BY <1>11 DEF Read, Goto, shared, condition
  <1>12. CASE SetGauge(p)
    BY <1>12 DEF SetGauge, Goto, condition
  <1>13. CASE RefreshFails(p)
    BY <1>13 DEF RefreshFails, Goto, condition
  <1> QED
    BY <1>1, <1>2, <1>3, <1>4, <1>5, <1>6, <1>7, <1>8, <1>9, <1>10, <1>11, <1>12,
       <1>13
    DEF Run

LEMMA WorkerStep ==
  ASSUME WorkerInv, [Next]_vars
  PROVE  WorkerInv'
  <1>1. Types'
    BY WorkerTypes DEF WorkerInv
  <1>2. CASE Next
    <2>1. PICK p \in Processes :
            \/ StartServices(p) \/ Commit(p) \/ Request(p) \/ Stop(p) \/ Exit(p)
            \/ Crash(p) \/ Run(p)
      BY <1>2 DEF Next
    <2>2. \A q \in Processes : ProcessInv(q)'
      BY <2>1, OwnStep, OthersStep DEF WorkerInv
    <2> QED
      BY <1>1, <2>2 DEF WorkerInv
  <1>3. CASE UNCHANGED vars
    BY <1>1, <1>3 DEF WorkerInv, ProcessInv, Covered, vars, shared, condition
  <1> QED
    BY <1>2, <1>3

\* The invariant holds of every behaviour.
LEMMA WorkerInvariant == Spec => []WorkerInv
  <1>1. WorkerInv /\ [Next]_vars => WorkerInv'
    BY WorkerStep
  <1> QED
    BY <1>1, WorkerInit, PTL DEF Spec

\* However writes, requests, refreshes, failures and restarts interleave, a
\* blocked worker has counted the last write of its process, unless its last
\* refresh failed.
THEOREM WorkerMissesNothing == Spec => []NoWriteMissed
  <1>1. WorkerInv => NoWriteMissed
    BY DEF WorkerInv, ProcessInv, Covered, Types, NoWriteMissed, Quiescent
  <1> QED
    BY <1>1, WorkerInvariant, PTL

\* A worker that is blocked with no notification under way has no request left
\* to handle, and stop() has not been called: the notification of a request or
\* of stop() never falls between the test of the predicate and the wait.
THEOREM WakeupsArrive == Spec => []NoWakeupLost
  <1>1. WorkerInv => NoWakeupLost
    BY DEF WorkerInv, ProcessInv, NoWakeupLost
  <1> QED
    BY <1>1, WorkerInvariant, PTL

-----------------------------------------------------------------------------
(* After stop().                                                           *)

StartsNothing == \A p \in Processes : stopped[p] /\ pc[p] # "read" => pc'[p] # "read"

\* Only Claim enters "read", and only its own worker's.
LEMMA StoppedStep ==
  ASSUME Types, [Next]_vars
  PROVE  StartsNothing
  <1> SUFFICES ASSUME NEW q \in Processes, stopped[q], pc[q] # "read"
               PROVE  pc'[q] # "read"
    BY DEF StartsNothing
  <1> USE DEF Types
  <1>1. CASE UNCHANGED vars
    BY <1>1 DEF vars
  <1>2. ASSUME NEW p \in Processes, StartServices(p) \/ Exit(p) \/ Crash(p)
        PROVE  pc'[q] # "read"
    BY <1>2 DEF StartServices, Exit, Crash, Gone, Goto
  <1>3. ASSUME NEW p \in Processes, Commit(p) \/ Request(p) \/ Stop(p)
        PROVE  pc'[q] # "read"
    BY <1>3 DEF Commit, Request, Stop
  <1>4. ASSUME NEW p \in Processes,
               StartupOver(p) \/ Check(p) \/ Wake(p) \/ DebounceOver(p)
        PROVE  pc'[q] # "read"
    BY <1>4 DEF StartupOver, Check, Wake, DebounceOver, Goto
  <1>5. ASSUME NEW p \in Processes, Claim(p)
        PROVE  pc'[q] # "read"
    BY <1>5 DEF Claim, Goto
  <1>6. ASSUME NEW p \in Processes, Read(p) \/ SetGauge(p) \/ RefreshFails(p)
        PROVE  pc'[q] # "read"
    BY <1>6 DEF Read, SetGauge, RefreshFails, Goto
  <1> QED
    BY <1>1, <1>2, <1>3, <1>4, <1>5, <1>6 DEF Next, Run

\* Once stop() has left its critical section, no step of any thread of any
\* process begins another refresh in its worker, whichever of its waits the
\* call interrupted.
THEOREM StopIsFinal == Spec => StoppedStartsNothing
  <1>1. Types /\ [Next]_vars => [StartsNothing]_vars
    BY StoppedStep
  <1>2. WorkerInv => Types
    BY DEF WorkerInv
  <1>3. Spec => [][StartsNothing]_vars
    BY <1>1, <1>2, WorkerInvariant, PTL DEF Spec
  <1> QED
    BY <1>3 DEF StartsNothing, StoppedStartsNothing

-----------------------------------------------------------------------------
(* Bounds.                                                                 *)

\* Requests made and requests to come are at most the two of the start and one
\* for each write; nothing is handled, captured or counted before it is there.
ProcessBounds(p) ==
  /\ owing[p] <= written + 1
  /\ generation[p] + owing[p] <= written + 2
  /\ captured[p] <= generation[p]
  /\ pc[p] = "off" => captured[p] = 0
  /\ seen[p] <= written

Bounds ==
  /\ WorkerInv
  /\ written <= MaxWrites
  /\ gauge \in Nat /\ gauge <= written
  /\ exits \in Nat
  /\ failures \in 0..MaxFailures
  /\ \A p \in Processes : ProcessBounds(p)

LEMMA BoundsStep ==
  ASSUME Bounds, [Next]_vars
  PROVE  Bounds'
  <1> USE MetricsAssumption
  <1>1. WorkerInv'
    BY WorkerStep DEF Bounds
  <1>2. CASE UNCHANGED vars
    BY <1>1, <1>2 DEF Bounds, ProcessBounds, vars, shared, condition
  <1>3. ASSUME NEW p \in Processes,
               \/ StartServices(p) \/ Commit(p) \/ Request(p) \/ Stop(p) \/ Exit(p)
               \/ Crash(p) \/ Run(p)
        PROVE  Bounds'
    <2> USE DEF Bounds, WorkerInv, Types, ProcessBounds, Goto
    <2>1. CASE StartServices(p)
      BY <1>1, <2>1 DEF StartServices, shared
    <2>2. CASE Commit(p)
      BY <1>1, <2>2 DEF Commit, condition
    <2>3. CASE Request(p)
      BY <1>1, <2>3 DEF Request, shared
    <2>4. CASE Stop(p)
      BY <1>1, <2>4 DEF Stop, shared
    <2>5. CASE Exit(p) \/ Crash(p)
      <3>1. Gone(p)
        BY <2>5 DEF Exit, Crash
      <3>2. \A q \in Processes : ProcessBounds(q)'
        BY <3>1 DEF Gone
      <3> QED
        BY <1>1, <3>1, <3>2 DEF Gone
    <2>6. CASE StartupOver(p) \/ Wake(p) \/ DebounceOver(p)
      BY <1>1, <2>6 DEF StartupOver, Wake, DebounceOver, shared, condition
    <2>7. CASE Check(p)
      BY <1>1, <2>7 DEF Check, shared
    <2>8. CASE Claim(p)
      BY <1>1, <2>8 DEF Claim, shared
    <2>9. CASE Read(p)
      BY <1>1, <2>9 DEF Read, shared, condition
    <2>10. CASE SetGauge(p)
      BY <1>1, <2>10 DEF SetGauge, condition
    <2>11. CASE RefreshFails(p)
      BY <1>1, <2>11 DEF RefreshFails, condition
    <2> QED
      BY <1>3, <2>1, <2>2, <2>3, <2>4, <2>5, <2>6, <2>7, <2>8, <2>9, <2>10, <2>11
      DEF Run
  <1> QED
    BY <1>2, <1>3 DEF Next

\* No counter of the worker or its callers leaves its range: a process makes at
\* most one request for each write besides the two of its start.
THEOREM TypeCorrect == Spec => []TypeOK
  <1>1. Init => Bounds
    BY WorkerInit, MetricsAssumption DEF Init, Bounds, ProcessBounds
  <1>2. Bounds => TypeOK
    BY MetricsAssumption
    DEF Bounds, ProcessBounds, WorkerInv, ProcessInv, Types, PCs, TypeOK
  <1> QED
    BY <1>1, <1>2, BoundsStep, PTL DEF Spec
=============================================================================
