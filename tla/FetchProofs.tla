----------------------------- MODULE FetchProofs -----------------------------
(***************************************************************************)
(* Proofs about Fetch, for any number of threads and any settings: the     *)
(* retry budget is never overdrawn, and fetch() keeps its promise.         *)
(***************************************************************************)
EXTENDS Fetch, FiniteSetTheorems, TLAPS

-----------------------------------------------------------------------------
(* The budget.                                                             *)

PCs == Ended \cup Timed \cup {"limiter", "made"}

BudgetTypes ==
  /\ cached \in Threads \cup {NoBucket}
  /\ tokens \in [Threads -> Nat]
  /\ started \in [Threads -> Nat]
  /\ spent \in [Threads -> Nat]
  /\ pc \in [Threads -> PCs]
  /\ bucket \in [Threads -> Threads \cup {NoBucket}]

\* Whoever is in the loop holds a Bucket, and whoever holds one has cached it,
\* or found another one cached: so no Bucket in use is ever filled up again.
BucketsCached ==
  /\ \A t \in Threads : pc[t] \in Timed => bucket[t] \in Threads
  /\ cached = NoBucket => \A t \in Threads : pc[t] \notin Timed /\ spent[t] = 0

BudgetInv == BudgetTypes /\ BucketsCached /\ RetriesWithinBudget

LEMMA Distribute ==
  ASSUME NEW m \in Nat, NEW n \in Nat
  PROVE  m * (n + 1) = m * n + m /\ m * n \in Nat
  OBVIOUS

LEMMA BudgetInit == Init => BudgetInv
  BY FetchAssumption, Distribute
  DEF Init, BudgetInv, BudgetTypes, BucketsCached, RetriesWithinBudget, PCs, Ended, Timed

\* Refilling a Bucket adds at most what the fetch is credited with.
LEMMA AddKeepsBudget ==
  ASSUME BudgetTypes, RetriesWithinBudget, NEW b \in Threads, add(b)
  PROVE  /\ tokens' \in [Threads -> Nat]
         /\ started' \in [Threads -> Nat]
         /\ RetriesWithinBudget'
  <1>1. /\ Capacity * Unit \in Nat
        /\ Refill * (started[b] + 1) = Refill * started[b] + Refill
        /\ Refill * started[b] \in Nat
    BY FetchAssumption, Distribute DEF BudgetTypes
  <1>2. tokens' \in [Threads -> Nat] /\ started' \in [Threads -> Nat]
    BY <1>1, FetchAssumption DEF add, Smaller, BudgetTypes
  <1>3. ASSUME NEW d \in Threads
        PROVE  tokens'[d] + Unit * spent'[d] <= Capacity * Unit + Refill * started'[d]
    <2>1. CASE d = b
      <3>1. /\ tokens'[b] <= tokens[b] + Refill
            /\ tokens'[b] \in Nat
            /\ started'[b] = started[b] + 1
            /\ spent'[b] = spent[b]
        BY <1>1, <1>2, FetchAssumption DEF add, Smaller, BudgetTypes
      <3>2. Unit * spent[b] \in Nat
        BY FetchAssumption, Distribute DEF BudgetTypes
      <3>3. tokens[b] + Unit * spent[b] <= Capacity * Unit + Refill * started[b]
        BY DEF RetriesWithinBudget
      <3>4. tokens[b] \in Nat /\ Refill \in Nat
        BY FetchAssumption DEF BudgetTypes
      <3> QED
        BY <1>1, <2>1, <3>1, <3>2, <3>3, <3>4
    <2>2. CASE d # b
      BY <2>2 DEF add, BudgetTypes, RetriesWithinBudget
    <2> QED
      BY <2>1, <2>2
  <1> QED
    BY <1>2, <1>3 DEF RetriesWithinBudget

\* A retry that is admitted takes a whole token out of the Bucket.
LEMMA ConsumeKeepsBudget ==
  ASSUME BudgetTypes, RetriesWithinBudget, NEW b \in Threads, consume(b)
  PROVE  /\ tokens' \in [Threads -> Nat]
         /\ spent' \in [Threads -> Nat]
         /\ RetriesWithinBudget'
  <1>1. tokens' \in [Threads -> Nat] /\ spent' \in [Threads -> Nat]
    BY FetchAssumption DEF consume, can_consume, BudgetTypes
  <1>2. ASSUME NEW d \in Threads
        PROVE  tokens'[d] + Unit * spent'[d] <= Capacity * Unit + Refill * started'[d]
    <2>1. CASE d = b
      <3>1. /\ tokens'[b] = tokens[b] - Unit
            /\ spent'[b] = spent[b] + 1
            /\ started'[b] = started[b]
        BY DEF consume, BudgetTypes
      <3>2. /\ Unit * (spent[b] + 1) = Unit * spent[b] + Unit
            /\ Unit * spent[b] \in Nat
        BY FetchAssumption, Distribute DEF BudgetTypes
      <3>3. tokens[b] + Unit * spent[b] <= Capacity * Unit + Refill * started[b]
        BY DEF RetriesWithinBudget
      <3>4. tokens[b] \in Nat /\ Unit \in Nat
        BY FetchAssumption DEF BudgetTypes
      <3> QED
        BY <2>1, <3>1, <3>2, <3>3, <3>4
    <2>2. CASE d # b
      BY <2>2 DEF consume, BudgetTypes, RetriesWithinBudget
    <2> QED
      BY <2>1, <2>2
  <1> QED
    BY <1>1, <1>2 DEF RetriesWithinBudget

\* A new Bucket is full, and nothing was consumed from it.
LEMMA CreateKeepsBudget ==
  ASSUME BudgetInv, NEW t \in Threads, LimiterMiss(t)
  PROVE  tokens' \in [Threads -> Nat] /\ RetriesWithinBudget'
  <1>1. Capacity * Unit \in Nat
    BY FetchAssumption, Distribute
  <1>2. tokens' \in [Threads -> Nat]
    BY <1>1 DEF LimiterMiss, BudgetInv, BudgetTypes
  <1>3. ASSUME NEW d \in Threads
        PROVE  tokens'[d] + Unit * spent'[d] <= Capacity * Unit + Refill * started'[d]
    <2>1. CASE d = t
      <3>1. tokens'[t] = Capacity * Unit /\ spent'[t] = 0 /\ started'[t] = started[t]
        BY DEF LimiterMiss, BudgetInv, BudgetTypes, BucketsCached
      <3>2. Unit * 0 = 0 /\ Refill * started[t] \in Nat
        BY FetchAssumption, Distribute DEF BudgetInv, BudgetTypes
      <3> QED
        BY <1>1, <2>1, <3>1, <3>2
    <2>2. CASE d # t
      BY <2>2 DEF LimiterMiss, BudgetInv, BudgetTypes, RetriesWithinBudget
    <2> QED
      BY <2>1, <2>2
  <1> QED
    BY <1>2, <1>3 DEF RetriesWithinBudget

\* A step that leaves the budget alone and brings nobody into the loop.
LEMMA QuietStep ==
  ASSUME BudgetInv, UNCHANGED <<cached, tokens, started, spent, bucket>>,
         NEW t \in Threads, NEW q \in PCs, pc' = [pc EXCEPT ![t] = q],
         q \in Timed => pc[t] \in Timed
  PROVE  BudgetInv'
  <1>1. BudgetTypes'
    BY DEF BudgetInv, BudgetTypes
  <1>2. BucketsCached'
    BY DEF BudgetInv, BudgetTypes, BucketsCached
  <1>3. RetriesWithinBudget'
    BY DEF BudgetInv, RetriesWithinBudget
  <1> QED
    BY <1>1, <1>2, <1>3 DEF BudgetInv

\* A thread enters the loop with a Bucket that has been cached, or now is.
LEMMA EnterLoopStep ==
  ASSUME BudgetInv, NEW t \in Threads, NEW b \in Threads, EnterLoop(t, b),
         cached' \in Threads
  PROVE  BudgetInv'
  <1>1. /\ tokens' \in [Threads -> Nat]
        /\ started' \in [Threads -> Nat]
        /\ RetriesWithinBudget'
    BY AddKeepsBudget DEF EnterLoop, BudgetInv
  <1>2. BudgetTypes'
    BY <1>1 DEF EnterLoop, add, BudgetInv, BudgetTypes, PCs, Timed
  <1>3. BucketsCached'
    BY FetchAssumption DEF EnterLoop, BudgetInv, BudgetTypes, BucketsCached
  <1> QED
    BY <1>1, <1>2, <1>3 DEF BudgetInv

LEMMA BudgetStep ==
  ASSUME BudgetInv, [Next]_vars
  PROVE  BudgetInv'
  <1>1. ASSUME NEW t \in Threads, Start(t)
        PROVE  BudgetInv'
    BY <1>1, QuietStep DEF Start, budget, PCs, Timed
  <1>2. ASSUME NEW t \in Threads, LimiterHit(t)
        PROVE  BudgetInv'
    BY <1>2, EnterLoopStep DEF LimiterHit, BudgetInv, BudgetTypes
  <1>3. ASSUME NEW t \in Threads, LimiterMiss(t)
        PROVE  BudgetInv'
    <2>1. BudgetTypes'
      BY <1>3, CreateKeepsBudget DEF LimiterMiss, BudgetInv, BudgetTypes, PCs
    <2>2. BucketsCached'
      BY <1>3 DEF LimiterMiss, BudgetInv, BudgetTypes, BucketsCached, Timed
    <2> QED
      BY <1>3, <2>1, <2>2, CreateKeepsBudget DEF BudgetInv
  <1>4. ASSUME NEW t \in Threads, LimiterCache(t)
        PROVE  BudgetInv'
    BY <1>4, EnterLoopStep DEF LimiterCache, BudgetInv, BudgetTypes
  <1>5. ASSUME NEW t \in Threads,
               \/ Exhausted(t) \/ TooLate(t) \/ BudgetExhausted(t) \/ WakeTooLate(t)
               \/ Raise(t)
        PROVE  BudgetInv'
    BY <1>5, QuietStep
    DEF Exhausted, TooLate, BudgetExhausted, WakeTooLate, Raise, Return, Leave,
        budget, PCs, Ended, Timed
  <1>6. ASSUME NEW t \in Threads, SendNow(t) \/ WakeAndSend(t) \/ PlanRetry(t)
        PROVE  BudgetInv'
    BY <1>6, QuietStep
    DEF SendNow, WakeAndSend, PlanRetry, AtTop, Transmit, budget, PCs, Timed
  <1>7. ASSUME NEW t \in Threads, PayRetry(t)
        PROVE  BudgetInv'
    <2>1. bucket[t] \in Threads /\ cached # NoBucket
      BY <1>7, FetchAssumption DEF PayRetry, BudgetInv, BucketsCached, Timed
    <2>2. /\ tokens' \in [Threads -> Nat]
          /\ spent' \in [Threads -> Nat]
          /\ RetriesWithinBudget'
      BY <1>7, <2>1, ConsumeKeepsBudget DEF PayRetry, BudgetInv
    <2>3. PICK q \in {"returned", "nap"} : pc' = [pc EXCEPT ![t] = q]
      BY <1>7 DEF PayRetry, Leave, FallAsleep
    <2>4. UNCHANGED <<cached, bucket, started>>
      BY <1>7 DEF PayRetry, consume, Leave, FallAsleep
    <2>5. BudgetTypes'
      BY <2>2, <2>3, <2>4 DEF BudgetInv, BudgetTypes, PCs, Ended, Timed
    <2>6. BucketsCached'
      <3>1. pc[t] \in Timed
        BY <1>7 DEF PayRetry, Timed
      <3> QED
        BY <2>1, <2>3, <2>4, <3>1 DEF BudgetInv, BudgetTypes, BucketsCached
    <2> QED
      BY <2>2, <2>5, <2>6 DEF BudgetInv
  <1>8. ASSUME NEW t \in Threads, NEW a \in Answers, NEW header \in RetryAfters,
               Receive(t, a, header)
        PROVE  BudgetInv'
    <2>1. PICK q \in {"returned", "top"} : pc' = [pc EXCEPT ![t] = q]
      BY <1>8 DEF Receive, Leave
    <2>2. UNCHANGED <<cached, tokens, started, spent, bucket>> /\ pc[t] \in Timed
      BY <1>8 DEF Receive, Leave, budget, Timed
    <2> QED
      BY <2>1, <2>2, QuietStep DEF PCs, Ended, Timed
  <1>9. ASSUME UNCHANGED <<cached, tokens, started, spent, bucket, pc>>
        PROVE  BudgetInv'
    BY <1>9 DEF BudgetInv, BudgetTypes, BucketsCached, RetriesWithinBudget
  <1>10. CASE Tick
    BY <1>9, <1>10 DEF Tick, budget
  <1>11. CASE UNCHANGED vars
    BY <1>9, <1>11 DEF vars, budget
  <1> QED
    BY <1>1, <1>2, <1>3, <1>4, <1>5, <1>6, <1>7, <1>8, <1>10, <1>11
    DEF Next, Prepare, Iterate, Respond

\* Threads that refill and consume a Bucket in any order, and that race to
\* create it, never get more retries out of it than its capacity plus the
\* refills of the fetches that used it.
THEOREM BudgetIsKept == Spec => []RetriesWithinBudget
  <1>1. BudgetInv => RetriesWithinBudget
    BY DEF BudgetInv
  <1>2. BudgetInv /\ [Next]_vars => BudgetInv'
    BY BudgetStep
  <1> QED
    BY <1>1, <1>2, BudgetInit, PTL DEF Spec

-----------------------------------------------------------------------------
(* The promise.                                                            *)

\* A retry is only planned while attempts are left.
LoopInv ==
  /\ pc \in [Threads -> PCs]
  /\ attempt \in [Threads -> Nat]
  /\ result = [t \in Threads |-> result[t]]
  /\ \A t \in Threads : pc[t] \in {"pay", "nap"} => attempt[t] <= TotalRetries

LEMMA LoopInit == Init => LoopInv
  BY DEF Init, LoopInv, PCs, Ended

LEMMA LoopStep ==
  ASSUME LoopInv, [Next]_vars
  PROVE  LoopInv'
  <1> USE DEF LoopInv
  <1>1. ASSUME NEW t \in Threads, Start(t)
        PROVE  LoopInv'
    BY <1>1 DEF Start, PCs
  <1>2. ASSUME NEW t \in Threads, NEW q \in PCs, pc' = [pc EXCEPT ![t] = q],
               q \in {"pay", "nap"} => attempt[t] <= TotalRetries,
               UNCHANGED <<attempt, result>>
        PROVE  LoopInv'
    BY <1>2
  <1>3. ASSUME NEW t \in Threads, Prepare(t)
        PROVE  LoopInv'
    BY <1>2, <1>3
    DEF Prepare, LimiterHit, LimiterMiss, LimiterCache, EnterLoop, PCs, Timed
  <1>4. ASSUME NEW t \in Threads,
               \/ Exhausted(t) \/ TooLate(t) \/ BudgetExhausted(t) \/ WakeTooLate(t)
               \/ Raise(t)
        PROVE  LoopInv'
    BY <1>2, <1>4
    DEF Exhausted, TooLate, BudgetExhausted, WakeTooLate, Raise, Return, Leave, PCs, Ended
  <1>5. ASSUME NEW t \in Threads, SendNow(t) \/ WakeAndSend(t)
        PROVE  LoopInv'
    BY <1>5 DEF SendNow, WakeAndSend, Transmit, PCs, Timed
  <1>6. ASSUME NEW t \in Threads, PlanRetry(t)
        PROVE  LoopInv'
    BY <1>2, <1>6 DEF PlanRetry, AtTop, PCs, Timed
  <1>7. ASSUME NEW t \in Threads, PayRetry(t)
        PROVE  LoopInv'
    BY <1>2, <1>7 DEF PayRetry, Leave, FallAsleep, PCs, Timed, Ended
  <1>8. ASSUME NEW t \in Threads, NEW a \in Answers, NEW header \in RetryAfters,
               Receive(t, a, header)
        PROVE  LoopInv'
    BY <1>8 DEF Receive, Leave, PCs, Timed, Ended
  <1>9. CASE Tick
    BY <1>9 DEF Tick
  <1>10. CASE UNCHANGED vars
    BY <1>10 DEF vars
  <1> QED
    BY <1>1, <1>3, <1>4, <1>5, <1>6, <1>7, <1>8, <1>9, <1>10
    DEF Next, Iterate, Respond

phase == [t \in Threads |-> PhaseOf(pc[t])]

LEMMA PhaseStep ==
  ASSUME LoopInv, NEW t \in Threads, NEW q \in PCs, pc' = [pc EXCEPT ![t] = q]
  PROVE  phase' = [phase EXCEPT ![t] = PhaseOf(q)]
  BY DEF phase, LoopInv

LEMMA Phases ==
  /\ \A q \in Ended \cup {"sent"} : PhaseOf(q) = q
  /\ \A q \in {"limiter", "made", "top", "pay", "nap"} : PhaseOf(q) = "running"
  BY DEF PhaseOf, Ended

LEMMA SameOperators ==
  /\ \A error : Promise!ErrorBody(error) = ErrorBody(error)
  /\ \A status : Promise!retryable(status) = retryable(status)
  BY DEF Promise!ErrorBody, ErrorBody, Promise!NoToken, NoToken,
         Promise!retryable, retryable, Promise!NoStatus, NoStatus

\* Every step of fetch() is a step of its abstract specification, or none.
LEMMA Simulation ==
  ASSUME LoopInv, [Next]_vars
  PROVE  [Promise!Next]_(Promise!vars)
  <1> USE DEF LoopInv
  <1>1. ASSUME NEW t \in Threads, Start(t)
        PROVE  Promise!Begin(t)
    <2>1. phase[t] \in {"idle", "returned", "raised"}
      BY <1>1, Phases DEF Start, phase, Ended
    <2>2. pc' = [pc EXCEPT ![t] = "limiter"] /\ "limiter" \in PCs
      BY <1>1 DEF Start, PCs
    <2>3. phase' = [phase EXCEPT ![t] = PhaseOf("limiter")]
      BY <2>2, PhaseStep
    <2>4. PhaseOf("limiter") = "running"
      BY Phases
    <2>5. /\ attempt' = [attempt EXCEPT ![t] = 0]
          /\ result' = [result EXCEPT ![t] = Promise!Unknown]
      BY <1>1, SameOperators DEF Start, Promise!Unknown
    <2> QED
      BY <2>1, <2>3, <2>4, <2>5 DEF Promise!Begin, phase
  <1>2. ASSUME NEW t \in Threads, NEW q \in {"made", "top", "pay", "nap"},
               pc' = [pc EXCEPT ![t] = q],
               pc[t] \in {"limiter", "made", "top", "pay"},
               UNCHANGED <<attempt, result>>
        PROVE  UNCHANGED Promise!vars
    <2>1. phase' = [phase EXCEPT ![t] = "running"] /\ phase[t] = "running"
      BY <1>2, PhaseStep, Phases DEF PCs, Timed, phase
    <2>2. phase' = phase
      BY <2>1 DEF phase
    <2> QED
      BY <1>2, <2>2 DEF Promise!vars, phase
  <1>3. ASSUME NEW t \in Threads, Prepare(t) \/ PlanRetry(t)
        PROVE  UNCHANGED Promise!vars
    BY <1>2, <1>3
    DEF Prepare, LimiterHit, LimiterMiss, LimiterCache, EnterLoop, PlanRetry, AtTop
  <1>4. ASSUME NEW t \in Threads, pc' = [pc EXCEPT ![t] = "returned"],
               pc[t] \in {"top", "pay", "nap"}, UNCHANGED <<attempt, result>>
        PROVE  Promise!GiveUp(t)
    <2>1. phase[t] = "running" /\ phase' = [phase EXCEPT ![t] = "returned"]
      BY <1>4, PhaseStep, Phases DEF phase, PCs, Ended
    <2> QED
      BY <1>4, <2>1 DEF Promise!GiveUp, phase
  <1>5. ASSUME NEW t \in Threads,
               Exhausted(t) \/ TooLate(t) \/ BudgetExhausted(t) \/ WakeTooLate(t)
        PROVE  Promise!GiveUp(t)
    BY <1>4, <1>5
    DEF Exhausted, TooLate, AtTop, BudgetExhausted, WakeTooLate, Return, Leave
  <1>6. ASSUME NEW t \in Threads, PayRetry(t)
        PROVE  Promise!GiveUp(t) \/ UNCHANGED Promise!vars
    BY <1>2, <1>4, <1>6 DEF PayRetry, Leave, FallAsleep
  <1>7. ASSUME NEW t \in Threads, SendNow(t) \/ WakeAndSend(t)
        PROVE  Promise!Send(t)
    <2>1. phase[t] = "running" /\ phase' = [phase EXCEPT ![t] = "sent"]
      BY <1>7, PhaseStep, Phases
      DEF phase, SendNow, WakeAndSend, AtTop, Transmit, PCs, Timed
    <2>2. attempt[t] <= TotalRetries
      BY <1>7 DEF SendNow, WakeAndSend, AtTop
    <2> QED
      BY <1>7, <2>1, <2>2 DEF Promise!Send, SendNow, WakeAndSend, Transmit, phase
  <1>8. ASSUME NEW t \in Threads, NEW a \in Answers, NEW header \in RetryAfters,
               Receive(t, a, header)
        PROVE  Promise!Receive(t, a)
    <2>1. pc' = [pc EXCEPT ![t] = IF retryable(a.status) THEN "top" ELSE "returned"]
      BY <1>8 DEF Receive, Leave, token_endpoint_outcome
    <2>2. /\ phase[t] = "sent"
          /\ phase' = [phase EXCEPT ![t] =
               IF retryable(a.status) THEN "running" ELSE "returned"]
      BY <1>8, <2>1, PhaseStep, Phases DEF Receive, phase, PCs, Ended, Timed
    <2>3. result' = [result EXCEPT ![t] =
            IF retryable(a.status) THEN ErrorBody("temporarily_unavailable") ELSE a.body]
      BY <1>8 DEF Receive, fetch_result, token_endpoint_outcome
    <2>4. UNCHANGED attempt
      BY <1>8 DEF Receive, Leave
    <2> QED
      BY <2>2, <2>3, <2>4, SameOperators DEF Promise!Receive, phase
  <1>9. ASSUME NEW t \in Threads, Raise(t)
        PROVE  Promise!Raise(t)
    <2>1. phase[t] = "sent" /\ phase' = [phase EXCEPT ![t] = "raised"]
      BY <1>9, PhaseStep, Phases DEF Raise, Leave, phase, PCs, Ended
    <2> QED
      BY <1>9, <2>1 DEF Promise!Raise, Raise, Leave, phase
  <1>10. ASSUME Tick \/ UNCHANGED vars
         PROVE  UNCHANGED Promise!vars
    BY <1>10 DEF Tick, vars, Promise!vars
  <1> QED
    BY <1>1, <1>3, <1>5, <1>6, <1>7, <1>8, <1>9, <1>10
    DEF Next, Iterate, Respond, Promise!Next

\* The retry loop with its budget, deadline, jitter and shared Buckets
\* implements the abstract specification of fetch().
THEOREM FetchImplementsSpec == Spec => KeepsPromise
  <1>1. Init => Promise!Init
    BY Phases, SameOperators DEF Init, Promise!Init, Promise!Unknown, Ended
  <1>2. LoopInv /\ [Next]_vars => LoopInv'
    BY LoopStep
  <1>3. LoopInv /\ [Next]_vars => [Promise!Next]_(Promise!vars)
    BY Simulation
  <1> QED
    BY <1>1, <1>2, <1>3, LoopInit, PTL DEF Spec, KeepsPromise, Promise!Spec

-----------------------------------------------------------------------------
(* The clock and the counters of one call.                                 *)

CallTypes ==
  /\ pc \in [Threads -> PCs]
  /\ attempt \in [Threads -> Nat]
  /\ left \in [Threads -> -1..TotalTimeout]
  /\ remaining \in [Threads -> 0..TotalTimeout]
  /\ retry \in [Threads -> Nat]
  /\ owed \in [Threads -> Nat]
  /\ leeway \in [Threads -> 0..(Second - 1)]
  /\ nap \in [Threads -> 0..TotalTimeout]
  /\ completed \in [Threads -> Nat]
  /\ paid \in [Threads -> Nat]

\* A call pays for a retry before it sends it, and sends at most one request
\* for each time it paid.
CountedOf(t) ==
  /\ attempt[t] <= TotalRetries + 1
  /\ pc[t] \in {"limiter", "made"} => attempt[t] = 0
  /\ pc[t] \in {"pay", "nap"} => attempt[t] > 0 /\ attempt[t] <= TotalRetries
  /\ pc[t] = "sent" => attempt[t] > 0
  /\ attempt[t] = 0 => paid[t] = 0 /\ retry[t] = 0
  /\ attempt[t] > 0 /\ pc[t] \in {"top", "pay", "sent"} => paid[t] < attempt[t]
  /\ pc[t] = "nap" => paid[t] <= attempt[t] /\ completed[t] < paid[t]
  /\ paid[t] <= TotalRetries
  /\ completed[t] <= paid[t]

\* But for the fraction that a date loses, what is left of a Retry-After is
\* covered by the delay that is planned, then by what is left of the sleep; it
\* is never owed by anyone else.
WaitingOf(t) ==
  /\ pc[t] \in {"top", "pay"} => owed[t] <= retry[t] + leeway[t]
  /\ pc[t] = "nap" => owed[t] <= nap[t] + leeway[t]
  /\ pc[t] \notin {"top", "pay", "nap"} => owed[t] = 0

CallInv ==
  /\ CallTypes
  /\ \A t \in Threads : CountedOf(t)
  /\ \A t \in Threads : WaitingOf(t)

LEMMA CallInit == Init => CallInv
  BY FetchAssumption
  DEF Init, CallInv, CallTypes, CountedOf, WaitingOf, PCs, Ended

LEMMA Backoff ==
  ASSUME NEW i \in 1..TotalRetries
  PROVE  backoff(i) \in Nat /\ (BackoffFactor > 0 => backoff(i) > 0)
  <1>1. 2^i \in Nat /\ 2^i > 1
    BY PowersOfTwo
  <1>2. ASSUME NEW m \in Nat, m > 1
        PROVE  /\ (m - 1) * BackoffFactor \in Nat
               /\ BackoffFactor > 0 => (m - 1) * BackoffFactor > 0
    BY <1>2, FetchAssumption
  <1> QED
    BY <1>1, <1>2 DEF backoff

LEMMA Shares ==
  ASSUME NEW m \in Nat, NEW n \in Nat
  PROVE  (m * n) \div 100 \in Nat
  OBVIOUS

\* Jitter keeps a sleep from being negative, and Retry-After is its floor.
LEMMA Sleep ==
  ASSUME CallTypes, NEW t \in Threads, delay_before(t) \in Nat,
         NEW d \in sleep_for(t)
  PROVE  d \in Nat /\ d >= retry[t]
  <1>1. PICK e \in jitter_delay(delay_before(t), retry[t] > 0) :
          d = IF retry[t] > 0 THEN Larger(retry[t], e) ELSE e
    BY DEF sleep_for
  <1>2. PICK low \in Nat, high \in Nat :
          e \in ((delay_before(t) * low) \div 100)..((delay_before(t) * high + 99) \div 100)
    BY <1>1, FetchAssumption DEF jitter_delay, Larger, Smaller
  <1>3. e \in Nat
    <2>1. (delay_before(t) * low) \div 100 \in Nat
      BY Shares
    <2> QED
      BY <1>2, <2>1
  <1>4. retry[t] \in Nat
    BY DEF CallTypes
  <1> QED
    BY <1>1, <1>3, <1>4 DEF Larger

\* No more of a Retry-After than its leeway is lost in whole seconds.
LEMMA Truncation ==
  ASSUME NEW d \in Nat
  PROVE  /\ whole_seconds(d) \in Nat
         /\ d - whole_seconds(d) \in 0..(Second - 1)
  <1> DEFINE q == d \div Second
             r == d % Second
  <1>1. Second \in Nat /\ Second > 0
    BY FetchAssumption
  <1>2. q \in Nat /\ r \in 0..(Second - 1) /\ d = Second * q + r
    BY <1>1, SMTT(30)
  <1>3. Second * q \in Nat
    BY <1>1, <1>2, SMTT(30)
  <1> QED
    BY <1>1, <1>2, <1>3 DEF whole_seconds

LEMMA RetryAfter ==
  ASSUME NEW header \in RetryAfters \cup {NoHeader}
  PROVE  /\ parse_retry(header) \in Nat
         /\ due(header) \in Nat
         /\ leeway_of(header) \in 0..(Second - 1)
         /\ due(header) <= parse_retry(header) + leeway_of(header)
  <1>1. CASE header.kind = "date"
    <2>1. due(header) \in Nat
      BY <1>1, FetchAssumption DEF due, Larger, NoHeader
    <2>2. PICK d \in Nat : d = due(header)
      BY <2>1
    <2>3. /\ whole_seconds(d) \in Nat
          /\ d - whole_seconds(d) \in 0..(Second - 1)
          /\ d - whole_seconds(d) <= d
      BY Truncation
    <2>4. parse_retry(header) = whole_seconds(d) /\ leeway_of(header) = Smaller(Second - 1, d)
      BY <1>1, <2>2 DEF parse_retry, leeway_of
    <2> QED
      BY <2>2, <2>3, <2>4, FetchAssumption DEF Smaller
  <1>2. CASE header.kind # "date"
    <2>1. due(header) \in Nat
      <3>1. CASE header.kind = "seconds"
        <4>1. header.value \in Nat
          BY <3>1, FetchAssumption DEF NoHeader
        <4>2. ASSUME NEW n \in Nat PROVE n * Second \in Nat
          BY FetchAssumption
        <4> QED
          BY <3>1, <4>1, <4>2 DEF due
      <3>2. CASE header.kind # "seconds"
        BY <1>2, <3>2 DEF due
      <3> QED
        BY <3>1, <3>2
    <2>2. parse_retry(header) = due(header) /\ leeway_of(header) = 0
      BY <1>2 DEF parse_retry, leeway_of
    <2> QED
      BY <2>1, <2>2, FetchAssumption
  <1> QED
    BY <1>1, <1>2

\* A step of one call moves the counters and timers of that call only.
OnlyCall(t) ==
  \A u \in Threads \ {t} :
    /\ pc'[u] = pc[u] /\ attempt'[u] = attempt[u] /\ retry'[u] = retry[u]
    /\ owed'[u] = owed[u] /\ leeway'[u] = leeway[u] /\ nap'[u] = nap[u]
    /\ completed'[u] = completed[u] /\ paid'[u] = paid[u]

LEMMA CallFrame ==
  ASSUME CallInv, NEW t \in Threads, OnlyCall(t), CallTypes',
         CountedOf(t)', WaitingOf(t)'
  PROVE  CallInv'
  <1>1. ASSUME NEW u \in Threads, u # t
        PROVE  CountedOf(u)' /\ WaitingOf(u)'
    BY <1>1 DEF OnlyCall, CallInv, CountedOf, WaitingOf
  <1> QED
    BY <1>1 DEF CallInv

LEMMA StartCall ==
  ASSUME CallInv, NEW t \in Threads, Start(t)
  PROVE  CallInv'
  <1>1. CallTypes'
    BY DEF Start, timers, CallInv, CallTypes, PCs
  <1>2. OnlyCall(t)
    BY DEF Start, timers, CallInv, CallTypes, OnlyCall
  <1>3. CountedOf(t)'
    BY FetchAssumption DEF Start, CallInv, CallTypes, CountedOf
  <1>4. WaitingOf(t)'
    BY DEF Start, timers, CallInv, CallTypes, WaitingOf, Ended
  <1> QED
    BY <1>1, <1>2, <1>3, <1>4, CallFrame

LEMMA PrepareCall ==
  ASSUME CallInv, NEW t \in Threads, Prepare(t)
  PROVE  CallInv'
  <1>1. /\ pc[t] \in {"limiter", "made"}
        /\ pc' = [pc EXCEPT ![t] = "made"] \/ pc' = [pc EXCEPT ![t] = "top"]
        /\ left' = left \/ left' = [left EXCEPT ![t] = TotalTimeout]
        /\ UNCHANGED <<attempt, remaining, retry, owed, leeway, nap, completed, paid>>
    BY DEF Prepare, LimiterHit, LimiterMiss, LimiterCache, EnterLoop, timers
  <1>2. CallTypes'
    BY <1>1, FetchAssumption DEF CallInv, CallTypes, PCs, Timed
  <1>3. OnlyCall(t)
    BY <1>1 DEF CallInv, CallTypes, OnlyCall
  <1>4. CountedOf(t)'
    BY <1>1 DEF CallInv, CallTypes, CountedOf
  <1>5. WaitingOf(t)'
    BY <1>1 DEF CallInv, CallTypes, CountedOf, WaitingOf
  <1> QED
    BY <1>2, <1>3, <1>4, <1>5, CallFrame

LEMMA LeaveCall ==
  ASSUME CallInv, NEW t \in Threads, NEW how \in {"returned", "raised"}, Leave(t, how),
         UNCHANGED paid, retry' \in [Threads -> Nat],
         \A u \in Threads \ {t} : retry'[u] = retry[u],
         attempt[t] = 0 => retry'[t] = 0
  PROVE  CallInv'
  <1>1. CallTypes'
    <2>1. /\ how \in PCs /\ TotalTimeout \in -1..TotalTimeout /\ 0 \in 0..TotalTimeout
          /\ 0 \in 0..(Second - 1)
      BY FetchAssumption DEF PCs, Ended
    <2> QED
      BY <2>1 DEF Leave, CallInv, CallTypes
  <1>2. OnlyCall(t)
    BY DEF Leave, CallInv, CallTypes, OnlyCall
  <1>3. CountedOf(t)'
    BY DEF Leave, CallInv, CallTypes, CountedOf
  <1>4. WaitingOf(t)'
    BY DEF Leave, CallInv, CallTypes, WaitingOf
  <1> QED
    BY <1>1, <1>2, <1>3, <1>4, CallFrame

LEMMA SendCall ==
  ASSUME CallInv, NEW t \in Threads, SendNow(t) \/ WakeAndSend(t)
  PROVE  CallInv' /\ owed[t] <= leeway[t]
  <1>1. /\ pc' = [pc EXCEPT ![t] = "sent"]
        /\ attempt' = [attempt EXCEPT ![t] = @ + 1]
        /\ owed' = [owed EXCEPT ![t] = 0]
        /\ leeway' = [leeway EXCEPT ![t] = 0]
        /\ UNCHANGED <<left, remaining, retry, nap, paid>>
    BY DEF SendNow, WakeAndSend, Transmit, timers
  <1>2. \/ /\ SendNow(t) /\ pc[t] = "top" /\ attempt[t] <= TotalRetries
           /\ UNCHANGED completed
        \/ /\ WakeAndSend(t) /\ pc[t] = "nap"
           /\ completed' = [completed EXCEPT ![t] = @ + 1]
    BY DEF SendNow, WakeAndSend, AtTop
  <1>3. CallTypes'
    BY <1>1, <1>2, FetchAssumption DEF CallInv, CallTypes, PCs, Timed
  <1>4. OnlyCall(t)
    BY <1>1, <1>2 DEF CallInv, CallTypes, OnlyCall
  <1>5. CountedOf(t)'
    BY <1>1, <1>2, FetchAssumption DEF CallInv, CallTypes, CountedOf
  <1>6. owed[t] <= leeway[t]
    <2>1. CASE WakeAndSend(t)
      BY <2>1, FetchAssumption DEF WakeAndSend, CallInv, CallTypes, WaitingOf
    <2>2. CASE SendNow(t)
      <3>1. /\ owed[t] <= retry[t] + leeway[t]
            /\ owed[t] \in Nat /\ retry[t] \in Nat /\ leeway[t] \in Nat
        BY <2>2, FetchAssumption DEF SendNow, AtTop, CallInv, CallTypes, WaitingOf
      <3>2. retry[t] = 0
        BY <2>2, <3>1 DEF SendNow, NoDelay, delay_before, CallInv, CountedOf
      <3> QED
        BY <3>1, <3>2
    <2> QED
      BY <2>1, <2>2
  <1>7. WaitingOf(t)'
    BY <1>1 DEF CallInv, CallTypes, WaitingOf
  <1> QED
    BY <1>3, <1>4, <1>5, <1>6, <1>7, CallFrame

LEMMA PlanCall ==
  ASSUME CallInv, NEW t \in Threads, PlanRetry(t)
  PROVE  CallInv'
  <1>1. /\ pc[t] = "top" /\ attempt[t] <= TotalRetries /\ attempt[t] # 0
        /\ delay_before(t) # 0 /\ delay_before(t) <= left[t]
        /\ pc' = [pc EXCEPT ![t] = "pay"]
        /\ remaining' = [remaining EXCEPT ![t] = left[t]]
        /\ UNCHANGED <<attempt, left, retry, owed, leeway, nap, completed, paid>>
    BY DEF PlanRetry, AtTop, NoDelay, timers
  <1>2. delay_before(t) \in Nat
    BY <1>1, Backoff, FetchAssumption DEF delay_before, CallInv, CallTypes
  <1>3. left[t] \in 0..TotalTimeout
    BY <1>1, <1>2, FetchAssumption DEF CallInv, CallTypes
  <1>4. CallTypes'
    BY <1>1, <1>3 DEF CallInv, CallTypes, PCs, Timed
  <1>5. OnlyCall(t)
    BY <1>1 DEF CallInv, CallTypes, OnlyCall
  <1>6. CountedOf(t)'
    BY <1>1 DEF CallInv, CallTypes, CountedOf
  <1>7. WaitingOf(t)'
    BY <1>1 DEF CallInv, CallTypes, WaitingOf
  <1> QED
    BY <1>4, <1>5, <1>6, <1>7, CallFrame

LEMMA PayCall ==
  ASSUME CallInv, NEW t \in Threads, PayRetry(t)
  PROVE  CallInv'
  <1>1. /\ pc[t] = "pay"
        /\ paid' = [paid EXCEPT ![t] = @ + 1]
        /\ UNCHANGED <<attempt, completed>>
        /\ retry' = retry \/ retry' = [retry EXCEPT ![t] = 0]
    BY DEF PayRetry, Leave, FallAsleep
  <1>2. PICK d \in sleep_for(t) :
          \/ Leave(t, "returned")
          \/ d <= remaining[t] /\ FallAsleep(t, d)
    BY DEF PayRetry
  <1>3. attempt[t] \in 1..TotalRetries
    BY <1>1, FetchAssumption DEF CallInv, CallTypes, CountedOf
  <1>4. delay_before(t) \in Nat
    BY <1>3, Backoff DEF delay_before, CallInv, CallTypes
  <1>5. d \in Nat /\ d >= retry[t]
    BY <1>4, Sleep DEF CallInv
  <1>6. CallTypes'
    <2>1. CASE Leave(t, "returned")
      BY <1>1, <2>1, FetchAssumption DEF Leave, CallInv, CallTypes, PCs, Ended
    <2>2. CASE d <= remaining[t] /\ FallAsleep(t, d)
      <3>1. d \in 0..TotalTimeout
        BY <1>5, <2>2, FetchAssumption DEF CallInv, CallTypes
      <3> QED
        BY <1>1, <2>2, <3>1, FetchAssumption DEF FallAsleep, CallInv, CallTypes, PCs, Timed
    <2> QED
      BY <1>2, <2>1, <2>2
  <1>7. OnlyCall(t)
    BY <1>1, <1>2 DEF Leave, FallAsleep, CallInv, CallTypes, OnlyCall
  <1>8. CountedOf(t)'
    <2>1. pc'[t] \in {"returned", "nap"}
      BY <1>2 DEF Leave, FallAsleep, CallInv, CallTypes
    <2> QED
      BY <1>1, <1>3, <2>1, FetchAssumption DEF CallInv, CallTypes, CountedOf
  <1>9. WaitingOf(t)'
    <2>1. CASE Leave(t, "returned")
      BY <2>1 DEF Leave, CallInv, CallTypes, WaitingOf
    <2>2. CASE FallAsleep(t, d)
      BY <1>1, <1>5, <2>2 DEF FallAsleep, CallInv, CallTypes, WaitingOf
    <2> QED
      BY <1>2, <2>1, <2>2
  <1> QED
    BY <1>6, <1>7, <1>8, <1>9, CallFrame

LEMMA ReceiveCall ==
  ASSUME CallInv, NEW t \in Threads, NEW a \in Answers, NEW header \in RetryAfters,
         Receive(t, a, header)
  PROVE  CallInv'
  <1> DEFINE seen == IF a.status = NoStatus THEN NoHeader ELSE header
  <1>1. PICK pause \in Nat, wait \in Nat, lost \in 0..(Second - 1) :
          /\ pause = parse_retry(seen) /\ wait = due(seen) /\ lost = leeway_of(seen)
          /\ wait <= pause + lost
    BY RetryAfter
  <1> HIDE DEF seen
  <1>2. /\ pc[t] = "sent"
        /\ retry' = [retry EXCEPT ![t] = pause]
        /\ UNCHANGED paid
        /\ \/ /\ pc' = [pc EXCEPT ![t] = "top"]
              /\ owed' = [owed EXCEPT ![t] = wait]
              /\ leeway' = [leeway EXCEPT ![t] = lost]
              /\ UNCHANGED <<left, nap, remaining, attempt, completed>>
           \/ Leave(t, "returned")
    BY <1>1 DEF Receive, seen
  <1>3. attempt[t] > 0
    BY <1>2 DEF CallInv, CountedOf
  <1>4. CASE Leave(t, "returned")
    BY <1>1, <1>2, <1>3, <1>4, LeaveCall DEF CallInv, CallTypes
  <1>5. CASE /\ pc' = [pc EXCEPT ![t] = "top"]
             /\ owed' = [owed EXCEPT ![t] = wait]
             /\ leeway' = [leeway EXCEPT ![t] = lost]
             /\ UNCHANGED <<left, nap, remaining, attempt, completed>>
    <2>1. CallTypes'
      BY <1>1, <1>2, <1>5 DEF CallInv, CallTypes, PCs, Timed
    <2>2. OnlyCall(t)
      BY <1>2, <1>5 DEF CallInv, CallTypes, OnlyCall
    <2>3. CountedOf(t)'
      BY <1>2, <1>3, <1>5 DEF CallInv, CallTypes, CountedOf
    <2>4. WaitingOf(t)'
      BY <1>1, <1>2, <1>5 DEF CallInv, CallTypes, WaitingOf
    <2> QED
      BY <2>1, <2>2, <2>3, <2>4, CallFrame
  <1> QED
    BY <1>2, <1>4, <1>5

LEMMA TickCalls ==
  ASSUME CallInv, Tick
  PROVE  CallInv'
  <1>1. CallTypes'
    BY FetchAssumption DEF Tick, CallInv, CallTypes, Larger
  <1>2. ASSUME NEW t \in Threads
        PROVE  CountedOf(t)' /\ WaitingOf(t)'
    <2>1. CountedOf(t)'
      BY DEF Tick, CallInv, CountedOf
    <2>2. WaitingOf(t)'
      BY DEF Tick, CallInv, CallTypes, WaitingOf, Larger
    <2> QED
      BY <2>1, <2>2
  <1> QED
    BY <1>1, <1>2 DEF CallInv

LEMMA CallStep ==
  ASSUME CallInv, [Next]_vars
  PROVE  CallInv'
  <1>1. ASSUME NEW t \in Threads,
               \/ Exhausted(t) \/ TooLate(t) \/ BudgetExhausted(t) \/ WakeTooLate(t)
               \/ Raise(t)
        PROVE  CallInv'
    <2>1. PICK how \in {"returned", "raised"} : Leave(t, how)
      BY <1>1 DEF Exhausted, TooLate, BudgetExhausted, WakeTooLate, Raise, Return
    <2>2. UNCHANGED <<retry, paid>>
      BY <1>1 DEF Exhausted, TooLate, BudgetExhausted, WakeTooLate, Raise, Return
    <2> QED
      BY <2>1, <2>2, LeaveCall DEF CallInv, CallTypes, CountedOf
  <1>2. CASE UNCHANGED vars
    BY <1>2 DEF vars, timers, CallInv, CallTypes, CountedOf, WaitingOf
  <1> QED
    BY <1>1, <1>2, StartCall, PrepareCall, SendCall, PlanCall, PayCall, ReceiveCall, TickCalls
    DEF Next, Iterate, Respond

-----------------------------------------------------------------------------
(* Consequences.                                                           *)

\* Whoever sends a request is in one of two places of the loop.
LEMMA WhoSends ==
  ASSUME CallInv, [Next]_vars, NEW t \in Threads, attempt'[t] > attempt[t]
  PROVE  SendNow(t) \/ WakeAndSend(t)
  <1>1. attempt \in [Threads -> Nat]
    BY DEF CallInv, CallTypes
  <1>2. ASSUME NEW u \in Threads, Start(u)
        PROVE  FALSE
    BY <1>1, <1>2 DEF Start
  <1>3. ASSUME NEW u \in Threads, UNCHANGED attempt
        PROVE  FALSE
    BY <1>1, <1>3
  <1>4. ASSUME NEW u \in Threads, SendNow(u) \/ WakeAndSend(u), u # t
        PROVE  FALSE
    BY <1>1, <1>4 DEF SendNow, WakeAndSend, Transmit
  <1> QED
    BY <1>2, <1>3, <1>4
    DEF Next, Prepare, Iterate, Respond, LimiterHit, LimiterMiss, LimiterCache, EnterLoop,
        Exhausted, TooLate, PlanRetry, BudgetExhausted, PayRetry, WakeTooLate, Receive, Raise,
        Return, Leave, FallAsleep, Tick, vars

\* No request leaves after the deadline of its call, however long the thread
\* was kept from running before its last look at the clock.  That look and the
\* request are one step: a thread interrupted between them is not covered.
THEOREM DeadlineIsKept == Spec => NothingSentAfterDeadline
  <1>1. CallInv /\ [Next]_vars =>
          [\A t \in Threads : attempt'[t] > attempt[t] => left[t] > 0]_vars
    BY WhoSends DEF SendNow, WakeAndSend
  <1>2. CallInv /\ [Next]_vars => CallInv'
    BY CallStep
  <1> QED
    BY <1>1, <1>2, CallInit, PTL DEF Spec, NothingSentAfterDeadline

\* No request leaves before the Retry-After of the previous answer has passed,
\* whatever the bounds of the jitter: never when it is a number of seconds, and
\* by less than a second when it is a date, of which int() drops a fraction.
THEOREM RetryAfterIsHonoured == Spec => RetryAfterIsFloor
  <1>1. CallInv /\ [Next]_vars =>
          [\A t \in Threads : attempt'[t] > attempt[t] => owed[t] <= leeway[t]]_vars
    BY WhoSends, SendCall
  <1>2. CallInv /\ [Next]_vars => CallInv'
    BY CallStep
  <1> QED
    BY <1>1, <1>2, CallInit, PTL DEF Spec, RetryAfterIsFloor

-----------------------------------------------------------------------------
(* Type correctness.  How often a Bucket was refilled is bounded by the    *)
(* calls that were made, less those that have yet to refill one.           *)

Entering == {t \in Threads : pc[t] \in {"limiter", "made"}}

RefillInv ==
  /\ BudgetInv
  /\ tokens \in [Threads -> 0..(Capacity * Unit)]
  /\ fetches \in 0..MaxFetches
  /\ IsFiniteSet(Entering)
  /\ \A b \in Threads : started[b] + Cardinality(Entering) <= fetches

LEMMA RefillInit == Init => RefillInv
  <1> SUFFICES ASSUME Init PROVE RefillInv
    OBVIOUS
  <1>1. Entering = {}
    BY DEF Init, Entering
  <1>2. IsFiniteSet(Entering) /\ Cardinality(Entering) = 0
    BY <1>1, FS_EmptySet
  <1>3. Capacity * Unit \in Nat
    BY FetchAssumption, Distribute
  <1> QED
    BY <1>2, <1>3, BudgetInit, FetchAssumption DEF Init, RefillInv

LEMMA RefillStart ==
  ASSUME RefillInv, BudgetInv', NEW t \in Threads, Start(t)
  PROVE  RefillInv'
  <1>1. t \notin Entering /\ Entering' = Entering \cup {t}
    BY DEF Start, Entering, Ended, RefillInv, BudgetInv, BudgetTypes
  <1>2. IsFiniteSet(Entering)
    BY DEF RefillInv
  <1>3. /\ IsFiniteSet(Entering')
        /\ Cardinality(Entering') = Cardinality(Entering) + 1
        /\ Cardinality(Entering) \in Nat
    BY <1>1, <1>2, FS_AddElement, FS_CardinalityType
  <1> QED
    BY <1>3, FetchAssumption DEF Start, budget, RefillInv, BudgetInv, BudgetTypes

LEMMA RefillEnter ==
  ASSUME RefillInv, BudgetInv', NEW t \in Threads, NEW b \in Threads,
         pc[t] \in {"limiter", "made"}, EnterLoop(t, b)
  PROVE  RefillInv'
  <1>1. t \in Entering /\ Entering' = Entering \ {t}
    BY DEF EnterLoop, Entering, RefillInv, BudgetInv, BudgetTypes
  <1>2. IsFiniteSet(Entering)
    BY DEF RefillInv
  <1>3. /\ IsFiniteSet(Entering')
        /\ Cardinality(Entering') = Cardinality(Entering) - 1
        /\ Cardinality(Entering) \in Nat
    BY <1>1, <1>2, FS_RemoveElement, FS_CardinalityType
  <1>4. Capacity * Unit \in Nat
    BY FetchAssumption, Distribute
  <1>5. tokens' \in [Threads -> 0..(Capacity * Unit)]
    BY <1>4, FetchAssumption DEF EnterLoop, add, Smaller, RefillInv
  <1>6. /\ started \in [Threads -> Nat]
        /\ started' = [started EXCEPT ![b] = @ + 1]
        /\ UNCHANGED fetches
    BY DEF EnterLoop, add, RefillInv, BudgetInv, BudgetTypes
  <1>7. ASSUME NEW d \in Threads
        PROVE  started'[d] + Cardinality(Entering') <= fetches'
    BY <1>3, <1>6, FetchAssumption DEF RefillInv
  <1> QED
    BY <1>3, <1>5, <1>6, <1>7 DEF RefillInv

LEMMA RefillStep ==
  ASSUME RefillInv, [Next]_vars
  PROVE  RefillInv'
  <1>1. BudgetInv'
    BY BudgetStep DEF RefillInv
  <1>2. ASSUME Entering' = Entering, UNCHANGED <<started, fetches>>,
               tokens' \in [Threads -> 0..(Capacity * Unit)]
        PROVE  RefillInv'
    BY <1>1, <1>2 DEF RefillInv
  <1>3. ASSUME NEW t \in Threads, Start(t)
        PROVE  RefillInv'
    BY <1>1, <1>3, RefillStart
  <1>4. ASSUME NEW t \in Threads, LimiterHit(t) \/ LimiterCache(t)
        PROVE  RefillInv'
    BY <1>1, <1>4, RefillEnter DEF LimiterHit, LimiterCache, RefillInv, BudgetInv, BudgetTypes
  <1>5. ASSUME NEW t \in Threads, LimiterMiss(t)
        PROVE  RefillInv'
    <2>1. Entering' = Entering
      BY <1>5 DEF LimiterMiss, Entering, RefillInv, BudgetInv, BudgetTypes
    <2>2. Capacity * Unit \in 0..(Capacity * Unit)
      BY FetchAssumption, Distribute
    <2> QED
      BY <1>2, <1>5, <2>1, <2>2 DEF LimiterMiss, RefillInv
  <1>6. ASSUME NEW t \in Threads, NEW q \in Timed \cup Ended,
               pc[t] \in Timed, pc' = [pc EXCEPT ![t] = q]
        PROVE  Entering' = Entering
    BY <1>6 DEF Entering, Timed, Ended, RefillInv, BudgetInv, BudgetTypes
  <1>7. ASSUME NEW t \in Threads, PayRetry(t)
        PROVE  RefillInv'
    <2>1. Entering' = Entering
      BY <1>6, <1>7 DEF PayRetry, Leave, FallAsleep, Timed, Ended
    <2>2. bucket[t] \in Threads /\ tokens[bucket[t]] >= Unit
      BY <1>7 DEF PayRetry, consume, can_consume, RefillInv, BudgetInv, BucketsCached, Timed
    <2>3. Capacity * Unit \in Nat
      BY FetchAssumption, Distribute
    <2>4. tokens' \in [Threads -> 0..(Capacity * Unit)]
      BY <1>7, <2>2, <2>3, FetchAssumption DEF PayRetry, consume, RefillInv
    <2> QED
      BY <1>2, <1>7, <2>1, <2>4 DEF PayRetry, consume, Leave, FallAsleep
  <1>8. ASSUME NEW t \in Threads,
               \/ Exhausted(t) \/ TooLate(t) \/ BudgetExhausted(t) \/ WakeTooLate(t)
               \/ SendNow(t) \/ WakeAndSend(t) \/ PlanRetry(t) \/ Respond(t)
        PROVE  RefillInv'
    <2>1. UNCHANGED <<tokens, started, fetches>>
      BY <1>8
      DEF Exhausted, TooLate, BudgetExhausted, WakeTooLate, SendNow, WakeAndSend, PlanRetry,
          Respond, Receive, Raise, Return, Leave, Transmit, budget
    <2>2. pc[t] \in Timed /\ \E q \in Timed \cup Ended : pc' = [pc EXCEPT ![t] = q]
      BY <1>8
      DEF Exhausted, TooLate, BudgetExhausted, WakeTooLate, SendNow, WakeAndSend, PlanRetry,
          AtTop, Respond, Receive, Raise, Return, Leave, Transmit, Timed, Ended
    <2> QED
      BY <1>2, <1>6, <2>1, <2>2 DEF RefillInv
  <1>9. CASE Tick \/ UNCHANGED vars
    BY <1>2, <1>9 DEF Tick, vars, budget, Entering, RefillInv
  <1> QED
    BY <1>3, <1>4, <1>5, <1>7, <1>8, <1>9 DEF Next, Prepare, Iterate

\* The variables of fetch() keep their types: no Bucket overflows, no call is
\* sent or paid more often than its settings allow, and no sleep is longer
\* than what was left of the total timeout.
THEOREM TypeCorrect == Spec => []TypeOK
  <1>1. RefillInv /\ CallInv => TypeOK
    <2> SUFFICES ASSUME RefillInv, CallInv PROVE TypeOK
      OBVIOUS
    <2>1. started \in [Threads -> 0..MaxFetches]
      <3>1. Cardinality(Entering) \in Nat
        BY FS_CardinalityType DEF RefillInv
      <3> QED
        BY <3>1, FetchAssumption DEF RefillInv, BudgetInv, BudgetTypes
    <2>2. /\ attempt \in [Threads -> 0..(TotalRetries + 1)]
          /\ completed \in [Threads -> 0..TotalRetries]
          /\ paid \in [Threads -> 0..TotalRetries]
      BY FetchAssumption DEF CallInv, CallTypes, CountedOf
    <2> QED
      BY <2>1, <2>2 DEF RefillInv, BudgetInv, BudgetTypes, CallInv, CallTypes, TypeOK, PCs
  <1>2. RefillInv /\ [Next]_vars => RefillInv'
    BY RefillStep
  <1>3. CallInv /\ [Next]_vars => CallInv'
    BY CallStep
  <1> QED
    BY <1>1, <1>2, <1>3, RefillInit, CallInit, PTL DEF Spec

-----------------------------------------------------------------------------
(* Payment.  A retry without a delay would not be paid for; with a         *)
(* positive backoff_factor there is none.                                  *)

PaidOf(t) ==
  /\ attempt[t] <= 1 + paid[t]
  /\ pc[t] = "nap" => attempt[t] <= paid[t]

PaidInv == CallInv /\ \A t \in Threads : PaidOf(t)

\* With a backoff only the first attempt is sent at once.
LEMMA FirstIsSentAtOnce ==
  ASSUME BackoffFactor > 0, CallInv, NEW t \in Threads, AtTop(t), NoDelay(t)
  PROVE  attempt[t] = 0
  <1> SUFFICES ASSUME attempt[t] # 0 PROVE FALSE
    OBVIOUS
  <1>1. attempt[t] \in 1..TotalRetries
    BY FetchAssumption DEF AtTop, CallInv, CallTypes
  <1>2. backoff(attempt[t]) > 0
    BY <1>1, Backoff
  <1> QED
    BY <1>2 DEF NoDelay, delay_before, CallInv, CallTypes

LEMMA PaidStep ==
  ASSUME BackoffFactor > 0, PaidInv, [Next]_vars
  PROVE  PaidInv'
  <1> USE DEF PaidInv
  <1>1. CallInv /\ CallInv'
    BY CallStep
  <1>2. CallTypes /\ CallTypes'
    BY <1>1 DEF CallInv
  <1>3. ASSUME NEW t \in Threads, PaidOf(t)',
               \A u \in Threads \ {t} :
                 /\ pc'[u] = pc[u] /\ attempt'[u] = attempt[u] /\ paid'[u] = paid[u]
        PROVE  PaidInv'
    <2>1. ASSUME NEW u \in Threads, u # t
          PROVE  PaidOf(u)'
      BY <1>3, <2>1 DEF PaidOf
    <2> QED
      BY <1>1, <1>3, <2>1
  <1>4. ASSUME NEW t \in Threads, NEW q \in PCs \ {"nap"}, pc' = [pc EXCEPT ![t] = q],
               UNCHANGED <<attempt, paid>>
        PROVE  PaidInv'
    <2>1. PaidOf(t)'
      BY <1>2, <1>4 DEF PaidOf, CallTypes
    <2> QED
      BY <1>2, <1>3, <1>4, <2>1 DEF CallTypes
  <1>5. ASSUME NEW t \in Threads, Start(t)
        PROVE  PaidInv'
    <2>1. PaidOf(t)'
      BY <1>2, <1>5 DEF Start, PaidOf, CallTypes
    <2> QED
      BY <1>2, <1>3, <1>5, <2>1 DEF Start, CallTypes
  <1>6. ASSUME NEW t \in Threads, Prepare(t) \/ PlanRetry(t)
        PROVE  PaidInv'
    BY <1>4, <1>6
    DEF Prepare, LimiterHit, LimiterMiss, LimiterCache, EnterLoop, PlanRetry, PCs, Timed
  <1>7. ASSUME NEW t \in Threads,
               \/ Exhausted(t) \/ TooLate(t) \/ BudgetExhausted(t) \/ WakeTooLate(t)
               \/ Respond(t)
        PROVE  PaidInv'
    BY <1>4, <1>7
    DEF Exhausted, TooLate, BudgetExhausted, WakeTooLate, Respond, Receive, Raise, Return,
        Leave, PCs, Ended, Timed
  <1>8. ASSUME NEW t \in Threads, SendNow(t)
        PROVE  PaidInv'
    <2>1. attempt[t] = 0
      BY <1>1, <1>8, FirstIsSentAtOnce DEF SendNow
    <2>2. PaidOf(t)'
      BY <1>2, <1>8, <2>1 DEF SendNow, Transmit, PaidOf, CallTypes
    <2> QED
      BY <1>2, <1>3, <1>8, <2>2 DEF SendNow, Transmit, CallTypes
  <1>9. ASSUME NEW t \in Threads, WakeAndSend(t)
        PROVE  PaidInv'
    <2>1. PaidOf(t)'
      BY <1>2, <1>9 DEF WakeAndSend, Transmit, PaidOf, CallTypes
    <2> QED
      BY <1>2, <1>3, <1>9, <2>1 DEF WakeAndSend, Transmit, CallTypes
  <1>10. ASSUME NEW t \in Threads, PayRetry(t)
         PROVE  PaidInv'
    <2>1. /\ paid' = [paid EXCEPT ![t] = @ + 1]
          /\ UNCHANGED attempt
          /\ \A u \in Threads \ {t} : pc'[u] = pc[u]
      BY <1>2, <1>10 DEF PayRetry, Leave, FallAsleep, CallTypes
    <2>2. PaidOf(t)'
      BY <1>2, <2>1 DEF PaidOf, CallTypes
    <2> QED
      BY <1>2, <1>3, <2>1, <2>2 DEF CallTypes
  <1>11. CASE Tick \/ UNCHANGED vars
    BY <1>1, <1>11 DEF Tick, vars, PaidOf
  <1> QED
    BY <1>5, <1>6, <1>7, <1>8, <1>9, <1>10, <1>11 DEF Next, Iterate

\* As long as retries are delayed, every request after the first was paid for
\* with a token of its own.
THEOREM RetriesArePaid == BackoffFactor > 0 => (Spec => []EveryRetryIsPaid)
  <1> SUFFICES ASSUME BackoffFactor > 0 PROVE Spec => []EveryRetryIsPaid
    OBVIOUS
  <1>1. Init => PaidInv
    BY CallInit DEF Init, PaidInv, PaidOf
  <1>2. PaidInv /\ [Next]_vars => PaidInv'
    BY PaidStep
  <1>3. PaidInv => EveryRetryIsPaid
    BY DEF PaidInv, PaidOf, EveryRetryIsPaid
  <1> QED
    BY <1>1, <1>2, <1>3, PTL DEF Spec
=============================================================================
