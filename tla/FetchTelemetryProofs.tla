------------------------ MODULE FetchTelemetryProofs ------------------------
(***************************************************************************)
(* Proofs about FetchTelemetry: the counters agree with what fetch() did.  *)
(* Every step of FetchTelemetry is one of Fetch, so the invariants of      *)
(* FetchProofs hold of it too.                                             *)
(***************************************************************************)
EXTENDS FetchTelemetry, FetchProofs

LEMMA StepOfFetch ==
  ASSUME [TNext]_tvars
  PROVE  [Next]_vars
  BY DEF TNext, TooLateRecorded, SentRecorded, SkipRecorded, PayRecorded, Quiet,
         AnswerRecorded, Next, Iterate, Respond, tvars

Fields == {"attempts", "retries", "skips", "refusals"}

TallyTypes == tally \in [Threads -> [Fields -> Nat]]

\* A retry is counted when it is sent, a refusal when it is received, and a
\* decision to skip ends the call.
TalliedOf(t) ==
  /\ tally[t]["retries"] = completed[t]
  /\ attempt[t] = 0 => completed[t] = 0
  /\ attempt[t] > 0 => completed[t] = attempt[t] - 1
  /\ pc[t] \in {"limiter", "made", "top", "pay", "nap"} =>
       tally[t]["refusals"] = attempt[t] /\ tally[t]["skips"] = 0
  /\ pc[t] = "sent" =>
       tally[t]["refusals"] = attempt[t] - 1 /\ tally[t]["skips"] = 0
  /\ pc[t] = "returned" /\ attempt[t] > 0 =>
       tally[t]["refusals"] = completed[t] + tally[t]["skips"]

TallyInv ==
  /\ CallInv
  /\ TallyTypes
  /\ \A t \in Threads : TalliedOf(t)

LEMMA Nothing ==
  /\ NothingRecorded \in [Fields -> Nat]
  /\ \A f \in Fields : NothingRecorded[f] = 0
  BY DEF NothingRecorded, Fields

LEMMA TallyInit == TInit => TallyInv
  <1> SUFFICES ASSUME TInit PROVE TallyInv
    OBVIOUS
  <1>1. CallInv
    BY CallInit DEF TInit
  <1>2. TallyTypes
    BY Nothing DEF TInit, TallyTypes
  <1>3. ASSUME NEW t \in Threads
        PROVE  TalliedOf(t)
    <2>1. \A f \in Fields : tally[t][f] = 0
      BY Nothing DEF TInit
    <2> QED
      BY <2>1 DEF TInit, Init, TalliedOf, Fields
  <1> QED
    BY <1>1, <1>2, <1>3 DEF TallyInv

\* What recording an event does to the counters.
LEMMA Recording ==
  ASSUME TallyTypes, NEW t \in Threads, NEW fields, Record(t, fields)
  PROVE  /\ TallyTypes'
         /\ \A u \in Threads \ {t} : tally'[u] = tally[u]
         /\ \A f \in Fields :
              tally'[t][f] = IF f \in fields THEN tally[t][f] + 1 ELSE tally[t][f]
  <1> DEFINE new == [f \in Fields |-> IF f \in fields THEN tally[t][f] + 1 ELSE tally[t][f]]
  <1>1. tally[t] \in [Fields -> Nat] /\ DOMAIN tally[t] = Fields
    BY DEF TallyTypes
  <1>2. new \in [Fields -> Nat]
    BY <1>1
  <1>3. tally' = [tally EXCEPT ![t] = new]
    BY <1>1 DEF Record, TallyTypes
  <1> QED
    BY <1>2, <1>3 DEF TallyTypes

LEMMA TallyFrame ==
  ASSUME TallyInv, CallInv', TallyTypes', NEW t \in Threads, TalliedOf(t)',
         \A u \in Threads \ {t} :
           /\ pc'[u] = pc[u] /\ attempt'[u] = attempt[u]
           /\ completed'[u] = completed[u] /\ tally'[u] = tally[u]
  PROVE  TallyInv'
  <1>1. ASSUME NEW u \in Threads, u # t
        PROVE  TalliedOf(u)'
    BY <1>1 DEF TallyInv, TalliedOf
  <1> QED
    BY <1>1 DEF TallyInv

\* The call goes on, and nothing is recorded.
LEMMA QuietTally ==
  ASSUME TallyInv, CallInv', NEW t \in Threads, UNCHANGED <<tally, attempt, completed>>,
         NEW q \in {"made", "top", "pay", "nap", "raised"}, pc' = [pc EXCEPT ![t] = q],
         q = "raised" \/ pc[t] \in {"limiter", "made", "top", "pay"}
  PROVE  TallyInv'
  <1>1. pc'[t] = q /\ \A u \in Threads \ {t} : pc'[u] = pc[u]
    BY DEF TallyInv, CallInv, CallTypes
  <1>2. TalliedOf(t)'
    BY <1>1 DEF TallyInv, TalliedOf
  <1>3. TallyTypes'
    BY DEF TallyInv, TallyTypes
  <1> QED
    BY <1>1, <1>2, <1>3, TallyFrame

\* The call gives up, and the decision is recorded, and possibly the attempt
\* that was not made.
LEMMA SkipTally ==
  ASSUME TallyInv, CallInv', NEW t \in Threads, UNCHANGED <<attempt, completed>>,
         pc[t] \in {"top", "pay", "nap"}, pc' = [pc EXCEPT ![t] = "returned"],
         NEW fields \in {{"skips"}, {"skips", "attempts"}}, Record(t, fields)
  PROVE  TallyInv'
  <1>1. pc'[t] = "returned" /\ \A u \in Threads \ {t} : pc'[u] = pc[u]
    BY DEF TallyInv, CallInv, CallTypes
  <1>2. /\ TallyTypes'
        /\ \A u \in Threads \ {t} : tally'[u] = tally[u]
        /\ \A f \in Fields :
             tally'[t][f] = IF f \in fields THEN tally[t][f] + 1 ELSE tally[t][f]
    BY Recording DEF TallyInv
  <1>3. /\ tally'[t]["skips"] = tally[t]["skips"] + 1
        /\ tally'[t]["retries"] = tally[t]["retries"]
        /\ tally'[t]["refusals"] = tally[t]["refusals"]
    BY <1>2 DEF Fields
  <1>4. attempt[t] \in Nat /\ completed[t] \in Nat
    BY DEF TallyInv, CallInv, CallTypes
  <1>5. TalliedOf(t)'
    BY <1>1, <1>3, <1>4 DEF TallyInv, TalliedOf
  <1> QED
    BY <1>1, <1>2, <1>5, TallyFrame

LEMMA StartTally ==
  ASSUME TallyInv, CallInv', NEW t \in Threads, Start(t),
         tally' = [tally EXCEPT ![t] = NothingRecorded]
  PROVE  TallyInv'
  <1>1. /\ pc'[t] = "limiter" /\ attempt'[t] = 0 /\ completed'[t] = 0
        /\ \A u \in Threads \ {t} :
             pc'[u] = pc[u] /\ attempt'[u] = attempt[u] /\ completed'[u] = completed[u]
    BY DEF Start, TallyInv, CallInv, CallTypes
  <1>2. TallyTypes' /\ \A u \in Threads \ {t} : tally'[u] = tally[u]
    BY Nothing DEF TallyInv, TallyTypes
  <1>3. \A f \in Fields : tally'[t][f] = 0
    BY Nothing DEF TallyInv, TallyTypes
  <1>4. TalliedOf(t)'
    BY <1>1, <1>3 DEF TalliedOf, Fields
  <1> QED
    BY <1>1, <1>2, <1>4, TallyFrame

\* A request is sent: at once only the first, which is no retry.
LEMMA SendTally ==
  ASSUME BackoffFactor > 0, TallyInv, CallInv', NEW t \in Threads, SentRecorded(t)
  PROVE  TallyInv'
  <1>1. /\ pc'[t] = "sent" /\ attempt'[t] = attempt[t] + 1
        /\ \A u \in Threads \ {t} :
             pc'[u] = pc[u] /\ attempt'[u] = attempt[u] /\ completed'[u] = completed[u]
    BY DEF SentRecorded, SendNow, WakeAndSend, Transmit, TallyInv, CallInv, CallTypes
  <1>2. /\ pc[t] \in {"top", "nap"}
        /\ \/ attempt[t] = 0 /\ completed'[t] = completed[t]
           \/ attempt[t] > 0 /\ completed'[t] = completed[t] + 1
    <2>1. CASE SendNow(t)
      BY <2>1, FirstIsSentAtOnce DEF SendNow, AtTop, TallyInv
    <2>2. CASE WakeAndSend(t)
      BY <2>2 DEF WakeAndSend, TallyInv, CallInv, CallTypes, CountedOf
    <2> QED
      BY <2>1, <2>2 DEF SentRecorded
  <1>3. attempt[t] \in Nat /\ completed[t] \in Nat
    BY DEF TallyInv, CallInv, CallTypes
  <1>4. /\ TallyTypes'
        /\ \A u \in Threads \ {t} : tally'[u] = tally[u]
        /\ \A f \in Fields :
             tally'[t][f] = IF f \in Attempt(t) THEN tally[t][f] + 1 ELSE tally[t][f]
    BY Recording DEF SentRecorded, TallyInv
  <1>5. /\ tally'[t]["skips"] = tally[t]["skips"]
        /\ tally'[t]["refusals"] = tally[t]["refusals"]
        /\ tally'[t]["retries"] =
             IF completed'[t] > 0 THEN tally[t]["retries"] + 1 ELSE tally[t]["retries"]
    BY <1>4 DEF Fields, Attempt
  <1>6. TalliedOf(t)
    BY DEF TallyInv
  <1>7. TalliedOf(t)'
    BY <1>1, <1>2, <1>3, <1>5, <1>6 DEF TalliedOf
  <1> QED
    BY <1>1, <1>4, <1>7, TallyFrame

LEMMA AnswerTally ==
  ASSUME TallyInv, CallInv', NEW t \in Threads, NEW a \in Answers,
         NEW header \in RetryAfters, AnswerRecorded(t, a, header)
  PROVE  TallyInv'
  <1>1. /\ pc[t] = "sent" /\ pc'[t] \in {"top", "returned"}
        /\ UNCHANGED <<attempt, completed>>
        /\ \A u \in Threads \ {t} : pc'[u] = pc[u]
    BY DEF AnswerRecorded, Receive, Leave, TallyInv, CallInv, CallTypes
  <1> DEFINE fields == IF pc'[t] = "returned" THEN {} ELSE {"refusals"}
  <1>2. /\ TallyTypes'
        /\ \A u \in Threads \ {t} : tally'[u] = tally[u]
        /\ \A f \in Fields :
             tally'[t][f] = IF f \in fields THEN tally[t][f] + 1 ELSE tally[t][f]
    BY Recording DEF AnswerRecorded, TallyInv
  <1>3. /\ tally'[t]["skips"] = tally[t]["skips"]
        /\ tally'[t]["retries"] = tally[t]["retries"]
        /\ tally'[t]["refusals"] =
             IF pc'[t] = "returned" THEN tally[t]["refusals"] ELSE tally[t]["refusals"] + 1
    BY <1>2 DEF Fields
  <1>4. attempt[t] \in Nat /\ attempt[t] > 0
    BY <1>1 DEF TallyInv, CallInv, CallTypes, CountedOf
  <1>5. TalliedOf(t)
    BY DEF TallyInv
  <1>6. TalliedOf(t)'
    BY <1>1, <1>3, <1>4, <1>5 DEF TalliedOf
  <1> QED
    BY <1>1, <1>2, <1>6, TallyFrame

LEMMA PayTally ==
  ASSUME TallyInv, CallInv', NEW t \in Threads, PayRecorded(t)
  PROVE  TallyInv'
  <1>1. pc[t] = "pay" /\ UNCHANGED <<attempt, completed>>
    BY DEF PayRecorded, PayRetry, Leave, FallAsleep
  <1>2. \/ pc' = [pc EXCEPT ![t] = "returned"]
        \/ pc' = [pc EXCEPT ![t] = "nap"]
    BY DEF PayRecorded, PayRetry, Leave, FallAsleep
  <1>3. CASE pc' = [pc EXCEPT ![t] = "returned"]
    <2>1. Record(t, {"skips"})
      BY <1>3 DEF PayRecorded, TallyInv, CallInv, CallTypes
    <2> QED
      BY <1>1, <1>3, <2>1, SkipTally
  <1>4. CASE pc' = [pc EXCEPT ![t] = "nap"]
    <2>1. Record(t, {})
      BY <1>4 DEF PayRecorded, TallyInv, CallInv, CallTypes
    <2>2. /\ TallyTypes'
          /\ \A u \in Threads \ {t} : tally'[u] = tally[u]
          /\ \A f \in Fields : tally'[t][f] = tally[t][f]
      BY <2>1, Recording DEF TallyInv
    <2>3. TalliedOf(t)'
      BY <1>1, <1>4, <2>2 DEF TallyInv, TalliedOf, CallInv, CallTypes, Fields
    <2> QED
      BY <1>1, <1>4, <2>2, <2>3, TallyFrame DEF TallyInv, CallInv, CallTypes
  <1> QED
    BY <1>2, <1>3, <1>4

LEMMA TooLateTally ==
  ASSUME BackoffFactor > 0, TallyInv, CallInv', NEW t \in Threads, TooLateRecorded(t)
  PROVE  TallyInv'
  <1>1. /\ pc[t] = "top" /\ UNCHANGED <<attempt, completed>>
        /\ pc' = [pc EXCEPT ![t] = "returned"]
    BY DEF TooLateRecorded, TooLate, AtTop, Return, Leave
  <1>2. NoDelay(t) => completed'[t] = 0
    <2>1. NoDelay(t) => attempt[t] = 0
      BY FirstIsSentAtOnce DEF TooLateRecorded, TooLate, TallyInv
    <2> QED
      BY <1>1, <2>1 DEF TallyInv, TalliedOf
  <1>3. PICK fields \in {{"skips"}, {"skips", "attempts"}} : Record(t, fields)
    <2>1. CASE Hurried(t)
      <3>1. {"skips"} \cup Attempt(t) = {"skips", "attempts"}
        BY <1>2, <2>1 DEF Hurried, Attempt
      <3> QED
        BY <2>1, <3>1 DEF TooLateRecorded
    <2>2. CASE ~Hurried(t)
      <3>1. {"skips"} \cup {} = {"skips"}
        OBVIOUS
      <3> QED
        BY <2>2, <3>1 DEF TooLateRecorded
    <2> QED
      BY <2>1, <2>2
  <1> QED
    BY <1>1, <1>3, SkipTally

LEMMA TallyStep ==
  ASSUME BackoffFactor > 0, TallyInv, [TNext]_tvars
  PROVE  TallyInv'
  <1>1. CallInv'
    BY StepOfFetch, CallStep DEF TallyInv
  <1>2. ASSUME NEW t \in Threads, SkipRecorded(t)
        PROVE  TallyInv'
    <2>1. /\ pc[t] \in {"top", "pay", "nap"} /\ UNCHANGED <<attempt, completed>>
          /\ pc' = [pc EXCEPT ![t] = "returned"] /\ Record(t, {"skips"})
      BY <1>2
      DEF SkipRecorded, WakeTooLate, BudgetExhausted, Exhausted, Return, Leave
    <2> QED
      BY <1>1, <2>1, SkipTally
  <1>3. ASSUME NEW t \in Threads, Quiet(t)
        PROVE  TallyInv'
    <2>1. PICK q \in {"made", "top", "pay", "raised"} :
            /\ pc' = [pc EXCEPT ![t] = q]
            /\ q = "raised" \/ pc[t] \in {"limiter", "made", "top", "pay"}
      BY <1>3
      DEF Quiet, Prepare, LimiterHit, LimiterMiss, LimiterCache, EnterLoop, PlanRetry, AtTop,
          Raise, Leave
    <2>2. UNCHANGED <<tally, attempt, completed>>
      BY <1>3
      DEF Quiet, Prepare, LimiterHit, LimiterMiss, LimiterCache, EnterLoop, PlanRetry,
          Raise, Leave
    <2> QED
      BY <1>1, <2>1, <2>2, QuietTally
  <1>4. CASE (Tick /\ UNCHANGED tally) \/ UNCHANGED tvars
    BY <1>1, <1>4 DEF Tick, tvars, vars, TallyInv, TallyTypes, TalliedOf
  <1> QED
    BY <1>1, <1>2, <1>3, <1>4, StartTally, SendTally, AnswerTally, PayTally, TooLateTally
    DEF TNext

\* As long as retries are delayed, the retries counted, and reported when
\* fetch() returns, are exactly the requests that followed the first one.
THEOREM RetryCountIsExact == BackoffFactor > 0 => (TSpec => []RetriesCountedWereSent)
  <1> SUFFICES ASSUME BackoffFactor > 0 PROVE TSpec => []RetriesCountedWereSent
    OBVIOUS
  <1>1. TallyInv /\ [TNext]_tvars => TallyInv'
    BY TallyStep
  <1>2. TallyInv => RetriesCountedWereSent
    BY DEF TallyInv, TalliedOf, RetriesCountedWereSent
  <1> QED
    BY <1>1, <1>2, TallyInit, PTL DEF TSpec

\* As long as retries are delayed, a call that returns has accounted for every
\* retryable answer once: with a retry that it sent, or one that it skipped.
THEOREM RefusalsAreDecided == BackoffFactor > 0 => (TSpec => []EveryRefusalIsDecided)
  <1> SUFFICES ASSUME BackoffFactor > 0 PROVE TSpec => []EveryRefusalIsDecided
    OBVIOUS
  <1>1. TallyInv /\ [TNext]_tvars => TallyInv'
    BY TallyStep
  <1>2. TallyInv => EveryRefusalIsDecided
    BY DEF TallyInv, TalliedOf, EveryRefusalIsDecided
  <1> QED
    BY <1>1, <1>2, TallyInit, PTL DEF TSpec
=============================================================================
