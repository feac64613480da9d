-------------------------------- MODULE Fetch --------------------------------
(***************************************************************************)
(* oauth.fetch(): the retry loop around one request to the provider, run   *)
(* by several threads of one process that share a retry budget             *)
(* (oauth/_core.py, oauth/_retry.py, utils/bucket.py).                     *)
(*                                                                         *)
(* Time passes in ticks, Second of them in a second, so that what the      *)
(* program truncates to whole seconds loses something.  Instead of a       *)
(* clock, every thread has the time that is left until its deadline, until *)
(* it wakes up, and until it may send again according to the provider's    *)
(* Retry-After.  Budgets count fractions of a token: Unit of them make a   *)
(* whole one.                                                              *)
(***************************************************************************)
EXTENDS OAuthOutcome

CONSTANTS
  Threads,
  NoBucket,       \* the cache of get_retry_limiter() is empty
  Second,         \* ticks in a second
  TotalTimeout,   \* settings.fetch.total_timeout, in ticks
  TotalRetries,   \* settings.fetch.total_retries
  BackoffFactor,  \* settings.fetch.backoff_factor, in ticks
  JitterMin,      \* settings.fetch.backoff_jitter_min, in percent
  JitterMax,      \* settings.fetch.backoff_jitter_max, in percent
  Capacity,       \* settings.fetch.retry_budget_capacity, in whole tokens
  Refill,         \* settings.fetch.retry_budget_refill_per_initial, in units
  Unit,           \* units in a whole token
  Answers,        \* what the provider may answer: status and body
  RetryAfters,    \* the Retry-After headers it may send: a number of seconds
                  \* or a date, given as its distance to now in ticks
  MaxFetches      \* bound: calls of fetch()

ASSUME FetchAssumption ==
  /\ NoBucket \notin Threads
  /\ Second \in Nat \ {0}
  /\ TotalTimeout \in Nat
  /\ TotalRetries \in Nat
  /\ BackoffFactor \in Nat
  /\ JitterMin \in Nat /\ JitterMax \in Nat
  /\ Capacity \in Nat
  /\ Refill \in Nat
  /\ Unit \in Nat \ {0}
  /\ MaxFetches \in Nat
  /\ \A h \in RetryAfters :
       /\ h.kind = "seconds" => h.value \in Nat
       /\ h.kind = "date" => h.value \in Int

\* Arithmetic, stated because the provers know nothing of exponents.
ASSUME PowersOfTwo == \A i \in 1..TotalRetries : 2^i \in Nat \ {0, 1}

VARIABLES
  cached,     \* the Bucket that get_retry_limiter() cached
  tokens,     \* the units in each Bucket, named after the thread that made it
  started,    \* history: fetches that refilled each Bucket
  spent,      \* history: whole tokens consumed from each Bucket
  fetches,    \* fetches so far, up to MaxFetches
  pc,         \* where each thread is in fetch()
  bucket,     \* its retry_budget
  attempt,    \* requests it sent: the loop variable i
  left,       \* ticks until its deadline; -1 once it passed
  remaining,  \* remaining_timeout, as computed when the iteration began
  retry,      \* Retry-After of its last answer, as parse_retry() has it
  owed,       \* history: ticks until that Retry-After has really passed
  leeway,     \* history: ticks of it that are lost in whole seconds at most
  nap,        \* ticks until it wakes up
  completed,  \* completed_retries
  paid,       \* history: tokens this fetch consumed
  result      \* its result

budget == <<cached, tokens, started, spent>>
timers == <<left, nap, owed, leeway>>

vars ==
  <<budget, timers, fetches, pc, bucket, attempt, remaining, retry, completed,
    paid, result>>

Ended == {"idle", "returned", "raised"}
Timed == {"top", "pay", "nap", "sent"}

Init ==
  /\ cached = NoBucket
  /\ tokens = [b \in Threads |-> 0]
  /\ started = [b \in Threads |-> 0]
  /\ spent = [b \in Threads |-> 0]
  /\ fetches = 0
  /\ pc = [t \in Threads |-> "idle"]
  /\ bucket = [t \in Threads |-> NoBucket]
  /\ attempt = [t \in Threads |-> 0]
  /\ left = [t \in Threads |-> TotalTimeout]
  /\ remaining = [t \in Threads |-> 0]
  /\ retry = [t \in Threads |-> 0]
  /\ owed = [t \in Threads |-> 0]
  /\ leeway = [t \in Threads |-> 0]
  /\ nap = [t \in Threads |-> 0]
  /\ completed = [t \in Threads |-> 0]
  /\ paid = [t \in Threads |-> 0]
  /\ result = [t \in Threads |-> ErrorBody("server_error")]

Larger(m, n) == IF m >= n THEN m ELSE n
Smaller(m, n) == IF m <= n THEN m ELSE n

-----------------------------------------------------------------------------
(* utils/bucket.py: both operations hold the Bucket's lock.                *)

\* Mutant: the Bucket may overflow.
add_unclamped(b) ==
  /\ tokens' = [tokens EXCEPT ![b] = @ + Refill]
  /\ started' = [started EXCEPT ![b] = @ + 1]
  /\ UNCHANGED spent

add(b) ==
  /\ tokens' = [tokens EXCEPT ![b] = Smaller(Capacity * Unit, @ + Refill)]
  /\ started' = [started EXCEPT ![b] = @ + 1]
  /\ UNCHANGED spent

can_consume(b) == tokens[b] >= Unit

consume(b) ==
  /\ can_consume(b)
  /\ tokens' = [tokens EXCEPT ![b] = @ - Unit]
  /\ spent' = [spent EXCEPT ![b] = @ + 1]
  /\ UNCHANGED started

-----------------------------------------------------------------------------
(* Delays.                                                                 *)

\* Ticks until a Retry-After has passed.  A header is absent or unusable, a
\* number of seconds, or a date, which may be in the past.
due(header) ==
  CASE header.kind = "seconds" -> header.value * Second
    [] header.kind = "date"    -> Larger(0, header.value)
    [] OTHER                   -> 0

\* int() drops the fraction of a second.
whole_seconds(d) == d - (d % Second)

\* What fetch() makes of it: the time until a date is cut to whole seconds.
parse_retry(header) ==
  IF header.kind = "date" THEN whole_seconds(due(header)) ELSE due(header)

\* The most that can be lost: less than a second.
leeway_of(header) ==
  IF header.kind = "date" THEN Smaller(Second - 1, due(header)) ELSE 0

NoHeader == [kind |-> "none", value |-> 0]

backoff(i) == (2^i - 1) * BackoffFactor

\* Ticks that may pass during a sleep of delay * random.uniform(lower, max),
\* which orders its bounds by itself.
jitter_delay(delay, preserve_floor) ==
  LET lower == IF preserve_floor THEN Larger(100, JitterMin) ELSE JitterMin
  IN  ((delay * Smaller(lower, JitterMax)) \div 100)
        ..((delay * Larger(lower, JitterMax) + 99) \div 100)

delay_before(t) == IF retry[t] > 0 THEN retry[t] ELSE backoff(attempt[t])

\* Mutant: the jitter is applied to Retry-After too.
sleep_for_no_floor(t) == jitter_delay(delay_before(t), FALSE)

sleep_for(t) ==
  {IF retry[t] > 0 THEN Larger(retry[t], d) ELSE d :
     d \in jitter_delay(delay_before(t), retry[t] > 0)}

-----------------------------------------------------------------------------
(* The beginning of fetch(), up to its loop.                               *)

Start(t) ==
  /\ pc[t] \in Ended
  /\ fetches < MaxFetches
  /\ fetches' = fetches + 1
  /\ pc' = [pc EXCEPT ![t] = "limiter"]
  /\ attempt' = [attempt EXCEPT ![t] = 0]
  /\ retry' = [retry EXCEPT ![t] = 0]
  /\ completed' = [completed EXCEPT ![t] = 0]
  /\ paid' = [paid EXCEPT ![t] = 0]
  /\ result' = [result EXCEPT ![t] = ErrorBody("server_error")]
  /\ UNCHANGED <<budget, timers, bucket, remaining>>

EnterLoop(t, b) ==
  /\ bucket' = [bucket EXCEPT ![t] = b]
  /\ add(b)
  /\ left' = [left EXCEPT ![t] = TotalTimeout]
  /\ pc' = [pc EXCEPT ![t] = "top"]
  /\ UNCHANGED <<fetches, attempt, remaining, retry, owed, leeway, nap, completed,
                 paid, result>>

LimiterHit(t) ==
  /\ pc[t] = "limiter"
  /\ cached # NoBucket
  /\ EnterLoop(t, cached)
  /\ UNCHANGED cached

\* Mutant: every call makes a Bucket, as without the cache.
LimiterUncached(t) ==
  /\ pc[t] = "limiter"
  /\ tokens' = [tokens EXCEPT ![t] = Capacity * Unit]
  /\ pc' = [pc EXCEPT ![t] = "made"]
  /\ UNCHANGED <<cached, started, spent, timers, fetches, bucket, attempt,
                 remaining, retry, completed, paid, result>>

\* lru_cache does not hold a lock while it computes a missing value...
LimiterMiss(t) ==
  /\ pc[t] = "limiter"
  /\ cached = NoBucket
  /\ tokens' = [tokens EXCEPT ![t] = Capacity * Unit]
  /\ pc' = [pc EXCEPT ![t] = "made"]
  /\ UNCHANGED <<cached, started, spent, timers, fetches, bucket, attempt,
                 remaining, retry, completed, paid, result>>

\* Mutant: a thread that finds another Bucket cached waits for its turn.
LimiterCacheInTurn(t) ==
  /\ pc[t] = "made"
  /\ cached = NoBucket
  /\ EnterLoop(t, t)
  /\ cached' = t

\* ...so the thread returns its own Bucket even if another one got cached.
LimiterCache(t) ==
  /\ pc[t] = "made"
  /\ EnterLoop(t, t)
  /\ cached' = IF cached = NoBucket THEN t ELSE cached

-----------------------------------------------------------------------------
(* One iteration of the loop.  Every iteration but the first begins with a *)
(* pending retry.                                                          *)

\* The call is over; its timers go out of scope.
Leave(t, how) ==
  /\ pc' = [pc EXCEPT ![t] = how]
  /\ left' = [left EXCEPT ![t] = TotalTimeout]
  /\ nap' = [nap EXCEPT ![t] = 0]
  /\ owed' = [owed EXCEPT ![t] = 0]
  /\ leeway' = [leeway EXCEPT ![t] = 0]
  /\ remaining' = [remaining EXCEPT ![t] = 0]
  /\ UNCHANGED <<fetches, bucket, attempt, completed>>

Return(t) ==
  /\ Leave(t, "returned")
  /\ UNCHANGED <<retry, paid, result>>

Transmit(t) ==
  /\ pc' = [pc EXCEPT ![t] = "sent"]
  /\ attempt' = [attempt EXCEPT ![t] = @ + 1]
  /\ owed' = [owed EXCEPT ![t] = 0]
  /\ leeway' = [leeway EXCEPT ![t] = 0]
  /\ UNCHANGED <<budget, left, nap, fetches, bucket, remaining, retry, paid, result>>

AtTop(t) == pc[t] = "top" /\ attempt[t] <= TotalRetries

\* Mutant: the backoff is forgotten.
NoBackoff(t) == attempt[t] = 0 \/ retry[t] = 0

NoDelay(t) == attempt[t] = 0 \/ delay_before(t) = 0

Exhausted(t) ==
  /\ pc[t] = "top"
  /\ attempt[t] > TotalRetries
  /\ Return(t)
  /\ UNCHANGED budget

TooLate(t) ==
  /\ AtTop(t)
  /\ IF NoDelay(t) THEN left[t] <= 0 ELSE delay_before(t) > left[t]
  /\ Return(t)
  /\ UNCHANGED budget

\* The first attempt, or a retry without a delay, for which nothing is paid.
\* Here and in WakeAndSend the clock is read and the request sent in one step.
SendNow(t) ==
  /\ AtTop(t)
  /\ NoDelay(t)
  /\ left[t] > 0
  /\ Transmit(t)
  /\ UNCHANGED completed

PlanRetry(t) ==
  /\ AtTop(t)
  /\ ~NoDelay(t)
  /\ delay_before(t) <= left[t]
  /\ pc' = [pc EXCEPT ![t] = "pay"]
  /\ remaining' = [remaining EXCEPT ![t] = left[t]]
  /\ UNCHANGED <<budget, timers, fetches, bucket, attempt, retry, completed,
                 paid, result>>

BudgetExhausted(t) ==
  /\ pc[t] = "pay"
  /\ ~can_consume(bucket[t])
  /\ Return(t)
  /\ UNCHANGED budget

\* What the sleep was computed from is not read again: the next answer and the
\* next iteration replace it.
FallAsleep(t, d) ==
  /\ pc' = [pc EXCEPT ![t] = "nap"]
  /\ nap' = [nap EXCEPT ![t] = d]
  /\ retry' = [retry EXCEPT ![t] = 0]
  /\ remaining' = [remaining EXCEPT ![t] = 0]
  /\ UNCHANGED <<left, owed, leeway, fetches, bucket, attempt, completed>>

\* The token is gone even if the jittered sleep turns out to be too long.
PayRetry(t) ==
  /\ pc[t] = "pay"
  /\ consume(bucket[t])
  /\ paid' = [paid EXCEPT ![t] = @ + 1]
  /\ \E d \in sleep_for(t) :
       \/ d > remaining[t] /\ Leave(t, "returned") /\ UNCHANGED retry
       \/ d <= remaining[t] /\ FallAsleep(t, d)
  /\ UNCHANGED <<cached, result>>

WakeTooLate(t) ==
  /\ pc[t] = "nap" /\ nap[t] = 0
  /\ left[t] <= 0
  /\ Return(t)
  /\ UNCHANGED budget

\* Mutant: the time left is not computed again after the sleep.
WakeUnchecked(t) ==
  /\ pc[t] = "nap" /\ nap[t] = 0
  /\ completed' = [completed EXCEPT ![t] = @ + 1]
  /\ Transmit(t)

WakeAndSend(t) ==
  /\ pc[t] = "nap" /\ nap[t] = 0
  /\ left[t] > 0
  /\ completed' = [completed EXCEPT ![t] = @ + 1]
  /\ Transmit(t)

\* The answer, or the lack of one, is classified; the last retryable one is
\* replaced by its normalized error.
Receive(t, a, header) ==
  /\ pc[t] = "sent"
  /\ LET seen == IF a.status = NoStatus THEN NoHeader ELSE header
     IN  /\ retry' = [retry EXCEPT ![t] = parse_retry(seen)]
         /\ \/ /\ token_endpoint_outcome(a.status, a.body).retryable
               /\ pc' = [pc EXCEPT ![t] = "top"]
               /\ owed' = [owed EXCEPT ![t] = due(seen)]
               /\ leeway' = [leeway EXCEPT ![t] = leeway_of(seen)]
               /\ UNCHANGED <<left, nap, remaining, fetches, bucket, attempt, completed>>
            \/ /\ ~token_endpoint_outcome(a.status, a.body).retryable
               /\ Leave(t, "returned")
  /\ result' = [result EXCEPT ![t] = fetch_result(a.status, a.body)]
  /\ UNCHANGED <<budget, paid>>

\* JSON that is not an object, or a status http.HTTPStatus does not know.
Raise(t) ==
  /\ pc[t] = "sent"
  /\ Leave(t, "raised")
  /\ UNCHANGED <<budget, retry, paid, result>>

-----------------------------------------------------------------------------
Tick ==
  /\ left' = [t \in Threads |->
       IF pc[t] \in Timed THEN Larger(-1, left[t] - 1) ELSE left[t]]
  /\ nap' = [t \in Threads |-> Larger(0, nap[t] - 1)]
  /\ owed' = [t \in Threads |-> Larger(0, owed[t] - 1)]
  /\ UNCHANGED <<budget, fetches, pc, bucket, attempt, remaining, retry, leeway,
                 completed, paid, result>>

Prepare(t) == LimiterHit(t) \/ LimiterMiss(t) \/ LimiterCache(t)

Iterate(t) ==
  \/ Exhausted(t) \/ TooLate(t) \/ SendNow(t) \/ PlanRetry(t)
  \/ BudgetExhausted(t) \/ PayRetry(t) \/ WakeTooLate(t) \/ WakeAndSend(t)

Respond(t) ==
  \/ \E a \in Answers, header \in RetryAfters : Receive(t, a, header)
  \/ Raise(t)

Next ==
  \/ \E t \in Threads : Start(t) \/ Prepare(t) \/ Iterate(t) \/ Respond(t)
  \/ Tick

Spec == Init /\ [][Next]_vars

\* Threads are scheduled, time passes, and every request ends.  The timeout
\* given to requests bounds each wait for data, so that a provider that keeps
\* sending a little ends by itself, not by the timeout.
Fairness ==
  /\ \A t \in Threads :
       WF_vars(Prepare(t)) /\ WF_vars(Iterate(t)) /\ WF_vars(Respond(t))
  /\ WF_vars(Tick)

FairSpec == Spec /\ Fairness

-----------------------------------------------------------------------------
TypeOK ==
  /\ cached \in Threads \cup {NoBucket}
  /\ tokens \in [Threads -> 0..(Capacity * Unit)]
  /\ started \in [Threads -> 0..MaxFetches]
  /\ spent \in [Threads -> Nat]
  /\ fetches \in 0..MaxFetches
  /\ pc \in [Threads -> Ended \cup Timed \cup {"limiter", "made"}]
  /\ bucket \in [Threads -> Threads \cup {NoBucket}]
  /\ attempt \in [Threads -> 0..(TotalRetries + 1)]
  /\ left \in [Threads -> -1..TotalTimeout]
  /\ remaining \in [Threads -> 0..TotalTimeout]
  /\ retry \in [Threads -> Nat]
  /\ owed \in [Threads -> Nat]
  /\ leeway \in [Threads -> 0..(Second - 1)]
  /\ nap \in [Threads -> 0..TotalTimeout]
  /\ completed \in [Threads -> 0..TotalRetries]
  /\ paid \in [Threads -> 0..TotalRetries]

\* The retries a Bucket admits never exceed its capacity plus what the
\* fetches that used it brought in, whatever the threads do at the same time
\* (bucket.py:14-23, _core.py:181, 211).
RetriesWithinBudget ==
  \A b \in Threads :
    tokens[b] + Unit * spent[b] <= Capacity * Unit + Refill * started[b]

\* "Each admitted retry consumes one whole token" (_retry.py:36).
EveryRetryIsPaid ==
  \A t \in Threads : attempt[t] <= 1 + paid[t]

\* No request is sent once the total timeout has passed, although the time
\* that remains was computed before waiting for the lock and sleeping
\* (_core.py:243-254).  The last look at the clock and the request it allows
\* are one step.
NothingSentAfterDeadline ==
  [][\A t \in Threads : attempt'[t] > attempt[t] => left[t] > 0]_vars

\* Retry-After is a floor: jitter, the backoff and the budget may lengthen the
\* wait, never shorten it (_core.py:224-226, 487-489).  A number of seconds is
\* waited for to the end; the wait for a date may end early, by the fraction
\* of a second that int() dropped and never by a second (_core.py:477).
RetryAfterIsFloor ==
  [][\A t \in Threads : attempt'[t] > attempt[t] => owed[t] <= leeway[t]]_vars

PhaseOf(q) == IF q \in Ended \cup {"sent"} THEN q ELSE "running"
Promise == INSTANCE FetchSpec WITH
  phase <- [t \in Threads |-> PhaseOf(pc[t])],
  sends <- attempt

\* fetch() keeps its promise to its callers (FetchSpec): never more than
\* total_retries + 1 requests (_core.py:193), no request after a final answer,
\* and the body of a retryable answer never reaches them (_core.py:295-317).
KeepsPromise == Promise!Spec

\* Every call of fetch() ends.
FetchEnds ==
  \A t \in Threads : pc[t] \notin Ended ~> pc[t] \in Ended
=============================================================================
