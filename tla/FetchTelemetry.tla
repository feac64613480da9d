--------------------------- MODULE FetchTelemetry ---------------------------
(***************************************************************************)
(* What fetch() tells the operator about its retries: the counters of      *)
(* attempts and of retries it decided to skip (telemetry/__init__.py:77-84)*)
(* and the retries it reports when it returns.  Every step of Fetch is     *)
(* taken as it is; this module adds what the step records.                 *)
(***************************************************************************)
EXTENDS Fetch

VARIABLE tally   \* what each call recorded so far

tvars == <<vars, tally>>

NothingRecorded ==
  [attempts |-> 0,   \* attempts of either kind
   retries  |-> 0,   \* attempts of kind "retry"
   skips    |-> 0,   \* decisions not to, whatever the reason
   refusals |-> 0]   \* history: retryable answers

TInit == Init /\ tally = [t \in Threads |-> NothingRecorded]

Record(t, fields) ==
  tally' = [tally EXCEPT ![t] =
    [f \in DOMAIN @ |-> IF f \in fields THEN @[f] + 1 ELSE @[f]]]

\* The kind of an attempt depends on the retries that were completed.
Attempt(t) ==
  {"attempts"} \cup IF completed'[t] > 0 THEN {"retries"} ELSE {}

\* Without a delay the attempt is recorded before the time is looked at.
Hurried(t) == NoDelay(t) /\ (attempt[t] = 0 \/ left[t] = 0)

TooLateRecorded(t) ==
  /\ TooLate(t)
  /\ Record(t, {"skips"} \cup IF Hurried(t) THEN Attempt(t) ELSE {})

SentRecorded(t) ==
  /\ SendNow(t) \/ WakeAndSend(t)
  /\ Record(t, Attempt(t))

\* Mutant: the attempt is counted although it is never sent.
WakeCountedEarly(t) ==
  /\ WakeTooLate(t) \/ BudgetExhausted(t) \/ Exhausted(t)
  /\ Record(t, {"skips", "attempts", "retries"})

SkipRecorded(t) ==
  /\ WakeTooLate(t) \/ BudgetExhausted(t) \/ Exhausted(t)
  /\ Record(t, {"skips"})

\* Mutant: a sleep that would be too long is not recorded.
PaySilently(t) ==
  /\ PayRetry(t)
  /\ UNCHANGED tally

PayRecorded(t) ==
  /\ PayRetry(t)
  /\ Record(t, IF pc'[t] = "returned" THEN {"skips"} ELSE {})

AnswerRecorded(t, a, header) ==
  /\ Receive(t, a, header)
  /\ Record(t, IF pc'[t] = "returned" THEN {} ELSE {"refusals"})

Quiet(t) ==
  /\ Prepare(t) \/ PlanRetry(t) \/ Raise(t)
  /\ UNCHANGED tally

TNext ==
  \/ \E t \in Threads :
       \/ Start(t) /\ tally' = [tally EXCEPT ![t] = NothingRecorded]
       \/ TooLateRecorded(t) \/ SentRecorded(t) \/ SkipRecorded(t)
       \/ PayRecorded(t) \/ Quiet(t)
       \/ \E a \in Answers, header \in RetryAfters : AnswerRecorded(t, a, header)
  \/ Tick /\ UNCHANGED tally

TSpec == TInit /\ [][TNext]_tvars /\ Fairness

-----------------------------------------------------------------------------
\* The retries that are counted, and the number reported at the end, are the
\* requests that were sent after the first one: a retry that was admitted,
\* and paid, and then skipped because it woke up too late is not among them
\* (_core.py:243-265, 355; tests/telemetry_test.py:1000).
RetriesCountedWereSent ==
  \A t \in Threads :
    /\ tally[t].retries = completed[t]
    /\ attempt[t] > 0 => completed[t] = attempt[t] - 1

\* Every retryable answer is accounted for when fetch() returns: it led to a
\* retry that was sent or to a decision to skip it, and to one of them only
\* (_core.py:198-258, 333-340).
EveryRefusalIsDecided ==
  \A t \in Threads : pc[t] = "returned" /\ attempt[t] > 0 =>
    tally[t].refusals = completed[t] + tally[t].skips
=============================================================================
