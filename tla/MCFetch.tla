------------------------------- MODULE MCFetch -------------------------------
(* Small instances of Fetch for TLC.                                       *)
EXTENDS FetchTelemetry, TLC

CONSTANTS t1, t2

MCErrorTypes == "errorTransient" :> "temporarily_unavailable"

\* A token, a retryable answer that contradicts itself, no answer.
MCAnswers ==
  {[status |-> 200, body |-> [error |-> NoError, token |-> TRUE, refresh |-> NoToken]],
   [status |-> 503, body |-> ErrorBody("invalid_grant")],
   [status |-> NoStatus, body |-> ErrorBody("server_error")]}

\* One second, and dates in the past, half a second ahead and one and a half.
\* A date in the past counts like no header.
MCRetryAfters ==
  {[kind |-> "seconds", value |-> 1]}
    \cup {[kind |-> "date", value |-> d] : d \in {-3, 1, 3}}

ThreadSymmetry == Permutations(Threads)
=============================================================================
