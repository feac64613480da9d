------------------------------ MODULE FetchSpec ------------------------------
(***************************************************************************)
(* What oauth.fetch() promises its callers, callback() and token(): at     *)
(* most TotalRetries + 1 requests, none of them after an answer that is    *)
(* not retryable, and a result that is the provider's own body only if     *)
(* that answer was final.  When it gives up is left open.                  *)
(***************************************************************************)
EXTENDS OAuthOutcome

CONSTANTS Threads, TotalRetries, Answers

VARIABLES phase, sends, result

vars == <<phase, sends, result>>

Unknown == ErrorBody("server_error")

Init ==
  /\ phase = [t \in Threads |-> "idle"]
  /\ sends = [t \in Threads |-> 0]
  /\ result = [t \in Threads |-> Unknown]

Begin(t) ==
  /\ phase[t] \in {"idle", "returned", "raised"}
  /\ phase' = [phase EXCEPT ![t] = "running"]
  /\ sends' = [sends EXCEPT ![t] = 0]
  /\ result' = [result EXCEPT ![t] = Unknown]

\* Mutant: the range of attempts has no end.
SendUnlimited(t) ==
  /\ phase[t] = "running"
  /\ phase' = [phase EXCEPT ![t] = "sent"]
  /\ sends' = [sends EXCEPT ![t] = @ + 1]
  /\ UNCHANGED result

Send(t) ==
  /\ phase[t] = "running"
  /\ sends[t] <= TotalRetries
  /\ phase' = [phase EXCEPT ![t] = "sent"]
  /\ sends' = [sends EXCEPT ![t] = @ + 1]
  /\ UNCHANGED result

Receive(t, a) ==
  /\ phase[t] = "sent"
  /\ phase' = [phase EXCEPT ![t] =
       IF retryable(a.status) THEN "running" ELSE "returned"]
  /\ result' = [result EXCEPT ![t] =
       IF retryable(a.status) THEN ErrorBody("temporarily_unavailable") ELSE a.body]
  /\ UNCHANGED sends

GiveUp(t) ==
  /\ phase[t] = "running"
  /\ phase' = [phase EXCEPT ![t] = "returned"]
  /\ UNCHANGED <<sends, result>>

Raise(t) ==
  /\ phase[t] = "sent"
  /\ phase' = [phase EXCEPT ![t] = "raised"]
  /\ UNCHANGED <<sends, result>>

Next ==
  \E t \in Threads :
    \/ Begin(t) \/ Send(t) \/ GiveUp(t) \/ Raise(t)
    \/ \E a \in Answers : Receive(t, a)

Spec == Init /\ [][Next]_vars
=============================================================================
