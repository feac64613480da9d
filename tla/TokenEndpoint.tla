---------------------------- MODULE TokenEndpoint ----------------------------
(***************************************************************************)
(* The /token endpoint (views.py), the tokens table (db.py) it reads and   *)
(* writes, and the upstream provider it refreshes grants with.             *)
(*                                                                         *)
(* Every worker thread serves one request at a time.  Between looking up   *)
(* the row and writing it back a worker talks to the provider, so it works *)
(* on a snapshot that other workers may have overtaken.  The retry loop of *)
(* oauth.fetch() is abstracted to its sends and answers: when it gives up  *)
(* (budget, deadline) is any time it could.                                *)
(***************************************************************************)
EXTENDS OAuthOutcome

CONSTANTS
  Workers,                \* threads that serve /token requests
  Clients,                \* client ids issued, or still to be issued
  Secrets,                \* client secrets a request may present
  SecretOf,               \* the secret issued together with each client id
  NoRow,                  \* no row in the tokens table
  Revoked,                \* a row whose token is NULL
  TotalRetries,           \* settings.fetch.total_retries
  LegacyRows,             \* whether rows written by old releases may exist
  MaxRefresh,             \* bound: refresh tokens issued per grant
  Renewals,               \* what a refresh may return: "omit", "echo", "rotate"
  FailureStatuses,        \* statuses of the provider's other answers
  FailureErrors,          \* error codes of the provider's other answers
  ContradictoryStatuses   \* statuses it may claim invalid_grant with, wrongly

RefreshTokens == 0..MaxRefresh    \* NoToken, or the n-th token of the grant

\* What a token record holds, and the same encrypted under a client's secret.
Token == [refresh : RefreshTokens, unneeded : BOOLEAN]
EncryptedToken == [key : Secrets, data : Token]

ErrorCodes == FailureErrors \cup OAuthErrors \cup {NoError}
Body == [error : ErrorCodes, token : BOOLEAN, refresh : RefreshTokens]
Answer == [status : Statuses \cup {NoStatus}, body : Body]

ASSUME TokenEndpointAssumption ==
  /\ SecretOf \in [Clients -> Secrets]
  /\ NoRow # Revoked
  /\ NoRow \notin EncryptedToken /\ Revoked \notin EncryptedToken
  /\ TotalRetries \in Nat
  /\ LegacyRows \in BOOLEAN
  /\ MaxRefresh \in Nat \ {0}
  /\ Renewals \subseteq {"omit", "echo", "rotate"}
  /\ FailureStatuses \subseteq Statuses
  /\ ContradictoryStatuses \subseteq Statuses
  /\ NoError \notin FailureErrors
  /\ \A code \in FailureErrors \cup {"server_error", "temporarily_unavailable"} :
       normalize_error(code, TOKEN_ERRORS, "server_error") # "invalid_grant"

VARIABLES
  db,       \* the tokens table: client -> NoRow, Revoked or an encrypted token
  live,     \* provider: whether the user still grants access
  newest,   \* provider: the newest refresh token of each grant
  stray,    \* requests no worker waits for that may still reach the provider
  pc,       \* where each worker is in token()
  client,   \* client_id of its request
  secret,   \* client_secret of its request
  row,      \* the decrypted record it looked up
  tries,    \* requests it sent to the provider
  answer,   \* the last answer it got from the provider
  result,   \* fetch()'s result so far
  resp      \* what its last finished request was answered with

provider == <<live, newest, stray>>

vars ==
  <<db, provider, pc, client, secret, row, tries, answer, result, resp>>

Stray == [client : Clients, refresh : RefreshTokens]

EmptyToken == [refresh |-> NoToken, unneeded |-> FALSE]
NoAnswer == [status |-> NoStatus, body |-> ErrorBody("server_error")]

Responses ==
  OAuthErrors \cup {"none", "token", "stored_token", "workaround", "internal_error", "lost"}

Legacy(c) == [key |-> SecretOf[c], data |-> [refresh |-> 1, unneeded |-> TRUE]]

Init ==
  /\ \E old \in SUBSET (IF LegacyRows THEN Clients ELSE {}) :
       db = [c \in Clients |-> IF c \in old THEN Legacy(c) ELSE NoRow]
  /\ live = [c \in Clients |-> TRUE]
  /\ newest = [c \in Clients |-> 1]
  /\ stray = {}
  /\ pc = [w \in Workers |-> "idle"]
  /\ client \in [Workers -> Clients]
  /\ secret = [w \in Workers |-> SecretOf[client[w]]]
  /\ row = [w \in Workers |-> EmptyToken]
  /\ tries = [w \in Workers |-> 0]
  /\ answer = [w \in Workers |-> NoAnswer]
  /\ result = [w \in Workers |-> ErrorBody("server_error")]
  /\ resp = [w \in Workers |-> "none"]

-----------------------------------------------------------------------------
(* crypto.py: a record decrypts under the key it was encrypted with only.  *)

dumps(key, data) == [key |-> key, data |-> data]

\* Mutant: any secret is accepted.
loads_unchecked(key, token) == FALSE

loads_fails(key, token) == token.key # key

\* db.update(): one UPDATE in a transaction of its own.
update(c, token) == db' = [db EXCEPT ![c] = token]

-----------------------------------------------------------------------------
(* The end of a request: the worker's locals go out of scope.              *)

Return(w, response) ==
  /\ pc' = [pc EXCEPT ![w] = "idle"]
  /\ resp' = [resp EXCEPT ![w] = response]
  /\ row' = [row EXCEPT ![w] = EmptyToken]
  /\ tries' = [tries EXCEPT ![w] = 0]
  /\ answer' = [answer EXCEPT ![w] = NoAnswer]
  /\ result' = [result EXCEPT ![w] = ErrorBody("server_error")]
  /\ UNCHANGED <<client, secret>>

\* A request that is answered from the row alone.
Serve(w, c, response) ==
  /\ pc[w] = "idle"
  /\ client' = [client EXCEPT ![w] = c]
  /\ resp' = [resp EXCEPT ![w] = response]
  /\ UNCHANGED <<db, provider, pc, secret, row, tries, answer, result>>

\* A request that is malformed, or whose credentials are.
RequestErrors ==
  {"unsupported_grant_type", "invalid_scope", "invalid_client", "invalid_request"}

Reject(w, c) == \E error \in RequestErrors : Serve(w, c, error)

UnknownClient(w, c) ==
  /\ db[c] = NoRow
  /\ Serve(w, c, "invalid_client")

\* Only selected user agents get the workaround token.
ServeRevoked(w, c) ==
  /\ db[c] = Revoked
  /\ Serve(w, c, "invalid_grant") \/ Serve(w, c, "workaround")

WrongSecret(w, c, s) ==
  /\ db[c] \in EncryptedToken
  /\ loads_fails(s, db[c])
  /\ Serve(w, c, "invalid_client")

\* A grant without a refresh token: the token itself was stored.
ServeStored(w, c, s) ==
  /\ db[c] \in EncryptedToken
  /\ ~loads_fails(s, db[c])
  /\ db[c].data.refresh = NoToken
  /\ Serve(w, c, "stored_token")

LookupFails(w, c) == Serve(w, c, "internal_error")

BeginRefresh(w, c, s) ==
  /\ pc[w] = "idle"
  /\ db[c] \in EncryptedToken
  /\ ~loads_fails(s, db[c])
  /\ db[c].data.refresh # NoToken
  /\ pc' = [pc EXCEPT ![w] = "fetch"]
  /\ client' = [client EXCEPT ![w] = c]
  /\ secret' = [secret EXCEPT ![w] = s]
  /\ row' = [row EXCEPT ![w] = db[c].data]
  /\ resp' = [resp EXCEPT ![w] = "none"]
  /\ UNCHANGED <<db, provider, tries, answer, result>>

-----------------------------------------------------------------------------
(* The provider.  It is outside the repository: these actions are what     *)
(* token() and fetch() have to cope with.                                  *)

\* A refresh token is accepted while the user grants access, and until the
\* provider replaced it by a newer one.
Accepts(c, token) == live[c] /\ token = newest[c]

Answered(w, status, body) ==
  /\ pc[w] = "sent"
  /\ pc' = [pc EXCEPT ![w] = "answered"]
  /\ answer' = [answer EXCEPT ![w] = [status |-> status, body |-> body]]
  /\ UNCHANGED <<db, live, client, secret, row, tries, result, resp>>

\* The refresh token a successful answer carries; a rotated one replaces the
\* token that was used.
Renew(c, token) ==
  \/ "omit" \in Renewals /\ token = NoToken /\ UNCHANGED newest
  \/ "echo" \in Renewals /\ token = newest[c] /\ UNCHANGED newest
  \/ /\ "rotate" \in Renewals
     /\ newest[c] < MaxRefresh
     /\ token = newest[c] + 1
     /\ newest' = [newest EXCEPT ![c] = token]

Grant(w) ==
  /\ Accepts(client[w], row[w].refresh)
  /\ \E token \in RefreshTokens :
       /\ Renew(client[w], token)
       /\ Answered(w, 200, [error |-> NoError, token |-> TRUE, refresh |-> token])
  /\ UNCHANGED stray

Refuse(w) ==
  /\ ~Accepts(client[w], row[w].refresh)
  /\ Answered(w, 400, ErrorBody("invalid_grant"))
  /\ UNCHANGED <<newest, stray>>

\* An answer that says nothing about the grant: an error, an empty object, a
\* body that is not JSON, or a retryable status whose body looks successful.
Disturb(w, status) ==
  /\ \/ \E error \in FailureErrors, token \in BOOLEAN :
          Answered(w, status, [error |-> error, token |-> token, refresh |-> NoToken])
     \/ Answered(w, status, ErrorBody(NoError))
     \/ Answered(w, status, UndecodableBody(status))
     \/ /\ retryable(status)
        /\ Answered(w, status, [error |-> NoError, token |-> TRUE, refresh |-> NoToken])
  /\ UNCHANGED <<newest, stray>>

Contradict(w, status) ==
  /\ Answered(w, status, ErrorBody("invalid_grant"))
  /\ UNCHANGED <<newest, stray>>

\* No response: connection failure or timeout.  The request, or its answer,
\* may only have been delayed.
TimeOut(w) ==
  /\ Answered(w, NoStatus, ErrorBody("server_error"))
  /\ stray' = stray \cup {[client |-> client[w], refresh |-> row[w].refresh]}
  /\ UNCHANGED newest

StrayGranted(s) ==
  /\ s \in stray
  /\ Accepts(s.client, s.refresh)
  /\ \E token \in RefreshTokens : Renew(s.client, token)
  /\ stray' = stray \ {s}
  /\ UNCHANGED <<db, live, pc, client, secret, row, tries, answer, result, resp>>

UserRevokes(c) ==
  /\ live[c]
  /\ live' = [live EXCEPT ![c] = FALSE]
  /\ UNCHANGED <<db, newest, stray, pc, client, secret, row, tries, answer,
                 result, resp>>

-----------------------------------------------------------------------------
(* oauth.fetch() as token() sees it.                                       *)

\* Mutant: a retry is not counted as an attempt.
SendUncounted(w) ==
  /\ pc[w] = "fetch"
  /\ tries[w] <= TotalRetries
  /\ pc' = [pc EXCEPT ![w] = "sent"]
  /\ UNCHANGED <<db, provider, client, secret, row, tries, answer, result, resp>>

Send(w) ==
  /\ pc[w] = "fetch"
  /\ tries[w] <= TotalRetries
  /\ pc' = [pc EXCEPT ![w] = "sent"]
  /\ tries' = [tries EXCEPT ![w] = @ + 1]
  /\ UNCHANGED <<db, provider, client, secret, row, answer, result, resp>>

\* The loop ends without sending: no tries, time or retry budget left.
GiveUp(w) ==
  /\ pc[w] = "fetch"
  /\ pc' = [pc EXCEPT ![w] = "settled"]
  /\ UNCHANGED <<db, provider, client, secret, row, tries, answer, result, resp>>

Receive(w) ==
  /\ pc[w] = "answered"
  /\ pc' = [pc EXCEPT ![w] =
       IF token_endpoint_outcome(answer[w].status, answer[w].body).retryable
         THEN "fetch" ELSE "settled"]
  /\ result' = [result EXCEPT ![w] =
       fetch_result(answer[w].status, answer[w].body)]
  /\ UNCHANGED <<db, provider, client, secret, row, tries, answer, resp>>

\* JSON that is not an object, or a status http.HTTPStatus does not know.
Raise(w) ==
  /\ pc[w] = "sent"
  /\ Return(w, "internal_error")
  /\ UNCHANGED <<db, provider>>

-----------------------------------------------------------------------------
(* token() after fetch() returned.                                         *)

Outcome(w) == view_outcome(result[w])

\* Mutant: every refresh error drops the token.
RevokeOnAnyError(w) ==
  /\ pc[w] = "settled"
  /\ result[w].error # NoError
  /\ update(client[w], Revoked)
  /\ Return(w, Outcome(w).normalized_error)
  /\ UNCHANGED provider

RevokeGrant(w) ==
  /\ pc[w] = "settled"
  /\ result[w].error # NoError
  /\ Outcome(w).invalidate_refresh_token
  /\ update(client[w], Revoked)
  /\ Return(w, Outcome(w).normalized_error)
  /\ UNCHANGED provider

RefreshError(w) ==
  /\ pc[w] = "settled"
  /\ result[w].error # NoError
  /\ ~Outcome(w).invalidate_refresh_token
  /\ Return(w, Outcome(w).normalized_error)
  /\ UNCHANGED <<db, provider>>

InvalidResponse(w) ==
  /\ pc[w] = "settled"
  /\ result[w].error = NoError
  /\ ~validate_token(result[w])
  /\ Return(w, "invalid_request")
  /\ UNCHANGED <<db, provider>>

\* Mutant: the provider's new refresh token is not taken over.
modified_keeps_old(w) == [refresh |-> row[w].refresh, unneeded |-> FALSE]

\* The record to keep: without the access token, with the newer refresh token.
modified(w) ==
  [refresh  |-> IF result[w].refresh = NoToken THEN row[w].refresh
                                               ELSE result[w].refresh,
   unneeded |-> FALSE]

Refreshed(w) ==
  /\ pc[w] = "settled"
  /\ result[w].error = NoError
  /\ validate_token(result[w])

\* Mutant: the row is written back even if nothing changed.
StoreAlways(w) ==
  /\ Refreshed(w)
  /\ update(client[w], dumps(secret[w], modified(w)))
  /\ Return(w, "token")
  /\ UNCHANGED provider

StoreAndRespond(w) ==
  /\ Refreshed(w)
  /\ modified(w) # row[w]
  /\ update(client[w], dumps(secret[w], modified(w)))
  /\ Return(w, "token")
  /\ UNCHANGED provider

Respond(w) ==
  /\ Refreshed(w)
  /\ modified(w) = row[w]
  /\ Return(w, "token")
  /\ UNCHANGED <<db, provider>>

\* The write raises sqlite3.Error and is rolled back.
UpdateFails(w) ==
  /\ pc[w] = "settled"
  /\ \/ result[w].error # NoError /\ Outcome(w).invalidate_refresh_token
     \/ Refreshed(w) /\ modified(w) # row[w]
  /\ Return(w, "internal_error")
  /\ UNCHANGED <<db, provider>>

\* The process dies; a request it was waiting for may still be processed.
Crash(w) ==
  /\ pc[w] # "idle"
  /\ Return(w, "lost")
  /\ stray' = IF pc[w] = "sent"
                THEN stray \cup {[client |-> client[w], refresh |-> row[w].refresh]}
                ELSE stray
  /\ UNCHANGED <<db, live, newest>>

\* callback() stores a new grant: scrubbed when it can be refreshed, else whole.
NewTokens == {[refresh |-> 1, unneeded |-> FALSE],
              [refresh |-> NoToken, unneeded |-> TRUE]}

Insert(c) ==
  /\ db[c] = NoRow
  /\ \E data \in NewTokens :
       db' = [db EXCEPT ![c] = dumps(SecretOf[c], data)]
  /\ UNCHANGED <<provider, pc, client, secret, row, tries, answer, result, resp>>

-----------------------------------------------------------------------------
Request(w) ==
  \E c \in Clients :
    \/ Reject(w, c)
    \/ UnknownClient(w, c)
    \/ ServeRevoked(w, c)
    \/ LookupFails(w, c)
    \/ \E s \in Secrets :
         WrongSecret(w, c, s) \/ ServeStored(w, c, s) \/ BeginRefresh(w, c, s)

ProviderAnswers(w) ==
  \/ Grant(w)
  \/ Refuse(w)
  \/ \E status \in FailureStatuses : Disturb(w, status)
  \/ \E status \in ContradictoryStatuses : Contradict(w, status)
  \/ TimeOut(w)

Progress(w) ==
  \/ Send(w) \/ GiveUp(w) \/ Receive(w) \/ Raise(w)
  \/ RevokeGrant(w) \/ RefreshError(w) \/ InvalidResponse(w)
  \/ StoreAndRespond(w) \/ Respond(w) \/ UpdateFails(w)

Next ==
  \/ \E w \in Workers :
       Request(w) \/ ProviderAnswers(w) \/ Progress(w) \/ Crash(w)
  \/ \E c \in Clients : Insert(c) \/ UserRevokes(c)
  \/ \E s \in Stray : StrayGranted(s)

Spec == Init /\ [][Next]_vars

\* A running handler keeps running, and every request to the provider ends.  The
\* timeout bounds each wait for data, so of a provider that keeps sending a
\* little it is assumed that it comes to an end.
Fairness ==
  \A w \in Workers : WF_vars(Progress(w)) /\ WF_vars(ProviderAnswers(w))

FairSpec == Spec /\ Fairness

-----------------------------------------------------------------------------
TypeOK ==
  /\ db \in [Clients -> {NoRow, Revoked} \cup EncryptedToken]
  /\ live \in [Clients -> BOOLEAN]
  /\ newest \in [Clients -> 1..MaxRefresh]
  /\ stray \in SUBSET Stray
  /\ pc \in [Workers -> {"idle", "fetch", "sent", "answered", "settled"}]
  /\ client \in [Workers -> Clients]
  /\ secret \in [Workers -> Secrets]
  /\ row \in [Workers -> Token]
  /\ tries \in [Workers -> 0..(TotalRetries + 1)]
  /\ answer \in [Workers -> Answer]
  /\ result \in [Workers -> Body]
  /\ resp \in [Workers -> Responses]

\* A row the bridge marked revoked (views.py:265) belongs to a grant that the
\* user really withdrew: no order of retries, contradictory answers, timeouts
\* and concurrent refreshes makes token() drop a refresh token that still works.
RevokedIsDead ==
  \A c \in Clients : db[c] = Revoked => ~live[c]

\* A client is told invalid_grant (views.py:230, 290), upon which it discards
\* its credentials, only when the grant is gone.
InvalidGrantMeansDead ==
  \A w \in Workers : resp[w] = "invalid_grant" => ~live[client[w]]

\* However rows are rewritten (views.py:319), the client that was given the
\* secret can still decrypt its own.
RowsKeepTheirKey ==
  \A c \in Clients : db[c] \in EncryptedToken => db[c].key = SecretOf[c]

\* When the last answer of the provider was retryable, whatever its body
\* said, the client is told to come back later (503) and the stored token is
\* kept (_core.py:303, views.py:261, _core.py:107-110).
RetryableIsUnavailable ==
  [][\A w \in Workers :
       /\ pc[w] = "settled" /\ pc'[w] = "idle"
       /\ tries[w] > 0
       /\ retryable(answer[w].status)
       => /\ resp'[w] = "lost" \/ error_status(resp'[w]) = 503
          /\ UNCHANGED db]_vars

\* Once a grant is marked revoked it stays so, although handlers are still at
\* work on older copies of the row: only one whose copy an old release wrote,
\* which it has to scrub, puts a token back (views.py:304-319).
RevivedOnlyByScrub ==
  [][\A c \in Clients :
       db[c] = Revoked /\ db'[c] # Revoked =>
         \E w \in Workers : /\ client[w] = c
                            /\ pc[w] = "settled" /\ pc'[w] = "idle"
                            /\ row[w].unneeded]_vars

\* A token is dropped only on a 400 from the provider (README: "For Spotify,
\* this means `400` with OAuth error `invalid_grant`").
RevokedOnlyOn400 ==
  [][\A c \in Clients :
       db[c] # Revoked /\ db'[c] = Revoked =>
         \E w \in Workers : /\ client[w] = c
                            /\ pc[w] = "settled" /\ pc'[w] = "idle"
                            /\ answer[w].status = 400]_vars

\* The token that is dropped is one the provider no longer accepts (README:
\* "not proof that the stored refresh token is dead").
DropsOnlyDeadTokens ==
  [][\A c \in Clients :
       db[c] \in EncryptedToken /\ db'[c] = Revoked =>
         ~Accepts(c, db[c].data.refresh)]_vars

\* When a client is given its token, the refresh token that came with it, or a
\* newer one, is in the row, unless the grant was revoked in the meantime
\* (views.py:307-319; README: "the bridge stores it").
IssuedTokenIsKept ==
  [][\A w \in Workers :
       /\ pc[w] = "settled" /\ resp'[w] = "token" /\ pc'[w] = "idle"
       /\ result[w].refresh # NoToken
       /\ db'[client[w]] # Revoked
       => db'[client[w]].data.refresh >= result[w].refresh]_vars

\* A write never replaces a stored refresh token by an older one.
NeverGoesBack ==
  [][\A c \in Clients :
       db[c] \in EncryptedToken /\ db'[c] \in EncryptedToken =>
         db'[c].data.refresh >= db[c].data.refresh]_vars

\* Every request is answered: the loop ends, whatever the provider does.
RequestsEnd ==
  \A w \in Workers : pc[w] # "idle" ~> pc[w] = "idle"
=============================================================================
