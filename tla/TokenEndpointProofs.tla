------------------------- MODULE TokenEndpointProofs -------------------------
(***************************************************************************)
(* Proofs about TokenEndpoint, for every number of workers, clients,       *)
(* retries and every configuration of statuses and error codes.            *)
(***************************************************************************)
EXTENDS TokenEndpoint, TLAPS

\* An error body on whose strength token() answers invalid_grant.
DeniesGrant(body) ==
  body.error # NoError /\ view_outcome(body).normalized_error = "invalid_grant"

-----------------------------------------------------------------------------
(* What the classification of an answer yields.                            *)

\* A retryable answer is replaced by temporarily_unavailable, any other is kept.
LEMMA FetchResult ==
  ASSUME NEW status, NEW body
  PROVE  fetch_result(status, body) =
           IF retryable(status) THEN ErrorBody("temporarily_unavailable") ELSE body
  BY DEF fetch_result, token_endpoint_outcome

\* normalize_error always answers one of the OAuth token errors.
LEMMA NormalizeType ==
  ASSUME NEW code, NEW fallback \in TOKEN_ERRORS
  PROVE  normalize_error(code, TOKEN_ERRORS, fallback) \in TOKEN_ERRORS
  BY DEF normalize_error

\* The view judges an error body as a 400.
LEMMA ViewOutcome ==
  ASSUME NEW body, body.error # NoError
  PROVE  /\ view_outcome(body).normalized_error \in OAuthErrors
         /\ view_outcome(body).invalidate_refresh_token => DeniesGrant(body)
         /\ DeniesGrant(body) =>
              normalize_error(body.error, TOKEN_ERRORS, "server_error") = "invalid_grant"
  <1>1. "server_error" \in TOKEN_ERRORS /\ TOKEN_ERRORS \subseteq OAuthErrors
    BY DEF TOKEN_ERRORS, OAuthErrors
  <1>2. "temporarily_unavailable" \in OAuthErrors
    BY DEF OAuthErrors
  <1>3. ~is_success(400)
    BY DEF is_success
  <1>4. CASE retryable(400)
    BY <1>2, <1>4 DEF view_outcome, token_endpoint_outcome, DeniesGrant
  <1>5. CASE ~retryable(400)
    <2>1. terminal_error(400, body) =
            normalize_error(body.error, TOKEN_ERRORS, "server_error")
      BY <1>3 DEF terminal_error
    <2> QED
      BY <1>1, <1>5, <2>1, NormalizeType
      DEF view_outcome, token_endpoint_outcome, DeniesGrant
  <1> QED
    BY <1>4, <1>5

\* The errors of a disturbed provider, and the bridge's own, deny no grant.
LEMMA FailuresDenyNothing ==
  ASSUME NEW body,
         body.error \in FailureErrors \cup
           {"server_error", "temporarily_unavailable", NoError}
  PROVE  ~DeniesGrant(body)
  BY ViewOutcome, TokenEndpointAssumption DEF DeniesGrant

-----------------------------------------------------------------------------
(* Types.                                                                  *)

LEMMA ErrorBodyType ==
  ASSUME NEW error \in ErrorCodes
  PROVE  ErrorBody(error) \in Body
  BY TokenEndpointAssumption DEF ErrorBody, Body, NoToken, RefreshTokens

LEMMA BridgeErrors ==
  {"server_error", "temporarily_unavailable", "invalid_grant", "invalid_request",
   "invalid_client", NoError} \subseteq ErrorCodes
  BY DEF ErrorCodes, OAuthErrors

LEMMA FetchResultType ==
  ASSUME NEW a \in Answer
  PROVE  fetch_result(a.status, a.body) \in Body
  BY FetchResult, ErrorBodyType, BridgeErrors DEF Answer

LEMMA InitialValues ==
  /\ EmptyToken \in Token
  /\ NoAnswer \in Answer
  /\ ErrorBody("server_error") \in Body
  /\ EmptyToken.refresh = NoToken
  /\ NoAnswer.body.refresh = NoToken
  <1>1. ErrorBody("server_error") \in Body
    BY ErrorBodyType, BridgeErrors
  <1>2. NoAnswer \in Answer
    BY <1>1 DEF NoAnswer, Answer
  <1>3. NoAnswer.body.refresh = NoToken
    BY DEF NoAnswer, ErrorBody
  <1> QED
    BY <1>1, <1>2, <1>3, TokenEndpointAssumption
    DEF EmptyToken, Token, RefreshTokens, NoToken

\* Return restores the worker's locals to values of their types.
LEMMA ReturnType ==
  ASSUME TypeOK, NEW w \in Workers, NEW r \in Responses, Return(w, r)
  PROVE  /\ pc' \in [Workers -> {"idle", "fetch", "sent", "answered", "settled"}]
         /\ client' \in [Workers -> Clients]
         /\ secret' \in [Workers -> Secrets]
         /\ row' \in [Workers -> Token]
         /\ tries' \in [Workers -> 0..(TotalRetries + 1)]
         /\ answer' \in [Workers -> Answer]
         /\ result' \in [Workers -> Body]
         /\ resp' \in [Workers -> Responses]
  BY InitialValues, TokenEndpointAssumption DEF TypeOK, Return

LEMMA AnsweredType ==
  ASSUME TypeOK, NEW w \in Workers, NEW status \in Statuses \cup {NoStatus},
         NEW body \in Body, Answered(w, status, body)
  PROVE  /\ pc' \in [Workers -> {"idle", "fetch", "sent", "answered", "settled"}]
         /\ answer' \in [Workers -> Answer]
         /\ UNCHANGED <<db, live, client, secret, row, tries, result, resp>>
  BY DEF TypeOK, Answered, Answer

LEMMA StrayType ==
  ASSUME TypeOK, NEW w \in Workers
  PROVE  [client |-> client[w], refresh |-> row[w].refresh] \in Stray
  BY DEF TypeOK, Stray, Token

LEMMA RenewType ==
  ASSUME TypeOK, NEW c \in Clients, NEW token, Renew(c, token)
  PROVE  newest' \in [Clients -> 1..MaxRefresh]
  BY TokenEndpointAssumption DEF TypeOK, Renew

LEMMA NewTokensType ==
  /\ NewTokens \subseteq Token
  /\ \A data \in NewTokens : data.refresh \in {NoToken, 1}
  BY TokenEndpointAssumption DEF NewTokens, Token, RefreshTokens, NoToken

\* Every step keeps every variable within its type.
LEMMA TypeStep ==
  ASSUME TypeOK, [Next]_vars
  PROVE  TypeOK'
  <1>1. ASSUME NEW w \in Workers, NEW c \in Clients, NEW r \in Responses, Serve(w, c, r)
        PROVE  TypeOK'
    BY <1>1 DEF TypeOK, Serve, provider
  <1>2. ASSUME NEW w \in Workers, Request(w)
        PROVE  TypeOK'
    <2>1. PICK c \in Clients :
            \/ Reject(w, c)
            \/ UnknownClient(w, c) \/ ServeRevoked(w, c) \/ LookupFails(w, c)
            \/ \E s \in Secrets :
                 WrongSecret(w, c, s) \/ ServeStored(w, c, s) \/ BeginRefresh(w, c, s)
      BY <1>2 DEF Request
    <2>2. {"invalid_client", "invalid_grant", "workaround", "stored_token",
           "internal_error", "none"} \cup RequestErrors \subseteq Responses
      BY DEF Responses, OAuthErrors, RequestErrors
    <2>3. ASSUME NEW s \in Secrets, BeginRefresh(w, c, s)
          PROVE  TypeOK'
      BY <2>2, <2>3 DEF TypeOK, BeginRefresh, EncryptedToken, provider
    <2> QED
      BY <1>1, <2>1, <2>2, <2>3
      DEF Reject, UnknownClient, ServeRevoked, LookupFails, WrongSecret, ServeStored
  <1>3. ASSUME NEW w \in Workers, Grant(w)
        PROVE  TypeOK'
    <2>1. PICK token \in RefreshTokens :
            /\ Renew(client[w], token)
            /\ Answered(w, 200, [error |-> NoError, token |-> TRUE, refresh |-> token])
      BY <1>3 DEF Grant
    <2>2. [error |-> NoError, token |-> TRUE, refresh |-> token] \in Body
      BY DEF Body, ErrorCodes
    <2>3. client[w] \in Clients /\ 200 \in Statuses
      BY DEF TypeOK, Statuses
    <2> QED
      BY <1>3, <2>1, <2>2, <2>3, AnsweredType, RenewType DEF TypeOK, Grant
  <1>4. ASSUME NEW w \in Workers, NEW status \in Statuses \cup {NoStatus},
               NEW body \in Body, Answered(w, status, body),
               UNCHANGED newest, stray' \in SUBSET Stray
        PROVE  TypeOK'
    BY <1>4, AnsweredType DEF TypeOK
  <1>5. ASSUME NEW w \in Workers, Refuse(w)
        PROVE  TypeOK'
    <2>1. 400 \in Statuses
      BY DEF Statuses
    <2> QED
      BY <1>4, <1>5, <2>1, ErrorBodyType, BridgeErrors DEF Refuse, TypeOK
  <1>6. ASSUME NEW w \in Workers, NEW status \in FailureStatuses, Disturb(w, status)
        PROVE  TypeOK'
    <2>1. status \in Statuses
      BY TokenEndpointAssumption
    <2>2. /\ ErrorBody(NoError) \in Body
          /\ UndecodableBody(status) \in Body
      BY ErrorBodyType, BridgeErrors DEF UndecodableBody
    <2>3. \A error \in FailureErrors \cup {NoError}, token \in BOOLEAN :
            [error |-> error, token |-> token, refresh |-> NoToken] \in Body
      BY TokenEndpointAssumption DEF Body, ErrorCodes, NoToken, RefreshTokens
    <2> QED
      BY <1>4, <1>6, <2>1, <2>2, <2>3 DEF Disturb, TypeOK
  <1>7. ASSUME NEW w \in Workers, NEW status \in ContradictoryStatuses,
               Contradict(w, status)
        PROVE  TypeOK'
    <2>1. status \in Statuses
      BY TokenEndpointAssumption
    <2> QED
      BY <1>4, <1>7, <2>1, ErrorBodyType, BridgeErrors DEF Contradict, TypeOK
  <1>8. ASSUME NEW w \in Workers, TimeOut(w)
        PROVE  TypeOK'
    <2>1. stray' \in SUBSET Stray
      BY <1>8, StrayType DEF TimeOut, TypeOK
    <2> QED
      BY <1>4, <1>8, <2>1, ErrorBodyType, BridgeErrors DEF TimeOut
  <1>9. ASSUME NEW w \in Workers, Send(w)
        PROVE  TypeOK'
    BY <1>9, TokenEndpointAssumption DEF TypeOK, Send, provider
  <1>10. ASSUME NEW w \in Workers, GiveUp(w)
         PROVE  TypeOK'
    BY <1>10 DEF TypeOK, GiveUp, provider
  <1>11. ASSUME NEW w \in Workers, Receive(w)
         PROVE  TypeOK'
    <2>1. fetch_result(answer[w].status, answer[w].body) \in Body
      BY FetchResultType DEF TypeOK
    <2> QED
      BY <1>11, <2>1 DEF TypeOK, Receive, provider
  <1>12. ASSUME NEW w \in Workers, NEW r \in Responses, Return(w, r),
                db' \in [Clients -> {NoRow, Revoked} \cup EncryptedToken],
                UNCHANGED <<live, newest>>, stray' \in SUBSET Stray
         PROVE  TypeOK'
    BY <1>12, ReturnType DEF TypeOK
  <1>13. {"internal_error", "token", "invalid_request", "lost"} \subseteq Responses
    BY DEF Responses, OAuthErrors
  <1>14. ASSUME NEW w \in Workers, Raise(w) \/ InvalidResponse(w) \/ Respond(w) \/ UpdateFails(w)
         PROVE  TypeOK'
    BY <1>12, <1>13, <1>14
    DEF Raise, InvalidResponse, Respond, UpdateFails, provider, TypeOK
  <1>15. ASSUME NEW w \in Workers, RevokeGrant(w) \/ RefreshError(w)
         PROVE  TypeOK'
    <2>1. Outcome(w).normalized_error \in Responses
      BY <1>15, ViewOutcome DEF Outcome, Responses, RevokeGrant, RefreshError
    <2>2. db' \in [Clients -> {NoRow, Revoked} \cup EncryptedToken]
      BY <1>15 DEF RevokeGrant, RefreshError, update, TypeOK
    <2> QED
      BY <1>12, <1>15, <2>1, <2>2 DEF RevokeGrant, RefreshError, provider, TypeOK
  <1>16. ASSUME NEW w \in Workers, StoreAndRespond(w)
         PROVE  TypeOK'
    <2>1. modified(w) \in Token
      BY DEF modified, Token, TypeOK, Body
    <2>2. dumps(secret[w], modified(w)) \in EncryptedToken
      BY <2>1 DEF dumps, EncryptedToken, TypeOK
    <2> QED
      BY <1>12, <1>13, <1>16, <2>2 DEF StoreAndRespond, update, provider, TypeOK
  <1>17. ASSUME NEW w \in Workers, Crash(w)
         PROVE  TypeOK'
    <2>1. stray' \in SUBSET Stray
      BY <1>17, StrayType DEF Crash, TypeOK
    <2> QED
      BY <1>12, <1>13, <1>17, <2>1 DEF Crash, TypeOK
  <1>18. ASSUME NEW c \in Clients, Insert(c)
         PROVE  TypeOK'
    <2>1. PICK data \in Token : db' = [db EXCEPT ![c] = dumps(SecretOf[c], data)]
      BY <1>18, NewTokensType DEF Insert
    <2>2. dumps(SecretOf[c], data) \in EncryptedToken
      BY TokenEndpointAssumption DEF dumps, EncryptedToken
    <2> QED
      BY <1>18, <2>1, <2>2 DEF Insert, TypeOK, provider
  <1>19. ASSUME NEW c \in Clients, UserRevokes(c)
         PROVE  TypeOK'
    BY <1>19 DEF UserRevokes, TypeOK
  <1>20. ASSUME NEW s \in Stray, StrayGranted(s)
         PROVE  TypeOK'
    <2>1. s.client \in Clients
      BY DEF Stray
    <2>2. newest' \in [Clients -> 1..MaxRefresh]
      BY <1>20, <2>1, RenewType DEF StrayGranted
    <2> QED
      BY <1>20, <2>2 DEF StrayGranted, TypeOK
  <1>21. CASE UNCHANGED vars
    BY <1>21 DEF vars, provider, TypeOK
  <1> QED
    BY <1>2, <1>3, <1>5, <1>6, <1>7, <1>8, <1>9, <1>10, <1>11, <1>14, <1>15,
       <1>16, <1>17, <1>18, <1>19, <1>20, <1>21
    DEF Next, ProviderAnswers, Progress

LEMMA TypeInit == Init => TypeOK
  <1> SUFFICES ASSUME Init PROVE TypeOK
    OBVIOUS
  <1>1. \A c \in Clients : Legacy(c) \in EncryptedToken
    BY TokenEndpointAssumption
    DEF Legacy, EncryptedToken, Token, RefreshTokens
  <1>2. db \in [Clients -> {NoRow, Revoked} \cup EncryptedToken]
    BY <1>1 DEF Init
  <1>3. newest \in [Clients -> 1..MaxRefresh] /\ live \in [Clients -> BOOLEAN]
    BY TokenEndpointAssumption DEF Init
  <1>4. client \in [Workers -> Clients] /\ secret \in [Workers -> Secrets]
    BY TokenEndpointAssumption DEF Init
  <1>5. tries \in [Workers -> 0..(TotalRetries + 1)]
    BY TokenEndpointAssumption DEF Init
  <1> QED
    BY <1>2, <1>3, <1>4, <1>5, InitialValues DEF Init, TypeOK, Responses, Stray

\* Types are preserved by every action of token(), fetch() and the provider.
THEOREM TypeCorrect == Spec => []TypeOK
  BY TypeInit, TypeStep, PTL DEF Spec

-----------------------------------------------------------------------------
(* A provider that never rotates refresh tokens, and that claims           *)
(* invalid_grant wrongly at most with a retryable status, never makes the  *)
(* bridge drop a refresh token that still works.                           *)

\* There is one refresh token per grant, so whoever refreshes a grant holds
\* the token the provider would accept.
OneToken ==
  /\ \A c \in Clients :
       /\ newest[c] = 1
       /\ db[c] \in EncryptedToken => db[c].data.refresh \in {NoToken, 1}
  /\ \A w \in Workers :
       /\ pc[w] # "idle" => row[w].refresh = 1
       /\ answer[w].body.refresh \in {NoToken, 1}
       /\ result[w].refresh \in {NoToken, 1}

\* A denial a worker holds, on its way from the provider or already settled
\* on, is about a grant that is gone.
DenialIsEvidence ==
  \A w \in Workers :
    /\ pc[w] = "answered" /\ ~retryable(answer[w].status) /\ DeniesGrant(answer[w].body)
         => ~live[client[w]]
    /\ DeniesGrant(result[w]) => pc[w] = "settled" /\ ~live[client[w]]

GrantInv ==
  TypeOK /\ OneToken /\ DenialIsEvidence /\ RevokedIsDead /\ InvalidGrantMeansDead

\* It never replaces a refresh token.
NoRotation == "rotate" \notin Renewals

\* It claims invalid_grant wrongly at most together with a retryable status.
HonestDenials == ContradictoryStatuses \subseteq RetryStatusCodes

HonestProvider == NoRotation /\ HonestDenials

LEMMA BridgeErrorsDenyNothing ==
  ~DeniesGrant(ErrorBody("server_error")) /\ ~DeniesGrant(ErrorBody("temporarily_unavailable"))
  BY FailuresDenyNothing DEF ErrorBody

LEMMA OneTokenInit == Init => OneToken
  <1> SUFFICES ASSUME Init PROVE OneToken
    OBVIOUS
  <1>1. \A c \in Clients : db[c] \in EncryptedToken => db[c].data.refresh = 1
    BY TokenEndpointAssumption DEF Init, Legacy
  <1>2. \A w \in Workers : answer[w].body.refresh = NoToken /\ result[w].refresh = NoToken
    BY InitialValues DEF Init, ErrorBody
  <1> QED
    BY <1>1, <1>2 DEF Init, OneToken

\* The end of a request, with or without a write.
LEMMA OneTokenReturn ==
  ASSUME TypeOK, OneToken, NEW w \in Workers, NEW r, Return(w, r), UNCHANGED newest,
         \/ UNCHANGED db
         \/ db' = [db EXCEPT ![client[w]] = Revoked]
         \/ \E t \in EncryptedToken : /\ t.data.refresh \in {NoToken, 1}
                                     /\ db' = [db EXCEPT ![client[w]] = t]
  PROVE  OneToken'
  <1>1. \A c \in Clients : db'[c] \in EncryptedToken => db'[c].data.refresh \in {NoToken, 1}
    BY TokenEndpointAssumption DEF TypeOK, OneToken
  <1>2. \A v \in Workers :
          /\ pc'[v] # "idle" => row'[v].refresh = 1
          /\ answer'[v].body.refresh \in {NoToken, 1}
          /\ result'[v].refresh \in {NoToken, 1}
    BY InitialValues DEF TypeOK, OneToken, Return, ErrorBody
  <1> QED
    BY <1>1, <1>2 DEF OneToken

\* What token() may store has no other refresh token either.
LEMMA OneTokenStored ==
  ASSUME TypeOK, OneToken, NEW w \in Workers, pc[w] # "idle"
  PROVE  /\ dumps(secret[w], modified(w)) \in EncryptedToken
         /\ dumps(secret[w], modified(w)).data.refresh \in {NoToken, 1}
  <1>1. dumps(secret[w], modified(w)) \in EncryptedToken
    BY DEF dumps, EncryptedToken, TypeOK, modified, Token, Body
  <1>2. dumps(secret[w], modified(w)).data.refresh \in {NoToken, 1}
    BY DEF dumps, modified, OneToken
  <1> QED
    BY <1>1, <1>2

LEMMA OneTokenInserted ==
  ASSUME NEW c \in Clients, NEW data \in NewTokens
  PROVE  /\ dumps(SecretOf[c], data) \in EncryptedToken
         /\ dumps(SecretOf[c], data).data.refresh \in {NoToken, 1}
  BY NewTokensType, TokenEndpointAssumption DEF dumps, EncryptedToken

LEMMA OneTokenAnswered ==
  ASSUME TypeOK, OneToken, NEW w \in Workers, NEW status, NEW body,
         Answered(w, status, body), UNCHANGED newest,
         body.refresh \in {NoToken, 1}
  PROVE  OneToken'
  BY DEF TypeOK, OneToken, Answered

LEMMA OneTokenStep ==
  ASSUME NoRotation, TypeOK, OneToken, [Next]_vars
  PROVE  OneToken'
  <1>1. ASSUME NEW w \in Workers, NEW c \in Clients, NEW r, Serve(w, c, r)
        PROVE  OneToken'
    BY <1>1 DEF OneToken, Serve, provider
  <1>2. ASSUME NEW w \in Workers, Request(w)
        PROVE  OneToken'
    <2>1. ASSUME NEW c \in Clients, NEW s \in Secrets, BeginRefresh(w, c, s)
          PROVE  OneToken'
      BY <2>1 DEF TypeOK, OneToken, BeginRefresh, provider
    <2> QED
      BY <1>1, <1>2, <2>1
      DEF Request, Reject, RequestErrors, UnknownClient, ServeRevoked, LookupFails,
          WrongSecret, ServeStored
  <1>3. ASSUME NEW w \in Workers, Grant(w)
        PROVE  OneToken'
    <2>1. PICK token \in RefreshTokens :
            /\ Renew(client[w], token)
            /\ Answered(w, 200, [error |-> NoError, token |-> TRUE, refresh |-> token])
      BY <1>3 DEF Grant
    <2>2. UNCHANGED newest /\ token \in {NoToken, 1}
      BY <2>1 DEF Renew, NoRotation, OneToken, TypeOK
    <2> QED
      BY <2>1, <2>2, OneTokenAnswered
  <1>4. ASSUME NEW w \in Workers, NEW status,
               Refuse(w) \/ Disturb(w, status) \/ Contradict(w, status) \/ TimeOut(w)
        PROVE  OneToken'
    <2>1. PICK code, body : /\ body.refresh = NoToken
                            /\ Answered(w, code, body)
      BY <1>4 DEF Refuse, Disturb, Contradict, TimeOut, ErrorBody, UndecodableBody
    <2>2. UNCHANGED newest
      BY <1>4 DEF Refuse, Disturb, Contradict, TimeOut
    <2> QED
      BY <2>1, <2>2, OneTokenAnswered
  <1>5. ASSUME NEW w \in Workers, Send(w) \/ GiveUp(w)
        PROVE  OneToken'
    BY <1>5 DEF TypeOK, OneToken, Send, GiveUp, provider
  <1>6. ASSUME NEW w \in Workers, Receive(w)
        PROVE  OneToken'
    <2>1. result' = [result EXCEPT ![w] =
            IF retryable(answer[w].status) THEN ErrorBody("temporarily_unavailable")
                                           ELSE answer[w].body]
      BY <1>6, FetchResult DEF Receive
    <2>2. pc' = [pc EXCEPT ![w] = IF retryable(answer[w].status) THEN "fetch" ELSE "settled"]
      BY <1>6 DEF Receive, token_endpoint_outcome
    <2> QED
      BY <1>6, <2>1, <2>2 DEF TypeOK, OneToken, Receive, provider, ErrorBody
  <1>7. ASSUME NEW w \in Workers,
               \/ Raise(w) \/ InvalidResponse(w) \/ Respond(w) \/ UpdateFails(w) \/ Crash(w)
               \/ RevokeGrant(w) \/ RefreshError(w)
        PROVE  OneToken'
    BY <1>7, OneTokenReturn
    DEF Raise, InvalidResponse, Respond, UpdateFails, Crash, RevokeGrant, RefreshError,
        update, provider
  <1>8. ASSUME NEW w \in Workers, StoreAndRespond(w)
        PROVE  OneToken'
    BY <1>8, OneTokenStored, OneTokenReturn DEF StoreAndRespond, Refreshed, update, provider
  <1>9. ASSUME NEW c \in Clients, Insert(c)
        PROVE  OneToken'
    BY <1>9, OneTokenInserted DEF TypeOK, OneToken, Insert, provider
  <1>10. ASSUME NEW c \in Clients, UserRevokes(c)
         PROVE  OneToken'
    BY <1>10 DEF OneToken, UserRevokes
  <1>11. ASSUME NEW s \in Stray, StrayGranted(s)
         PROVE  OneToken'
    <2>1. UNCHANGED newest
      BY <1>11 DEF StrayGranted, Renew, NoRotation
    <2> QED
      BY <1>11, <2>1 DEF StrayGranted, OneToken
  <1>12. ASSUME UNCHANGED vars
         PROVE  OneToken'
    BY <1>12 DEF vars, provider, OneToken
  <1> QED
    BY <1>2, <1>3, <1>4, <1>5, <1>6, <1>7, <1>8, <1>9, <1>10, <1>11, <1>12
    DEF Next, ProviderAnswers, Progress

LEMMA GrantInit == Init => GrantInv
  <1> SUFFICES ASSUME Init PROVE GrantInv
    OBVIOUS
  <1>1. OneToken
    BY OneTokenInit
  <1>2. DenialIsEvidence
    BY BridgeErrorsDenyNothing DEF Init, DenialIsEvidence
  <1>3. RevokedIsDead
    <2>1. \A c \in Clients : Legacy(c) \in EncryptedToken
      BY TokenEndpointAssumption DEF Legacy, EncryptedToken, Token, RefreshTokens
    <2> QED
      BY <2>1, TokenEndpointAssumption DEF Init, RevokedIsDead
  <1>4. InvalidGrantMeansDead
    BY DEF Init, InvalidGrantMeansDead
  <1> QED
    BY <1>1, <1>2, <1>3, <1>4, TypeInit DEF GrantInv

\* The end of a request: nothing is left of the denial but the response, and
\* the row when the denial was written to it.
LEMMA GrantReturn ==
  ASSUME GrantInv, NEW w \in Workers, NEW r, Return(w, r),
         r = "invalid_grant" => ~live[client[w]],
         UNCHANGED live,
         \/ UNCHANGED db
         \/ db' = [db EXCEPT ![client[w]] = Revoked] /\ ~live[client[w]]
         \/ \E t \in EncryptedToken : db' = [db EXCEPT ![client[w]] = t]
  PROVE  DenialIsEvidence' /\ RevokedIsDead' /\ InvalidGrantMeansDead'
  <1> USE DEF GrantInv
  <1>1. DenialIsEvidence'
    BY BridgeErrorsDenyNothing DEF TypeOK, DenialIsEvidence, Return
  <1>2. RevokedIsDead'
    BY TokenEndpointAssumption DEF TypeOK, RevokedIsDead
  <1>3. InvalidGrantMeansDead'
    BY DEF TypeOK, InvalidGrantMeansDead, Return
  <1> QED
    BY <1>1, <1>2, <1>3

\* An answer from the provider: it is evidence if it denies the grant.
LEMMA GrantAnswered ==
  ASSUME GrantInv, NEW w \in Workers, NEW status, NEW body,
         Answered(w, status, body),
         ~retryable(status) /\ DeniesGrant(body) => ~live[client[w]]
  PROVE  DenialIsEvidence' /\ RevokedIsDead' /\ InvalidGrantMeansDead'
  <1>1. DenialIsEvidence'
    BY DEF GrantInv, TypeOK, DenialIsEvidence, Answered
  <1> QED
    BY <1>1 DEF GrantInv, RevokedIsDead, InvalidGrantMeansDead, Answered

LEMMA GrantStep ==
  ASSUME HonestProvider, GrantInv, [Next]_vars
  PROVE  GrantInv'
  <1> USE DEF GrantInv
  <1> DEFINE Safe == DenialIsEvidence /\ RevokedIsDead /\ InvalidGrantMeansDead
  <1>1. ASSUME NEW w \in Workers, NEW c \in Clients, NEW r, Serve(w, c, r),
               r = "invalid_grant" => ~live[c]
        PROVE  Safe'
    <2>1. RevokedIsDead'
      BY <1>1 DEF RevokedIsDead, Serve, provider
    <2>2. DenialIsEvidence' /\ InvalidGrantMeansDead'
      BY <1>1 DEF TypeOK, DenialIsEvidence, InvalidGrantMeansDead, Serve, provider
    <2> QED
      BY <2>1, <2>2
  <1>2. ASSUME NEW w \in Workers, Request(w)
        PROVE  Safe'
    <2>1. PICK c \in Clients :
            \/ Reject(w, c)
            \/ UnknownClient(w, c) \/ ServeRevoked(w, c) \/ LookupFails(w, c)
            \/ \E s \in Secrets :
                 WrongSecret(w, c, s) \/ ServeStored(w, c, s) \/ BeginRefresh(w, c, s)
      BY <1>2 DEF Request
    <2>2. CASE ServeRevoked(w, c)
      BY <1>1, <2>2 DEF ServeRevoked, RevokedIsDead
    <2>3. ASSUME NEW s \in Secrets, BeginRefresh(w, c, s)
          PROVE  Safe'
      <3>1. RevokedIsDead'
        BY <2>3 DEF RevokedIsDead, BeginRefresh, provider
      <3>2. DenialIsEvidence' /\ InvalidGrantMeansDead'
        BY <2>3 DEF TypeOK, DenialIsEvidence, InvalidGrantMeansDead, BeginRefresh, provider
      <3> QED
        BY <3>1, <3>2
    <2>4. CASE Reject(w, c)
      BY <1>1, <2>4 DEF Reject, RequestErrors
    <2> QED
      BY <1>1, <2>1, <2>2, <2>3, <2>4 DEF UnknownClient, LookupFails, WrongSecret, ServeStored
  <1>3. ASSUME NEW w \in Workers, Grant(w)
        PROVE  Safe'
    <2>1. PICK token \in RefreshTokens :
            /\ Renew(client[w], token)
            /\ Answered(w, 200, [error |-> NoError, token |-> TRUE, refresh |-> token])
      BY <1>3 DEF Grant
    <2> QED
      BY <2>1, GrantAnswered DEF DeniesGrant
  <1>4. ASSUME NEW w \in Workers, Refuse(w)
        PROVE  Safe'
    <2>1. pc[w] = "sent"
      BY <1>4 DEF Refuse, Answered
    <2>2. ~live[client[w]]
      BY <1>4, <2>1 DEF Refuse, Accepts, OneToken, TypeOK
    <2> QED
      BY <1>4, <2>2, GrantAnswered DEF Refuse, ErrorBody
  <1>5. ASSUME NEW w \in Workers, NEW status \in FailureStatuses, Disturb(w, status)
        PROVE  Safe'
    <2>1. PICK body :
            /\ body.error \in FailureErrors \cup {NoError, "server_error", "temporarily_unavailable"}
            /\ body.refresh = NoToken
            /\ Answered(w, status, body)
      BY <1>5 DEF Disturb, ErrorBody, UndecodableBody
    <2>2. ~DeniesGrant(body)
      BY <2>1, FailuresDenyNothing
    <2> QED
      BY <1>5, <2>1, <2>2, GrantAnswered DEF Disturb
  <1>6. ASSUME NEW w \in Workers, NEW status \in ContradictoryStatuses,
               Contradict(w, status)
        PROVE  Safe'
    <2>1. retryable(status)
      BY DEF HonestProvider, HonestDenials, retryable
    <2> QED
      BY <1>6, <2>1, GrantAnswered DEF Contradict, ErrorBody
  <1>7. ASSUME NEW w \in Workers, TimeOut(w)
        PROVE  Safe'
    BY <1>7, GrantAnswered, BridgeErrorsDenyNothing DEF TimeOut, ErrorBody
  <1>8. ASSUME NEW w \in Workers, Send(w) \/ GiveUp(w)
        PROVE  Safe'
    <2>1. RevokedIsDead' /\ InvalidGrantMeansDead'
      BY <1>8 DEF RevokedIsDead, InvalidGrantMeansDead, Send, GiveUp, provider
    <2>2. DenialIsEvidence'
      BY <1>8 DEF TypeOK, DenialIsEvidence, Send, GiveUp, provider
    <2> QED
      BY <2>1, <2>2
  <1>9. ASSUME NEW w \in Workers, Receive(w)
        PROVE  Safe'
    <2> DEFINE status == answer[w].status
               body   == answer[w].body
    <2>1. result' = [result EXCEPT ![w] =
            IF retryable(status) THEN ErrorBody("temporarily_unavailable") ELSE body]
      BY <1>9, FetchResult DEF Receive
    <2>2. pc' = [pc EXCEPT ![w] = IF retryable(status) THEN "fetch" ELSE "settled"]
      BY <1>9 DEF Receive, token_endpoint_outcome
    <2>3. DenialIsEvidence'
      BY <1>9, <2>1, <2>2, BridgeErrorsDenyNothing
      DEF TypeOK, DenialIsEvidence, Receive, provider
    <2> QED
      BY <1>9, <2>3 DEF RevokedIsDead, InvalidGrantMeansDead, Receive, provider
  <1>10. ASSUME NEW w \in Workers,
                Raise(w) \/ InvalidResponse(w) \/ Respond(w) \/ UpdateFails(w) \/ Crash(w)
         PROVE  Safe'
    BY <1>10, GrantReturn
    DEF Raise, InvalidResponse, Respond, UpdateFails, Crash, provider
  <1>11. ASSUME NEW w \in Workers, RevokeGrant(w) \/ RefreshError(w)
         PROVE  Safe'
    <2>1. Outcome(w).normalized_error = "invalid_grant" => ~live[client[w]]
      BY <1>11 DEF RevokeGrant, RefreshError, Outcome, DenialIsEvidence, DeniesGrant
    <2>2. RevokeGrant(w) => ~live[client[w]]
      BY ViewOutcome DEF RevokeGrant, Outcome, DenialIsEvidence
    <2> QED
      BY <1>11, <2>1, <2>2, GrantReturn DEF RevokeGrant, RefreshError, update, provider
  <1>12. ASSUME NEW w \in Workers, StoreAndRespond(w)
         PROVE  Safe'
    <2>1. dumps(secret[w], modified(w)) \in EncryptedToken
      BY <1>12, OneTokenStored DEF StoreAndRespond, Refreshed
    <2> QED
      BY <1>12, <2>1, GrantReturn DEF StoreAndRespond, update, provider
  <1>13. ASSUME NEW c \in Clients, Insert(c)
         PROVE  Safe'
    <2>1. PICK data \in NewTokens : db' = [db EXCEPT ![c] = dumps(SecretOf[c], data)]
      BY <1>13 DEF Insert
    <2>2. RevokedIsDead'
      BY <1>13, <2>1, OneTokenInserted, TokenEndpointAssumption
      DEF TypeOK, RevokedIsDead, Insert, provider
    <2> QED
      BY <1>13, <2>2 DEF DenialIsEvidence, InvalidGrantMeansDead, Insert, provider
  <1>14. ASSUME NEW c \in Clients, UserRevokes(c)
         PROVE  Safe'
    <2>1. \A d \in Clients : ~live[d] => ~live'[d]
      BY <1>14 DEF UserRevokes, TypeOK
    <2>2. DenialIsEvidence'
      BY <1>14, <2>1 DEF DenialIsEvidence, UserRevokes, TypeOK
    <2> QED
      BY <1>14, <2>1, <2>2 DEF RevokedIsDead, InvalidGrantMeansDead, UserRevokes, TypeOK
  <1>15. ASSUME NEW s \in Stray, StrayGranted(s)
         PROVE  Safe'
    BY <1>15 DEF StrayGranted, DenialIsEvidence, RevokedIsDead, InvalidGrantMeansDead
  <1>16. ASSUME UNCHANGED vars
         PROVE  Safe'
    <2>1. UNCHANGED <<db, live, newest, pc, client, row, answer, result, resp>>
      BY <1>16 DEF vars, provider
    <2>2. RevokedIsDead' /\ InvalidGrantMeansDead'
      BY <2>1 DEF RevokedIsDead, InvalidGrantMeansDead
    <2>3. DenialIsEvidence'
      BY <2>1 DEF DenialIsEvidence
    <2> QED
      BY <2>2, <2>3
  <1>17. Safe'
    BY <1>2, <1>3, <1>4, <1>5, <1>6, <1>7, <1>8, <1>9, <1>10, <1>11, <1>12,
       <1>13, <1>14, <1>15, <1>16
    DEF Next, ProviderAnswers, Progress
  <1> QED
    BY <1>17, TypeStep, OneTokenStep DEF HonestProvider

LEMMA GrantInvariance ==
  ASSUME HonestProvider
  PROVE  Spec => []GrantInv
  <1>1. GrantInv /\ [Next]_vars => GrantInv'
    BY GrantStep
  <1> QED
    BY <1>1, GrantInit, PTL DEF Spec

\* A provider that does not rotate refresh tokens, and that misuses
\* invalid_grant at most together with a retryable status, never makes
\* token() mark a row revoked while the user still grants access: for any
\* number of workers, clients and retries.
THEOREM RevocationIsSound ==
  ASSUME HonestProvider
  PROVE  Spec => []RevokedIsDead
  <1>1. GrantInv => RevokedIsDead
    BY DEF GrantInv
  <1> QED
    BY <1>1, GrantInvariance, PTL

\* Nor does it make token() tell a client invalid_grant.
THEOREM DenialIsSound ==
  ASSUME HonestProvider
  PROVE  Spec => []InvalidGrantMeansDead
  <1>1. GrantInv => InvalidGrantMeansDead
    BY DEF GrantInv
  <1> QED
    BY <1>1, GrantInvariance, PTL

-----------------------------------------------------------------------------
(* Whoever rewrites a row holds the secret the row was issued with.        *)

KeyInv ==
  /\ TypeOK
  /\ RowsKeepTheirKey
  /\ \A w \in Workers : pc[w] # "idle" => secret[w] = SecretOf[client[w]]

LEMMA KeyInit == Init => KeyInv
  BY TypeInit, TokenEndpointAssumption DEF Init, KeyInv, RowsKeepTheirKey, Legacy

\* A step that writes no row, and starts no work on one.
LEMMA KeyFrame ==
  ASSUME KeyInv, TypeOK', UNCHANGED db,
         \A w \in Workers : pc'[w] # "idle" =>
           pc[w] # "idle" /\ secret'[w] = secret[w] /\ client'[w] = client[w]
  PROVE  KeyInv'
  BY DEF KeyInv, RowsKeepTheirKey

LEMMA KeyStep ==
  ASSUME KeyInv, [Next]_vars
  PROVE  KeyInv'
  <1>1. TypeOK /\ TypeOK'
    BY TypeStep DEF KeyInv
  <1>2. ASSUME NEW w \in Workers, NEW c \in Clients, NEW r, Serve(w, c, r)
        PROVE  KeyInv'
    BY <1>1, <1>2, KeyFrame DEF Serve, TypeOK
  <1>3. ASSUME NEW w \in Workers, Request(w)
        PROVE  KeyInv'
    <2>1. ASSUME NEW c \in Clients, NEW s \in Secrets, BeginRefresh(w, c, s)
          PROVE  KeyInv'
      <3>1. s = SecretOf[c]
        BY <2>1 DEF BeginRefresh, loads_fails, KeyInv, RowsKeepTheirKey
      <3> QED
        BY <1>1, <2>1, <3>1 DEF BeginRefresh, KeyInv, RowsKeepTheirKey, TypeOK
    <2> QED
      BY <1>2, <1>3, <2>1
      DEF Request, Reject, UnknownClient, ServeRevoked, LookupFails, WrongSecret, ServeStored
  <1>4. ASSUME NEW w \in Workers, NEW status, NEW body, Answered(w, status, body)
        PROVE  KeyInv'
    BY <1>1, <1>4, KeyFrame DEF Answered, TypeOK
  <1>5. ASSUME NEW w \in Workers, ProviderAnswers(w)
        PROVE  KeyInv'
    BY <1>4, <1>5 DEF ProviderAnswers, Grant, Refuse, Disturb, Contradict, TimeOut
  <1>6. ASSUME NEW w \in Workers, Send(w) \/ GiveUp(w) \/ Receive(w)
        PROVE  KeyInv'
    BY <1>1, <1>6, KeyFrame DEF Send, GiveUp, Receive, TypeOK
  <1>7. ASSUME NEW w \in Workers, NEW r, Return(w, r), UNCHANGED db
        PROVE  KeyInv'
    BY <1>1, <1>7, KeyFrame DEF Return, TypeOK
  <1>8. ASSUME NEW w \in Workers,
               \/ Raise(w) \/ RefreshError(w) \/ InvalidResponse(w) \/ Respond(w)
               \/ UpdateFails(w) \/ Crash(w)
        PROVE  KeyInv'
    BY <1>7, <1>8 DEF Raise, RefreshError, InvalidResponse, Respond, UpdateFails, Crash
  <1>9. ASSUME NEW w \in Workers, NEW r, Return(w, r), NEW token, update(client[w], token),
               token \in EncryptedToken => token.key = SecretOf[client[w]]
        PROVE  KeyInv'
    BY <1>1, <1>9 DEF Return, update, KeyInv, RowsKeepTheirKey, TypeOK
  <1>10. ASSUME NEW w \in Workers, RevokeGrant(w)
         PROVE  KeyInv'
    BY <1>9, <1>10, TokenEndpointAssumption DEF RevokeGrant
  <1>11. ASSUME NEW w \in Workers, StoreAndRespond(w)
         PROVE  KeyInv'
    BY <1>9, <1>11 DEF StoreAndRespond, Refreshed, dumps, KeyInv
  <1>12. ASSUME NEW c \in Clients, Insert(c)
         PROVE  KeyInv'
    BY <1>1, <1>12 DEF Insert, dumps, KeyInv, RowsKeepTheirKey, TypeOK
  <1>13. ASSUME UNCHANGED <<db, pc, client, secret>>
         PROVE  KeyInv'
    BY <1>1, <1>13, KeyFrame
  <1>14. ASSUME NEW c \in Clients, UserRevokes(c)
         PROVE  KeyInv'
    BY <1>13, <1>14 DEF UserRevokes
  <1>15. ASSUME NEW s \in Stray, StrayGranted(s)
         PROVE  KeyInv'
    BY <1>13, <1>15 DEF StrayGranted
  <1>16. CASE UNCHANGED vars
    BY <1>13, <1>16 DEF vars
  <1> QED
    BY <1>3, <1>5, <1>6, <1>8, <1>10, <1>11, <1>12, <1>14, <1>15, <1>16
    DEF Next, Progress

\* Whatever secrets requests present, the client that was given the secret of
\* a row can decrypt it after any number of rewrites.
THEOREM ClientsKeepTheirKey == Spec => []RowsKeepTheirKey
  <1>1. KeyInv /\ [Next]_vars => KeyInv'
    BY KeyStep
  <1>2. KeyInv => RowsKeepTheirKey
    BY DEF KeyInv
  <1> QED
    BY <1>1, <1>2, KeyInit, PTL DEF Spec

-----------------------------------------------------------------------------
(* What the view decides rests on the last answer, although it only has    *)
(* fetch()'s result.                                                       *)

JudgedOf(w) ==
  /\ pc[w] = "idle" => tries[w] = 0
  /\ pc[w] \in {"sent", "answered"} => tries[w] > 0
  /\ tries[w] = 0 => result[w] = ErrorBody("server_error")
  /\ pc[w] \in {"fetch", "settled"} /\ tries[w] > 0 =>
       result[w] = fetch_result(answer[w].status, answer[w].body)

JudgedInv == TypeOK /\ \A w \in Workers : JudgedOf(w)

LEMMA JudgedInit == Init => JudgedInv
  BY TypeInit DEF Init, JudgedInv, JudgedOf

LEMMA JudgedFrame ==
  ASSUME JudgedInv, TypeOK', NEW w \in Workers, JudgedOf(w)',
         \A v \in Workers \ {w} :
           /\ pc'[v] = pc[v] /\ tries'[v] = tries[v]
           /\ result'[v] = result[v] /\ answer'[v] = answer[v]
  PROVE  JudgedInv'
  BY DEF JudgedInv, JudgedOf

LEMMA JudgedStep ==
  ASSUME JudgedInv, [Next]_vars
  PROVE  JudgedInv'
  <1>1. TypeOK /\ TypeOK'
    BY TypeStep DEF JudgedInv
  <1>2. ASSUME UNCHANGED <<pc, tries, result, answer>>
        PROVE  JudgedInv'
    BY <1>1, <1>2 DEF JudgedInv, JudgedOf
  <1>3. ASSUME NEW w \in Workers, Request(w)
        PROVE  JudgedInv'
    <2>1. ASSUME NEW c \in Clients, NEW s \in Secrets, BeginRefresh(w, c, s)
          PROVE  JudgedInv'
      <3>1. JudgedOf(w)'
        BY <1>1, <2>1 DEF BeginRefresh, JudgedInv, JudgedOf, TypeOK
      <3> QED
        BY <1>1, <2>1, <3>1, JudgedFrame DEF BeginRefresh, TypeOK
    <2> QED
      BY <1>2, <1>3, <2>1
      DEF Request, Reject, UnknownClient, ServeRevoked, LookupFails, WrongSecret,
          ServeStored, Serve
  <1>4. ASSUME NEW w \in Workers, NEW status, NEW body, Answered(w, status, body)
        PROVE  JudgedInv'
    <2>1. JudgedOf(w)'
      BY <1>1, <1>4 DEF Answered, JudgedInv, JudgedOf, TypeOK
    <2> QED
      BY <1>1, <1>4, <2>1, JudgedFrame DEF Answered, TypeOK
  <1>5. ASSUME NEW w \in Workers, ProviderAnswers(w)
        PROVE  JudgedInv'
    BY <1>4, <1>5 DEF ProviderAnswers, Grant, Refuse, Disturb, Contradict, TimeOut
  <1>6. ASSUME NEW w \in Workers, Send(w)
        PROVE  JudgedInv'
    <2>1. tries[w] \in Nat /\ tries'[w] = tries[w] + 1 /\ pc'[w] = "sent"
      BY <1>1, <1>6, TokenEndpointAssumption DEF Send, TypeOK
    <2>2. JudgedOf(w)'
      BY <2>1 DEF JudgedOf
    <2> QED
      BY <1>1, <1>6, <2>2, JudgedFrame DEF Send, TypeOK
  <1>7. ASSUME NEW w \in Workers, GiveUp(w)
        PROVE  JudgedInv'
    <2>1. JudgedOf(w)'
      BY <1>1, <1>7 DEF GiveUp, JudgedInv, JudgedOf, TypeOK
    <2> QED
      BY <1>1, <1>7, <2>1, JudgedFrame DEF GiveUp, TypeOK
  <1>8. ASSUME NEW w \in Workers, Receive(w)
        PROVE  JudgedInv'
    <2>1. /\ pc[w] = "answered" /\ pc'[w] \in {"fetch", "settled"}
          /\ result'[w] = fetch_result(answer[w].status, answer[w].body)
          /\ UNCHANGED <<tries, answer>>
      BY <1>1, <1>8 DEF Receive, TypeOK
    <2>2. tries[w] > 0 /\ tries[w] \in Nat
      BY <1>1, <2>1, TokenEndpointAssumption DEF JudgedInv, JudgedOf, TypeOK
    <2>3. JudgedOf(w)'
      BY <2>1, <2>2 DEF JudgedOf
    <2> QED
      BY <1>1, <1>8, <2>3, JudgedFrame DEF Receive, TypeOK
  <1>9. ASSUME NEW w \in Workers, NEW r, Return(w, r)
        PROVE  JudgedInv'
    <2>1. JudgedOf(w)'
      BY <1>1, <1>9 DEF Return, JudgedOf, TypeOK
    <2> QED
      BY <1>1, <1>9, <2>1, JudgedFrame DEF Return, TypeOK
  <1>10. ASSUME NEW w \in Workers,
                \/ Raise(w) \/ RefreshError(w) \/ InvalidResponse(w) \/ Respond(w)
                \/ UpdateFails(w) \/ Crash(w) \/ RevokeGrant(w) \/ StoreAndRespond(w)
         PROVE  JudgedInv'
    BY <1>9, <1>10
    DEF Raise, RefreshError, InvalidResponse, Respond, UpdateFails, Crash, RevokeGrant,
        StoreAndRespond
  <1>11. ASSUME NEW c \in Clients, Insert(c) \/ UserRevokes(c)
         PROVE  JudgedInv'
    BY <1>2, <1>11 DEF Insert, UserRevokes
  <1>12. ASSUME NEW s \in Stray, StrayGranted(s)
         PROVE  JudgedInv'
    BY <1>2, <1>12 DEF StrayGranted
  <1>13. CASE UNCHANGED vars
    BY <1>2, <1>13 DEF vars
  <1> QED
    BY <1>3, <1>5, <1>6, <1>7, <1>8, <1>10, <1>11, <1>12, <1>13 DEF Next, Progress

\* How a request that has settled on a result ends.
LEMMA Endings ==
  ASSUME TypeOK, [Next]_vars, NEW w \in Workers, pc[w] = "settled", pc'[w] = "idle"
  PROVE  \/ RevokeGrant(w) \/ RefreshError(w) \/ InvalidResponse(w)
         \/ StoreAndRespond(w) \/ Respond(w) \/ UpdateFails(w) \/ Crash(w)
  <1>1. ASSUME UNCHANGED pc
        PROVE  FALSE
    BY <1>1
  <1>2. ASSUME NEW v \in Workers, NEW q, pc' = [pc EXCEPT ![v] = q], v # w
        PROVE  FALSE
    BY <1>2 DEF TypeOK
  <1>3. ASSUME NEW v \in Workers, Request(v)
        PROVE  FALSE
    <2>1. UNCHANGED pc \/ (pc[v] = "idle" /\ \E q : pc' = [pc EXCEPT ![v] = q])
      BY <1>3
      DEF Request, Reject, UnknownClient, ServeRevoked, LookupFails, WrongSecret,
          ServeStored, Serve, BeginRefresh
    <2> QED
      BY <1>1, <1>2, <2>1
  <1>4. ASSUME NEW v \in Workers, ProviderAnswers(v)
        PROVE  FALSE
    <2>1. pc[v] = "sent" /\ \E q : pc' = [pc EXCEPT ![v] = q]
      BY <1>4
      DEF ProviderAnswers, Grant, Refuse, Disturb, Contradict, TimeOut, Answered
    <2> QED
      BY <1>2, <2>1
  <1>5. ASSUME NEW v \in Workers, Send(v) \/ GiveUp(v) \/ Receive(v) \/ Raise(v)
        PROVE  FALSE
    <2>1. pc[v] # "settled" /\ \E q : pc' = [pc EXCEPT ![v] = q]
      BY <1>5 DEF Send, GiveUp, Receive, Raise, Return
    <2> QED
      BY <1>2, <2>1
  <1>6. ASSUME NEW v \in Workers, v # w,
               \/ RevokeGrant(v) \/ RefreshError(v) \/ InvalidResponse(v)
               \/ StoreAndRespond(v) \/ Respond(v) \/ UpdateFails(v) \/ Crash(v)
        PROVE  FALSE
    BY <1>2, <1>6
    DEF RevokeGrant, RefreshError, InvalidResponse, StoreAndRespond, Respond, UpdateFails,
        Crash, Return
  <1> QED
    BY <1>1, <1>3, <1>4, <1>5, <1>6 DEF Next, Progress, Insert, UserRevokes, StrayGranted, vars

\* No setting gives the bridge's own temporarily_unavailable another meaning.
UnavailableStands ==
  normalize_error("temporarily_unavailable", TOKEN_ERRORS, "server_error")
    = "temporarily_unavailable"

LEMMA UnavailableView ==
  ASSUME UnavailableStands
  PROVE  /\ view_outcome(ErrorBody("temporarily_unavailable")).normalized_error
              = "temporarily_unavailable"
         /\ ~view_outcome(ErrorBody("temporarily_unavailable")).invalidate_refresh_token
  <1>1. ErrorBody("temporarily_unavailable").error = "temporarily_unavailable"
    BY DEF ErrorBody
  <1>2. "temporarily_unavailable" # NoError /\ ~is_success(400)
    BY DEF NoError, is_success
  <1>3. terminal_error(400, ErrorBody("temporarily_unavailable")) = "temporarily_unavailable"
    BY <1>1, <1>2 DEF terminal_error, UnavailableStands
  <1> QED
    BY <1>1, <1>2, <1>3 DEF view_outcome, token_endpoint_outcome

\* A retryable answer, whatever its body said, makes the client come back
\* later and leaves the table alone, unless the process dies.
THEOREM RetryableComesBackLater ==
  ASSUME UnavailableStands
  PROVE  Spec => RetryableIsUnavailable
  <1> DEFINE Unavailable ==
        \A w \in Workers :
          /\ pc[w] = "settled" /\ pc'[w] = "idle"
          /\ tries[w] > 0
          /\ retryable(answer[w].status)
          => /\ resp'[w] = "lost" \/ error_status(resp'[w]) = 503
             /\ UNCHANGED db
  <1>1. ASSUME JudgedInv, [Next]_vars
        PROVE  Unavailable
    <2> SUFFICES ASSUME NEW w \in Workers, pc[w] = "settled", pc'[w] = "idle",
                        tries[w] > 0, retryable(answer[w].status)
                 PROVE  /\ resp'[w] = "lost" \/ error_status(resp'[w]) = 503
                        /\ UNCHANGED db
      OBVIOUS
    <2>1. result[w] = ErrorBody("temporarily_unavailable")
      BY <1>1, FetchResult DEF JudgedInv, JudgedOf
    <2>2. result[w].error # NoError
      BY <2>1 DEF ErrorBody, NoError
    <2>3. RefreshError(w) \/ Crash(w)
      BY <1>1, <2>1, <2>2, Endings, UnavailableView
      DEF JudgedInv, RevokeGrant, InvalidResponse, StoreAndRespond, Respond, UpdateFails,
          Refreshed, Outcome
    <2>4. \/ Return(w, "temporarily_unavailable") /\ UNCHANGED db
          \/ Return(w, "lost") /\ UNCHANGED db
      BY <2>1, <2>3, UnavailableView DEF RefreshError, Crash, Outcome
    <2> QED
      BY <1>1, <2>4 DEF Return, error_status, JudgedInv, TypeOK
  <1>2. JudgedInv /\ [Next]_vars => JudgedInv'
    BY JudgedStep
  <1>3. JudgedInv /\ [Next]_vars => [Unavailable]_vars
    BY <1>1
  <1> QED
    BY <1>2, <1>3, JudgedInit, PTL DEF Spec, RetryableIsUnavailable

-----------------------------------------------------------------------------
(* Who writes a row, and on what evidence.                                 *)

LEMMA Writers ==
  ASSUME TypeOK, [Next]_vars, NEW c \in Clients, db'[c] # db[c]
  PROVE  \/ Insert(c)
         \/ \E w \in Workers : /\ client[w] = c
                               /\ pc[w] = "settled" /\ pc'[w] = "idle"
                               /\ (RevokeGrant(w) \/ StoreAndRespond(w))
  <1>1. ASSUME UNCHANGED db
        PROVE  FALSE
    BY <1>1
  <1>2. ASSUME NEW w \in Workers, Request(w) \/ ProviderAnswers(w) \/ Crash(w)
        PROVE  FALSE
    BY <1>1, <1>2
    DEF Request, Reject, UnknownClient, ServeRevoked, LookupFails, WrongSecret, ServeStored,
        Serve, BeginRefresh, ProviderAnswers, Grant, Refuse, Disturb, Contradict, TimeOut,
        Answered, Crash
  <1>3. ASSUME NEW w \in Workers,
               \/ Send(w) \/ GiveUp(w) \/ Receive(w) \/ Raise(w) \/ RefreshError(w)
               \/ InvalidResponse(w) \/ Respond(w) \/ UpdateFails(w)
        PROVE  FALSE
    BY <1>1, <1>3
    DEF Send, GiveUp, Receive, Raise, RefreshError, InvalidResponse, Respond, UpdateFails
  <1>4. ASSUME NEW w \in Workers, RevokeGrant(w) \/ StoreAndRespond(w)
        PROVE  client[w] = c /\ pc[w] = "settled" /\ pc'[w] = "idle"
    BY <1>4 DEF RevokeGrant, StoreAndRespond, Refreshed, Return, update, TypeOK
  <1>5. ASSUME NEW d \in Clients, Insert(d)
        PROVE  Insert(c)
    <2>1. d = c
      BY <1>5 DEF Insert, TypeOK
    <2> QED
      BY <1>5, <2>1
  <1> QED
    BY <1>1, <1>2, <1>3, <1>4, <1>5 DEF Next, Progress, UserRevokes, StrayGranted, vars

\* The row a refresh writes back is never the mark of a revoked grant.
LEMMA StoredIsToken ==
  ASSUME TypeOK, NEW w \in Workers, StoreAndRespond(w)
  PROVE  /\ db' = [db EXCEPT ![client[w]] = dumps(secret[w], modified(w))]
         /\ dumps(secret[w], modified(w)) \in EncryptedToken
         /\ modified(w) \in Token
  BY DEF StoreAndRespond, update, dumps, EncryptedToken, TypeOK, modified, Token, Body

LEMMA InsertedIsToken ==
  ASSUME TypeOK, NEW c \in Clients, Insert(c)
  PROVE  db[c] = NoRow /\ db'[c] \in EncryptedToken
  <1>1. PICK data \in NewTokens : db' = [db EXCEPT ![c] = dumps(SecretOf[c], data)]
    BY DEF Insert
  <1>2. dumps(SecretOf[c], data) \in EncryptedToken
    BY NewTokensType, TokenEndpointAssumption DEF dumps, EncryptedToken
  <1> QED
    BY <1>1, <1>2 DEF Insert, TypeOK

\* A record that needs no scrubbing is only changed by a new refresh token.
LEMMA SameToken ==
  ASSUME TypeOK, NEW w \in Workers, ~row[w].unneeded,
         modified(w).refresh = row[w].refresh
  PROVE  modified(w) = row[w]
  <1>1. row[w] = [refresh |-> row[w].refresh, unneeded |-> row[w].unneeded]
    BY DEF TypeOK, Token
  <1>2. row[w].unneeded = FALSE
    BY DEF TypeOK, Token
  <1>3. modified(w) = [refresh |-> modified(w).refresh, unneeded |-> FALSE]
    BY DEF modified
  <1> QED
    BY <1>1, <1>2, <1>3

\* A denial that is not retryable comes with a 400.
DeniedBy400 ==
  \A w \in Workers :
    ~retryable(answer[w].status) /\ DeniesGrant(answer[w].body) => answer[w].status = 400

LEMMA DeniedAnswered ==
  ASSUME TypeOK, DeniedBy400, NEW w \in Workers, NEW status, NEW body,
         Answered(w, status, body),
         ~retryable(status) /\ DeniesGrant(body) => status = 400
  PROVE  DeniedBy400'
  BY DEF Answered, DeniedBy400, TypeOK

LEMMA DeniedStep ==
  ASSUME HonestDenials, TypeOK, DeniedBy400, [Next]_vars
  PROVE  DeniedBy400'
  <1>1. ASSUME UNCHANGED answer
        PROVE  DeniedBy400'
    BY <1>1 DEF DeniedBy400
  <1>2. ASSUME NEW w \in Workers, Request(w)
        PROVE  DeniedBy400'
    BY <1>1, <1>2
    DEF Request, Reject, UnknownClient, ServeRevoked, LookupFails, WrongSecret, ServeStored,
        Serve, BeginRefresh
  <1>3. ASSUME NEW w \in Workers, NEW r, Return(w, r)
        PROVE  DeniedBy400'
    <2>1. ~DeniesGrant(NoAnswer.body)
      BY BridgeErrorsDenyNothing DEF NoAnswer
    <2> QED
      BY <1>3, <2>1 DEF Return, DeniedBy400, TypeOK
  <1>4. ASSUME NEW w \in Workers, Progress(w) \/ Crash(w)
        PROVE  DeniedBy400'
    BY <1>1, <1>3, <1>4
    DEF Progress, Send, GiveUp, Receive, Raise, RevokeGrant, RefreshError, InvalidResponse,
        StoreAndRespond, Respond, UpdateFails, Crash
  <1>5. ASSUME NEW w \in Workers, Grant(w)
        PROVE  DeniedBy400'
    BY <1>5, DeniedAnswered DEF Grant, DeniesGrant
  <1>6. ASSUME NEW w \in Workers, Refuse(w)
        PROVE  DeniedBy400'
    BY <1>6, DeniedAnswered DEF Refuse
  <1>7. ASSUME NEW w \in Workers, NEW status, Disturb(w, status)
        PROVE  DeniedBy400'
    <2>1. PICK body :
            /\ body.error \in FailureErrors \cup {NoError, "server_error", "temporarily_unavailable"}
            /\ Answered(w, status, body)
      BY <1>7 DEF Disturb, ErrorBody, UndecodableBody
    <2>2. ~DeniesGrant(body)
      BY <2>1, FailuresDenyNothing
    <2> QED
      BY <2>1, <2>2, DeniedAnswered
  <1>8. ASSUME NEW w \in Workers, NEW status \in ContradictoryStatuses,
               Contradict(w, status)
        PROVE  DeniedBy400'
    <2>1. retryable(status)
      BY DEF HonestDenials, retryable
    <2> QED
      BY <1>8, <2>1, DeniedAnswered DEF Contradict
  <1>9. ASSUME NEW w \in Workers, TimeOut(w)
        PROVE  DeniedBy400'
    BY <1>9, DeniedAnswered, BridgeErrorsDenyNothing DEF TimeOut
  <1> QED
    BY <1>1, <1>2, <1>4, <1>5, <1>6, <1>7, <1>8, <1>9
    DEF Next, ProviderAnswers, Insert, UserRevokes, StrayGranted, vars

\* A provider that misuses invalid_grant at most with a retryable status loses
\* its grant only with a 400, although the view no longer has the status.
THEOREM OnlyA400Revokes ==
  ASSUME HonestDenials
  PROVE  Spec => RevokedOnlyOn400
  <1> DEFINE By400 ==
        \A c \in Clients :
          db[c] # Revoked /\ db'[c] = Revoked =>
            \E w \in Workers : /\ client[w] = c
                               /\ pc[w] = "settled" /\ pc'[w] = "idle"
                               /\ answer[w].status = 400
  <1>1. ASSUME JudgedInv, DeniedBy400, [Next]_vars
        PROVE  By400
    <2> SUFFICES ASSUME NEW c \in Clients, db[c] # Revoked, db'[c] = Revoked
                 PROVE  \E w \in Workers : /\ client[w] = c
                                           /\ pc[w] = "settled" /\ pc'[w] = "idle"
                                           /\ answer[w].status = 400
      OBVIOUS
    <2>1. TypeOK
      BY <1>1 DEF JudgedInv
    <2>2. ~Insert(c)
      BY <2>1, InsertedIsToken, TokenEndpointAssumption
    <2>3. PICK w \in Workers : /\ client[w] = c
                              /\ pc[w] = "settled" /\ pc'[w] = "idle"
                              /\ (RevokeGrant(w) \/ StoreAndRespond(w))
      BY <1>1, <2>1, <2>2, Writers
    <2>4. RevokeGrant(w)
      BY <2>1, <2>3, StoredIsToken, TokenEndpointAssumption DEF TypeOK
    <2>5. DeniesGrant(result[w])
      BY <2>4, ViewOutcome DEF RevokeGrant, Outcome
    <2>6. result[w] = fetch_result(answer[w].status, answer[w].body)
      <3>1. tries[w] \in Nat /\ tries[w] # 0
        BY <1>1, <2>1, <2>5, BridgeErrorsDenyNothing, TokenEndpointAssumption
        DEF JudgedInv, JudgedOf, TypeOK
      <3> QED
        BY <1>1, <2>3, <3>1 DEF JudgedInv, JudgedOf
    <2>7. answer[w].status = 400
      BY <1>1, <2>5, <2>6, FetchResult, BridgeErrorsDenyNothing DEF DeniedBy400
    <2> QED
      BY <2>3, <2>7
  <1>2. Init => DeniedBy400
    BY BridgeErrorsDenyNothing DEF Init, DeniedBy400, NoAnswer
  <1>3. JudgedInv /\ DeniedBy400 /\ [Next]_vars => DeniedBy400'
    BY DeniedStep DEF JudgedInv
  <1>4. JudgedInv /\ [Next]_vars => JudgedInv'
    BY JudgedStep
  <1>5. JudgedInv /\ DeniedBy400 /\ [Next]_vars => [By400]_vars
    BY <1>1
  <1> QED
    BY <1>2, <1>3, <1>4, <1>5, JudgedInit, PTL DEF Spec, RevokedOnlyOn400

\* Once a row is marked revoked, no answer of a provider that does not rotate
\* refresh tokens, honest or not, brings it back, with one exception: the scrub
\* of a row that an old release wrote.
THEOREM RevokedStaysRevoked ==
  ASSUME NoRotation
  PROVE  Spec => RevivedOnlyByScrub
  <1> DEFINE ByScrub ==
        \A c \in Clients :
          db[c] = Revoked /\ db'[c] # Revoked =>
            \E w \in Workers : /\ client[w] = c
                               /\ pc[w] = "settled" /\ pc'[w] = "idle"
                               /\ row[w].unneeded
  <1>1. ASSUME TypeOK /\ OneToken, [Next]_vars
        PROVE  ByScrub
    <2> SUFFICES ASSUME NEW c \in Clients, db[c] = Revoked, db'[c] # Revoked
                 PROVE  \E w \in Workers : /\ client[w] = c
                                           /\ pc[w] = "settled" /\ pc'[w] = "idle"
                                           /\ row[w].unneeded
      OBVIOUS
    <2>1. TypeOK
      BY <1>1
    <2>2. ~Insert(c)
      BY TokenEndpointAssumption DEF Insert
    <2>3. PICK w \in Workers : /\ client[w] = c
                              /\ pc[w] = "settled" /\ pc'[w] = "idle"
                              /\ (RevokeGrant(w) \/ StoreAndRespond(w))
      BY <1>1, <2>1, <2>2, Writers
    <2>4. StoreAndRespond(w)
      BY <2>1, <2>3 DEF RevokeGrant, update, TypeOK
    <2>5. modified(w).refresh = row[w].refresh
      BY <1>1, <2>3 DEF OneToken, modified, NoToken
    <2>6. row[w].unneeded
      BY <2>1, <2>4, <2>5, SameToken DEF StoreAndRespond
    <2> QED
      BY <2>3, <2>6
  <1>2. TypeOK /\ OneToken /\ [Next]_vars => [ByScrub]_vars
    BY <1>1
  <1>3. TypeOK /\ OneToken /\ [Next]_vars => OneToken'
    BY OneTokenStep
  <1> QED
    BY <1>2, <1>3, OneTokenInit, TypeCorrect, PTL DEF Spec, RevivedOnlyByScrub

-----------------------------------------------------------------------------
(* A provider that rotates refresh tokens.  A new one is known to a single *)
(* worker until it is stored, so nobody can make the provider replace it,  *)
(* and nobody can store an older one after it.                             *)

\* The refresh token that came with the last answer, until it is stored.
Holding(w) ==
  CASE pc[w] = "answered" -> answer[w].body.refresh
    [] pc[w] = "settled"  -> result[w].refresh
    [] OTHER              -> NoToken

Fresh(w) == pc[w] # "idle" /\ Holding(w) > row[w].refresh

\* No refresh token of grant c in the table, in the row of a worker or in a
\* delayed request is newer than the n-th.
Bound(c, n) ==
  /\ db[c] \in EncryptedToken => db[c].data.refresh <= n
  /\ \A w \in Workers : pc[w] # "idle" /\ client[w] = c => row[w].refresh <= n
  /\ \A s \in stray : s.client = c => s.refresh <= n

\* The row a worker works on was in the table, and has only become older.
InOrder(w) ==
  pc[w] # "idle" =>
    /\ row[w].refresh >= 1
    /\ db[client[w]] # NoRow
    /\ db[client[w]] \in EncryptedToken => row[w].refresh <= db[client[w]].data.refresh
    /\ Holding(w) = NoToken \/ Holding(w) >= row[w].refresh

\* Only the worker that holds a new refresh token knows it.
Secret(w) ==
  Fresh(w) =>
    /\ Holding(w) = newest[client[w]]
    /\ Bound(client[w], newest[client[w]] - 1)
    /\ \A v \in Workers : Fresh(v) /\ client[v] = client[w] => v = w

\* Only a call that ended leaves a token in its result.
Unsettled == \A w \in Workers : pc[w] # "settled" => result[w].refresh = NoToken

RotationInv ==
  /\ TypeOK
  /\ Unsettled
  /\ \A c \in Clients : Bound(c, newest[c])
  /\ \A w \in Workers : InOrder(w) /\ Secret(w)

\* Without rows of old releases nothing that can be refreshed needs a scrub.
Scrubbed ==
  /\ \A c \in Clients :
       db[c] \in EncryptedToken /\ db[c].data.refresh # NoToken => ~db[c].data.unneeded
  /\ \A w \in Workers : pc[w] # "idle" => ~row[w].unneeded

LEMMA RotationTypes ==
  ASSUME TypeOK
  PROVE  /\ \A c \in Clients : newest[c] \in Nat /\ newest[c] >= 1
         /\ \A c \in Clients : db[c] \in EncryptedToken => db[c].data.refresh \in Nat
         /\ \A w \in Workers : row[w].refresh \in Nat /\ Holding(w) \in Nat
         /\ \A s \in stray : s.refresh \in Nat /\ s.client \in Clients
  <1>1. RefreshTokens \subseteq Nat /\ MaxRefresh \in Nat /\ NoToken = 0
    BY TokenEndpointAssumption DEF RefreshTokens, NoToken
  <1>2. \A c \in Clients : newest[c] \in Nat /\ newest[c] >= 1
    BY <1>1 DEF TypeOK
  <1>3. \A c \in Clients : db[c] \in EncryptedToken => db[c].data.refresh \in Nat
    BY <1>1 DEF EncryptedToken, Token
  <1>4. \A w \in Workers : row[w].refresh \in Nat /\ Holding(w) \in Nat
    BY <1>1 DEF TypeOK, Token, Holding, Answer, Body
  <1>5. \A s \in stray : s.refresh \in Nat /\ s.client \in Clients
    BY <1>1 DEF TypeOK, Stray
  <1> QED
    BY <1>2, <1>3, <1>4, <1>5

LEMMA RotationInit == Init => RotationInv
  <1> SUFFICES ASSUME Init PROVE RotationInv
    OBVIOUS
  <1>1. TypeOK
    BY TypeInit
  <1>2. Unsettled
    BY DEF Init, Unsettled, ErrorBody
  <1>3. \A c \in Clients : Bound(c, newest[c])
    BY TokenEndpointAssumption DEF Init, Bound, Legacy
  <1>4. \A w \in Workers : InOrder(w) /\ Secret(w)
    BY DEF Init, InOrder, Secret, Fresh
  <1> QED
    BY <1>1, <1>2, <1>3, <1>4 DEF RotationInv

\* A worker that keeps a fresh token to itself.
LEMMA SecretKept ==
  ASSUME RotationInv, NEW w \in Workers, NEW c \in Clients, Fresh(w), client[w] = c,
         Holding(w)' = Holding(w), client'[w] = c, newest'[c] = newest[c],
         \A n \in Nat \ {0} : Bound(c, n) => Bound(c, n)',
         \A v \in Workers : Fresh(v)' /\ client'[v] = c => Fresh(v) /\ client[v] = c
  PROVE  Secret(w)'
  <1>1. /\ Holding(w) = newest[c]
        /\ Bound(c, newest[c] - 1)
        /\ \A v \in Workers : Fresh(v) /\ client[v] = c => v = w
    BY DEF RotationInv, Secret
  <1>2. newest[c] - 1 \in Nat \ {0}
    <2>1. /\ newest[c] \in Nat /\ row[w].refresh \in Nat
          /\ row[w].refresh >= 1 /\ row[w].refresh <= newest[c] - 1
      BY <1>1, RotationTypes DEF RotationInv, InOrder, Fresh, Bound
    <2> QED
      BY <2>1
  <1>3. PICK n \in Nat \ {0} : n = newest[c] - 1
    BY <1>2
  <1>4. Bound(c, n)'
    BY <1>1, <1>3
  <1>5. Bound(client[w], newest[client[w]] - 1)'
    BY <1>3, <1>4 DEF Bound
  <1>6. \A v \in Workers : Fresh(v)' /\ client'[v] = client'[w] => v = w
    BY <1>1
  <1> QED
    BY <1>1, <1>5, <1>6 DEF Secret

\* A step upon which nobody knows, or holds, a token that was not known to him.
LEMMA RotationFrame ==
  ASSUME RotationInv, TypeOK', Unsettled', UNCHANGED newest,
         \A c \in Clients, n \in Nat \ {0} : Bound(c, n) => Bound(c, n)',
         \A w \in Workers : InOrder(w)',
         \A w \in Workers : Fresh(w)' =>
           Fresh(w) /\ Holding(w)' = Holding(w) /\ client'[w] = client[w]
  PROVE  RotationInv'
  <1>1. \A c \in Clients : Bound(c, newest[c])'
    BY RotationTypes DEF RotationInv
  <1>2. ASSUME NEW w \in Workers, Fresh(w)'
        PROVE  Secret(w)'
    <2>1. PICK c \in Clients : client[w] = c
      BY DEF RotationInv, TypeOK
    <2> QED
      BY <1>2, <2>1, SecretKept
  <1>3. \A w \in Workers : Secret(w)'
    BY <1>2 DEF Secret
  <1> QED
    BY <1>1, <1>3 DEF RotationInv

\* What a step of worker w leaves alone.
OthersKept(w) ==
  \A v \in Workers \ {w} :
    /\ pc'[v] = pc[v] /\ client'[v] = client[v] /\ row'[v] = row[v]
    /\ answer'[v] = answer[v] /\ result'[v] = result[v]

LEMMA OthersHold ==
  ASSUME NEW w \in Workers, OthersKept(w), NEW v \in Workers, v # w
  PROVE  /\ Holding(v)' = Holding(v) /\ Fresh(v)' = Fresh(v)
         /\ (db' = db /\ InOrder(v)) => InOrder(v)'
  BY DEF OthersKept, Holding, Fresh, InOrder

\* A request in flight is the only thing a worker leaves to others.
LeavesStray(w) ==
  /\ stray \subseteq stray'
  /\ \A s \in stray' :
       s \in stray \/ s = [client |-> client[w], refresh |-> row[w].refresh]

LEMMA BoundKept ==
  ASSUME NEW w \in Workers, pc[w] # "idle", OthersKept(w), LeavesStray(w), UNCHANGED db,
         pc'[w] = "idle" \/ (client'[w] = client[w] /\ row'[w] = row[w]),
         NEW c \in Clients, NEW n \in Nat, Bound(c, n)
  PROVE  Bound(c, n)'
  <1>1. db'[c] \in EncryptedToken => db'[c].data.refresh <= n
    BY DEF Bound
  <1>2. \A v \in Workers : pc'[v] # "idle" /\ client'[v] = c => row'[v].refresh <= n
    BY DEF Bound, OthersKept
  <1>3. ASSUME NEW s \in stray', s.client = c
        PROVE  s.refresh <= n
    BY <1>3 DEF Bound, LeavesStray
  <1> QED
    BY <1>1, <1>2, <1>3 DEF Bound

\* A worker that is busy moves on, and holds at most what it did before, or the
\* token that is in its row.
LEMMA MoveOn ==
  ASSUME RotationInv, TypeOK', Unsettled', UNCHANGED <<newest, db>>,
         NEW w \in Workers, pc[w] # "idle", pc'[w] # "idle",
         OthersKept(w), LeavesStray(w), client'[w] = client[w], row'[w] = row[w],
         Holding(w)' \in {NoToken, Holding(w), row[w].refresh}
  PROVE  RotationInv'
  <1>1. \A c \in Clients, n \in Nat \ {0} : Bound(c, n) => Bound(c, n)'
    BY BoundKept
  <1>2. row[w].refresh \in Nat /\ Holding(w) \in Nat
    BY RotationTypes DEF RotationInv
  <1>3. InOrder(w)'
    BY <1>2 DEF RotationInv, InOrder
  <1>4. \A v \in Workers : InOrder(v)'
    BY <1>3, OthersHold DEF RotationInv
  <1>5. ASSUME Fresh(w)'
        PROVE  Fresh(w) /\ Holding(w)' = Holding(w)
    BY <1>2, <1>5 DEF Fresh, NoToken
  <1>6. \A v \in Workers : Fresh(v)' =>
          Fresh(v) /\ Holding(v)' = Holding(v) /\ client'[v] = client[v]
    BY <1>5, OthersHold DEF OthersKept
  <1> QED
    BY <1>1, <1>4, <1>6, RotationFrame

\* A worker ends its request, and marks the row revoked at most.
LEMMA LetGo ==
  ASSUME RotationInv, TypeOK', Unsettled', UNCHANGED newest,
         NEW w \in Workers, pc[w] # "idle", NEW r, Return(w, r), LeavesStray(w),
         UNCHANGED db \/ db' = [db EXCEPT ![client[w]] = Revoked]
  PROVE  RotationInv'
  <1>1. OthersKept(w) /\ pc'[w] = "idle"
    BY DEF Return, OthersKept, RotationInv, TypeOK
  <1>2. \A c \in Clients : db'[c] \in EncryptedToken => db'[c] = db[c]
    BY TokenEndpointAssumption DEF RotationInv, TypeOK
  <1>3. \A c \in Clients : db[c] # NoRow => db'[c] # NoRow
    BY TokenEndpointAssumption DEF RotationInv, TypeOK
  <1>4. ASSUME NEW c \in Clients, NEW n \in Nat, Bound(c, n)
        PROVE  Bound(c, n)'
    <2>1. db'[c] \in EncryptedToken => db'[c].data.refresh <= n
      BY <1>2, <1>4 DEF Bound
    <2>2. \A v \in Workers : pc'[v] # "idle" /\ client'[v] = c => row'[v].refresh <= n
      BY <1>1, <1>4 DEF Bound, OthersKept
    <2>3. ASSUME NEW s \in stray', s.client = c
          PROVE  s.refresh <= n
      BY <1>4, <2>3 DEF Bound, LeavesStray
    <2> QED
      BY <2>1, <2>2, <2>3 DEF Bound
  <1>5. ASSUME NEW v \in Workers
        PROVE  InOrder(v)'
    <2>1. CASE v = w
      BY <1>1, <2>1 DEF InOrder
    <2>2. CASE v # w
      <3>1. /\ pc'[v] = pc[v] /\ client'[v] = client[v] /\ row'[v] = row[v]
            /\ Holding(v)' = Holding(v) /\ client[v] \in Clients /\ InOrder(v)
        BY <1>1, <2>2, OthersHold DEF OthersKept, RotationInv, TypeOK
      <3> QED
        BY <1>2, <1>3, <3>1 DEF InOrder
    <2> QED
      BY <2>1, <2>2
  <1>6. ASSUME NEW v \in Workers, Fresh(v)'
        PROVE  Fresh(v) /\ Holding(v)' = Holding(v) /\ client'[v] = client[v]
    <2>1. v # w
      BY <1>1, <1>6 DEF Fresh
    <2> QED
      BY <1>1, <1>6, <2>1, OthersHold DEF OthersKept
  <1> QED
    BY <1>4, <1>5, <1>6, RotationFrame

LEMMA BeginRotation ==
  ASSUME RotationInv, TypeOK', NEW w \in Workers, NEW c \in Clients, NEW s \in Secrets,
         BeginRefresh(w, c, s)
  PROVE  RotationInv'
  <1>1. /\ pc[w] = "idle" /\ pc'[w] = "fetch" /\ client'[w] = c /\ row'[w] = db[c].data
        /\ db[c] \in EncryptedToken /\ db[c].data.refresh # NoToken
        /\ UNCHANGED <<db, newest, stray, result>>
    BY DEF BeginRefresh, provider, RotationInv, TypeOK
  <1>2. OthersKept(w)
    BY DEF BeginRefresh, OthersKept, RotationInv, TypeOK
  <1>3. db[c].data.refresh \in Nat
    BY <1>1, RotationTypes DEF RotationInv
  <1>4. Unsettled'
    BY <1>1, <1>2 DEF RotationInv, Unsettled, OthersKept
  <1>5. ASSUME NEW d \in Clients, NEW n \in Nat \ {0}, Bound(d, n)
        PROVE  Bound(d, n)'
    BY <1>1, <1>2, <1>5 DEF Bound, OthersKept
  <1>6. InOrder(w)'
    <2>1. db[c] # NoRow
      BY <1>1, TokenEndpointAssumption
    <2>2. Holding(w)' = NoToken
      BY <1>1 DEF Holding
    <2> QED
      BY <1>1, <1>3, <2>1, <2>2 DEF InOrder, NoToken
  <1>7. \A v \in Workers : InOrder(v)'
    BY <1>1, <1>2, <1>6, OthersHold DEF RotationInv
  <1>8. ~Fresh(w)'
    <2>1. Holding(w)' = 0
      BY <1>1 DEF Holding, NoToken
    <2> QED
      BY <1>1, <1>3, <2>1 DEF Fresh
  <1>9. \A v \in Workers : Fresh(v)' =>
          Fresh(v) /\ Holding(v)' = Holding(v) /\ client'[v] = client[v]
    BY <1>2, <1>8, OthersHold DEF OthersKept
  <1> QED
    BY <1>1, <1>4, <1>5, <1>7, <1>9, RotationFrame

LEMMA ServeRotation ==
  ASSUME RotationInv, TypeOK', NEW w \in Workers, NEW c \in Clients, NEW r, Serve(w, c, r)
  PROVE  RotationInv'
  <1>1. /\ pc[w] = "idle" /\ UNCHANGED <<db, newest, stray, pc, row, answer, result>>
        /\ \A v \in Workers \ {w} : client'[v] = client[v]
    BY DEF Serve, provider, RotationInv, TypeOK
  <1>2. Unsettled'
    BY <1>1 DEF RotationInv, Unsettled
  <1>3. ASSUME NEW d \in Clients, NEW n \in Nat \ {0}, Bound(d, n)
        PROVE  Bound(d, n)'
    BY <1>1, <1>3 DEF Bound
  <1>4. \A v \in Workers : InOrder(v)'
    BY <1>1 DEF RotationInv, InOrder, Holding
  <1>5. \A v \in Workers : Fresh(v)' =>
          Fresh(v) /\ Holding(v)' = Holding(v) /\ client'[v] = client[v]
    BY <1>1 DEF Fresh, Holding
  <1> QED
    BY <1>1, <1>2, <1>3, <1>4, <1>5, RotationFrame

LEMMA InsertRotation ==
  ASSUME RotationInv, TypeOK', NEW c \in Clients, Insert(c)
  PROVE  RotationInv'
  <1>1. PICK data \in NewTokens : db' = [db EXCEPT ![c] = dumps(SecretOf[c], data)]
    BY DEF Insert
  <1>2. /\ db[c] = NoRow /\ UNCHANGED <<newest, stray, pc, client, row, answer, result>>
        /\ \A d \in Clients \ {c} : db'[d] = db[d]
    BY <1>1 DEF Insert, provider, RotationInv, TypeOK
  <1>3. db'[c].data.refresh \in {0, 1}
    BY <1>1, NewTokensType DEF RotationInv, TypeOK, dumps, NoToken
  <1>4. \A w \in Workers : pc[w] # "idle" => client[w] # c
    BY <1>2 DEF RotationInv, InOrder
  <1>5. Unsettled'
    BY <1>2 DEF RotationInv, Unsettled
  <1>6. ASSUME NEW d \in Clients, NEW n \in Nat \ {0}, Bound(d, n)
        PROVE  Bound(d, n)'
    <2>1. db'[d] \in EncryptedToken => db'[d].data.refresh <= n
      BY <1>2, <1>3, <1>6 DEF Bound
    <2> QED
      BY <1>2, <1>6, <2>1 DEF Bound
  <1>7. ASSUME NEW w \in Workers
        PROVE  InOrder(w)'
    <2>1. pc[w] # "idle" => db'[client[w]] = db[client[w]]
      BY <1>2, <1>4 DEF RotationInv, TypeOK
    <2>2. Holding(w)' = Holding(w)
      BY <1>2 DEF Holding
    <2> QED
      BY <1>2, <2>1, <2>2 DEF RotationInv, InOrder
  <1>8. \A v \in Workers : Fresh(v)' =>
          Fresh(v) /\ Holding(v)' = Holding(v) /\ client'[v] = client[v]
    BY <1>2 DEF Fresh, Holding
  <1> QED
    BY <1>2, <1>5, <1>6, <1>7, <1>8, RotationFrame

LEMMA BoundMonotone ==
  ASSUME TypeOK, NEW c \in Clients, NEW m \in Nat, NEW n \in Nat, m <= n, Bound(c, m)
  PROVE  Bound(c, n)
  BY RotationTypes DEF Bound

\* Whoever can make the provider issue a new token knows the newest one: then
\* nobody holds a fresh one.
LEMMA NobodyFresh ==
  ASSUME RotationInv, NEW c \in Clients, ~Bound(c, newest[c] - 1)
  PROVE  \A v \in Workers : client[v] = c => ~Fresh(v)
  BY DEF RotationInv, Secret

\* The provider replaces the newest refresh token of grant c; at most the
\* worker it answers learns about it.
LEMMA Rotate ==
  ASSUME RotationInv, TypeOK', Unsettled', UNCHANGED db, NEW c \in Clients,
         newest' = [newest EXCEPT ![c] = @ + 1], ~Bound(c, newest[c] - 1),
         stray' \subseteq stray, UNCHANGED <<client, row>>,
         \A v \in Workers : pc'[v] # "idle" => pc[v] # "idle",
         \A v \in Workers : InOrder(v)',
         \A v, u \in Workers :
           /\ Fresh(v)' /\ client[v] = c => Holding(v)' = newest[c] + 1
           /\ Fresh(v)' /\ client[v] = c /\ Fresh(u)' /\ client[u] = c => u = v,
         \A v \in Workers : client[v] # c /\ Fresh(v)' => Fresh(v) /\ Holding(v)' = Holding(v)
  PROVE  RotationInv'
  <1>1. newest[c] \in Nat /\ newest'[c] = newest[c] + 1
    BY RotationTypes DEF RotationInv, TypeOK
  <1>2. ASSUME NEW d \in Clients, NEW n \in Nat, Bound(d, n)
        PROVE  Bound(d, n)'
    BY <1>2 DEF Bound
  <1>3. ASSUME NEW d \in Clients
        PROVE  Bound(d, newest[d])'
    <2>1. Bound(d, newest[d]) /\ newest[d] \in Nat
      BY RotationTypes DEF RotationInv
    <2>2. newest'[d] \in Nat /\ newest'[d] >= newest[d]
      BY <1>1, <2>1 DEF RotationInv, TypeOK
    <2>3. PICK n \in Nat : n = newest'[d]
      BY <2>2
    <2>4. Bound(d, n)'
      BY <1>2, <2>1, <2>2, <2>3, BoundMonotone DEF RotationInv
    <2> QED
      BY <2>3, <2>4 DEF Bound
  <1>4. ASSUME NEW w \in Workers, Fresh(w)', client[w] = c
        PROVE  Secret(w)'
    <2>1. PICK n \in Nat : n = newest[c]
      BY <1>1
    <2>2. Bound(c, n)'
      BY <1>2, <2>1 DEF RotationInv
    <2>3. client'[w] = c /\ newest'[client'[w]] - 1 = n /\ Holding(w)' = newest'[client'[w]]
      BY <1>1, <1>4, <2>1
    <2>4. Bound(client[w], newest[client[w]] - 1)'
      BY <2>2, <2>3 DEF Bound
    <2>5. \A v \in Workers : Fresh(v)' /\ client'[v] = client'[w] => v = w
      BY <1>4
    <2> QED
      BY <2>3, <2>4, <2>5 DEF Secret
  <1>5. ASSUME NEW w \in Workers, Fresh(w)', client[w] # c
        PROVE  Secret(w)'
    <2>1. PICK d \in Clients : client[w] = d
      BY DEF RotationInv, TypeOK
    <2>2. newest'[d] = newest[d]
      BY <1>5, <2>1 DEF RotationInv, TypeOK
    <2>3. \A v \in Workers : Fresh(v)' /\ client'[v] = d => Fresh(v) /\ client[v] = d
      BY <1>5, <2>1
    <2> QED
      BY <1>2, <1>5, <2>1, <2>2, <2>3, SecretKept
  <1>6. \A w \in Workers : Secret(w)'
    BY <1>4, <1>5 DEF Secret
  <1> QED
    BY <1>3, <1>6 DEF RotationInv

LEMMA GrantRotation ==
  ASSUME RotationInv, TypeOK', NEW w \in Workers, Grant(w)
  PROVE  RotationInv'
  <1>1. PICK c \in Clients : client[w] = c
    BY DEF RotationInv, TypeOK
  <1>2. PICK token \in RefreshTokens :
          /\ Renew(c, token)
          /\ Answered(w, 200, [error |-> NoError, token |-> TRUE, refresh |-> token])
    BY <1>1 DEF Grant
  <1>3. /\ pc[w] = "sent" /\ row[w].refresh = newest[c]
        /\ pc'[w] = "answered" /\ Holding(w)' = token
        /\ UNCHANGED <<db, stray, client, row, result>>
    BY <1>1, <1>2 DEF Grant, Accepts, Answered, Holding, RotationInv, TypeOK
  <1>4. OthersKept(w) /\ LeavesStray(w)
    BY <1>2, <1>3 DEF Answered, OthersKept, LeavesStray, RotationInv, TypeOK
  <1>5. Unsettled'
    BY <1>3, <1>4 DEF RotationInv, Unsettled, OthersKept
  <1>6. CASE UNCHANGED newest /\ token \in {NoToken, newest[c]}
    BY <1>3, <1>4, <1>5, <1>6, MoveOn
  <1>7. CASE token = newest[c] + 1 /\ newest' = [newest EXCEPT ![c] = token]
    <2>1. newest[c] \in Nat /\ newest[c] >= 1
      BY RotationTypes DEF RotationInv
    <2>2. ~Bound(c, newest[c] - 1)
      BY <1>1, <1>3, <2>1 DEF Bound
    <2>3. InOrder(w)'
      BY <1>3, <1>7, <2>1 DEF RotationInv, InOrder
    <2>4. \A v \in Workers : InOrder(v)'
      BY <1>3, <1>4, <2>3, OthersHold DEF RotationInv
    <2>5. \A v \in Workers : v # w => Fresh(v)' = Fresh(v) /\ Holding(v)' = Holding(v)
      BY <1>4, OthersHold
    <2>6. \A v \in Workers : Fresh(v)' /\ client[v] = c => v = w
      BY <2>2, <2>5, NobodyFresh
    <2>7. \A v \in Workers : pc'[v] # "idle" => pc[v] # "idle"
      BY <1>3, <1>4 DEF OthersKept
    <2> QED
      BY <1>1, <1>3, <1>5, <1>7, <2>2, <2>4, <2>5, <2>6, <2>7, Rotate
  <1> QED
    BY <1>2, <1>6, <1>7 DEF Renew

LEMMA StrayRotation ==
  ASSUME RotationInv, TypeOK', NEW s \in Stray, StrayGranted(s)
  PROVE  RotationInv'
  <1>1. PICK c \in Clients : s.client = c
    BY DEF Stray
  <1>2. /\ s \in stray /\ s.refresh = newest[c] /\ stray' \subseteq stray
        /\ UNCHANGED <<db, pc, client, row, answer, result>>
    BY <1>1 DEF StrayGranted, Accepts
  <1>3. PICK token \in RefreshTokens : Renew(c, token)
    BY <1>1 DEF StrayGranted
  <1>4. Unsettled'
    BY <1>2 DEF RotationInv, Unsettled
  <1>5. \A v \in Workers : Fresh(v)' = Fresh(v) /\ Holding(v)' = Holding(v)
    BY <1>2 DEF Fresh, Holding
  <1>6. \A v \in Workers : InOrder(v)'
    BY <1>2, <1>5 DEF RotationInv, InOrder
  <1>7. CASE UNCHANGED newest
    <2>1. ASSUME NEW d \in Clients, NEW n \in Nat \ {0}, Bound(d, n)
          PROVE  Bound(d, n)'
      BY <1>2, <2>1 DEF Bound
    <2> QED
      BY <1>2, <1>4, <1>5, <1>6, <1>7, <2>1, RotationFrame
  <1>8. CASE newest' = [newest EXCEPT ![c] = @ + 1]
    <2>1. newest[c] \in Nat
      BY RotationTypes DEF RotationInv
    <2>2. ~Bound(c, newest[c] - 1)
      BY <1>1, <1>2, <2>1 DEF Bound
    <2>3. \A v \in Workers : client[v] = c => ~Fresh(v)'
      BY <1>5, <2>2, NobodyFresh
    <2> QED
      BY <1>2, <1>4, <1>5, <1>6, <1>8, <2>2, <2>3, Rotate
  <1> QED
    BY <1>3, <1>7, <1>8 DEF Renew

\* A row that is written back holds a fresh token.
LEMMA StoredIsFresh ==
  ASSUME RotationInv, Scrubbed, NEW w \in Workers, StoreAndRespond(w)
  PROVE  Fresh(w) /\ modified(w).refresh = Holding(w)
  <1>1. pc[w] = "settled" /\ modified(w) # row[w] /\ ~row[w].unneeded
    BY DEF StoreAndRespond, Refreshed, Scrubbed
  <1>2. modified(w).refresh # row[w].refresh
    BY <1>1, SameToken DEF RotationInv
  <1>3. Holding(w) = result[w].refresh
    BY <1>1 DEF Holding
  <1>4. modified(w).refresh = result[w].refresh /\ result[w].refresh # NoToken
    BY <1>2 DEF modified
  <1>5. Holding(w) >= row[w].refresh /\ Holding(w) # row[w].refresh
    BY <1>1, <1>2, <1>3, <1>4 DEF RotationInv, InOrder
  <1>6. Holding(w) \in Nat /\ row[w].refresh \in Nat
    BY RotationTypes DEF RotationInv
  <1> QED
    BY <1>1, <1>3, <1>4, <1>5, <1>6 DEF Fresh

LEMMA StoreRotation ==
  ASSUME RotationInv, Scrubbed, TypeOK', Unsettled', NEW w \in Workers, StoreAndRespond(w)
  PROVE  RotationInv'
  <1>1. PICK c \in Clients : client[w] = c
    BY DEF RotationInv, TypeOK
  <1>2. /\ Holding(w) = newest[c] /\ Bound(c, newest[c] - 1)
        /\ \A v \in Workers : Fresh(v) /\ client[v] = c => v = w
    BY <1>1, StoredIsFresh DEF RotationInv, Secret
  <1>3. /\ UNCHANGED <<newest, stray>> /\ OthersKept(w) /\ pc'[w] = "idle"
        /\ client' = client
    BY DEF StoreAndRespond, Return, provider, OthersKept, RotationInv, TypeOK
  <1>4. /\ db'[c] \in EncryptedToken /\ db'[c].data.refresh = newest[c]
        /\ \A d \in Clients \ {c} : db'[d] = db[d]
    <2> DEFINE token == dumps(secret[w], modified(w))
    <2>1. db' = [db EXCEPT ![c] = token] /\ token \in EncryptedToken
      BY <1>1, StoredIsToken DEF RotationInv
    <2>2. token.data.refresh = newest[c]
      BY <1>2, StoredIsFresh DEF dumps
    <2> HIDE DEF token
    <2>3. DOMAIN db = Clients
      BY DEF RotationInv, TypeOK
    <2> QED
      BY <2>1, <2>2, <2>3
  <1>5. newest[c] \in Nat
    BY RotationTypes DEF RotationInv
  <1>6. ASSUME NEW d \in Clients, d # c, NEW n \in Nat, Bound(d, n)
        PROVE  Bound(d, n)'
    BY <1>3, <1>4, <1>6 DEF Bound, OthersKept
  <1>7. \A d \in Clients : Bound(d, newest[d])'
    <2>1. Bound(c, newest[c])'
      <3>1. Bound(c, newest[c])
        BY DEF RotationInv
      <3> QED
        BY <1>3, <1>4, <1>5, <3>1 DEF Bound, OthersKept
    <2> QED
      BY <1>3, <1>6, <2>1, RotationTypes DEF RotationInv
  <1>8. ASSUME NEW v \in Workers
        PROVE  InOrder(v)'
    <2>1. CASE v = w
      BY <1>3, <2>1 DEF InOrder
    <2>2. CASE v # w /\ client[v] = c
      <3>1. pc[v] # "idle" => row[v].refresh <= newest[c]
        BY <1>2, <1>5, <2>2, RotationTypes DEF RotationInv, Bound
      <3>2. db'[c] # NoRow
        BY <1>4, TokenEndpointAssumption
      <3>3. Holding(v)' = Holding(v)
        BY <1>3, <2>2, OthersHold
      <3> QED
        BY <1>3, <1>4, <2>2, <3>1, <3>2, <3>3 DEF RotationInv, InOrder, OthersKept
    <2>3. CASE v # w /\ client[v] # c
      <3>1. Holding(v)' = Holding(v) /\ client[v] \in Clients
        BY <1>3, <2>3, OthersHold DEF RotationInv, TypeOK
      <3> QED
        BY <1>3, <1>4, <2>3, <3>1 DEF RotationInv, InOrder, OthersKept
    <2> QED
      BY <2>1, <2>2, <2>3
  <1>9. ASSUME NEW v \in Workers, Fresh(v)'
        PROVE  Secret(v)'
    <2>1. v # w /\ Fresh(v) /\ Holding(v)' = Holding(v)
      BY <1>3, <1>9, OthersHold DEF Fresh
    <2>2. PICK d \in Clients : client[v] = d
      BY DEF RotationInv, TypeOK
    <2>3. d # c
      BY <1>2, <2>1, <2>2
    <2>4. \A u \in Workers : Fresh(u)' /\ client'[u] = d => Fresh(u) /\ client[u] = d
      BY <1>3, OthersHold DEF Fresh
    <2> QED
      BY <1>3, <1>6, <2>1, <2>2, <2>3, <2>4, SecretKept
  <1>10. \A v \in Workers : Secret(v)'
    BY <1>9 DEF Secret
  <1> QED
    BY <1>7, <1>8, <1>10 DEF RotationInv

LEMMA UnsettledStep ==
  ASSUME TypeOK, Unsettled, [Next]_vars
  PROVE  Unsettled'
  <1>1. \A error : ErrorBody(error).refresh = NoToken
    BY DEF ErrorBody
  <1>2. ASSUME NEW w \in Workers, NEW q, pc[w] # "settled", pc' = [pc EXCEPT ![w] = q],
               UNCHANGED result
        PROVE  Unsettled'
    BY <1>2 DEF Unsettled, TypeOK
  <1>3. ASSUME UNCHANGED <<pc, result>>
        PROVE  Unsettled'
    BY <1>3 DEF Unsettled
  <1>4. ASSUME NEW w \in Workers, NEW r, Return(w, r)
        PROVE  Unsettled'
    BY <1>1, <1>4 DEF Return, Unsettled, TypeOK
  <1>5. ASSUME NEW w \in Workers, Request(w)
        PROVE  Unsettled'
    BY <1>2, <1>3, <1>5
    DEF Request, Reject, UnknownClient, ServeRevoked, LookupFails, WrongSecret, ServeStored,
        Serve, BeginRefresh
  <1>6. ASSUME NEW w \in Workers, ProviderAnswers(w) \/ Send(w) \/ GiveUp(w)
        PROVE  Unsettled'
    BY <1>2, <1>6
    DEF ProviderAnswers, Grant, Refuse, Disturb, Contradict, TimeOut, Answered, Send, GiveUp
  <1>7. ASSUME NEW w \in Workers, Receive(w)
        PROVE  Unsettled'
    <2>1. result' = [result EXCEPT ![w] = IF retryable(answer[w].status)
                       THEN ErrorBody("temporarily_unavailable") ELSE answer[w].body]
      BY <1>7, FetchResult DEF Receive
    <2>2. pc' = [pc EXCEPT ![w] = IF retryable(answer[w].status) THEN "fetch" ELSE "settled"]
      BY <1>7 DEF Receive, token_endpoint_outcome
    <2> QED
      BY <1>1, <2>1, <2>2 DEF Unsettled, TypeOK
  <1>8. ASSUME NEW w \in Workers,
               \/ Raise(w) \/ RefreshError(w) \/ InvalidResponse(w) \/ Respond(w)
               \/ UpdateFails(w) \/ Crash(w) \/ RevokeGrant(w) \/ StoreAndRespond(w)
        PROVE  Unsettled'
    BY <1>4, <1>8
    DEF Raise, RefreshError, InvalidResponse, Respond, UpdateFails, Crash, RevokeGrant,
        StoreAndRespond
  <1> QED
    BY <1>3, <1>5, <1>6, <1>7, <1>8
    DEF Next, Progress, Insert, UserRevokes, StrayGranted, vars

\* An answer without a refresh token, possibly after a timeout.
LEMMA AnsweredRotation ==
  ASSUME RotationInv, TypeOK', Unsettled', NEW w \in Workers, NEW status, NEW body,
         Answered(w, status, body), body.refresh = NoToken, UNCHANGED newest, LeavesStray(w)
  PROVE  RotationInv'
  <1>1. /\ pc[w] = "sent" /\ pc'[w] = "answered" /\ Holding(w)' = NoToken
        /\ UNCHANGED <<db, client, row>> /\ OthersKept(w)
    BY DEF Answered, Holding, OthersKept, RotationInv, TypeOK
  <1> QED
    BY <1>1, MoveOn

LEMMA RotationStep ==
  ASSUME RotationInv, Scrubbed, [Next]_vars
  PROVE  RotationInv'
  <1>1. TypeOK /\ TypeOK' /\ Unsettled'
    BY TypeStep, UnsettledStep DEF RotationInv
  <1>2. ASSUME NEW w \in Workers, Request(w)
        PROVE  RotationInv'
    BY <1>1, <1>2, ServeRotation, BeginRotation
    DEF Request, Reject, UnknownClient, ServeRevoked, LookupFails, WrongSecret, ServeStored
  <1>3. ASSUME NEW w \in Workers, ProviderAnswers(w)
        PROVE  RotationInv'
    <2>1. UNCHANGED stray => LeavesStray(w)
      BY DEF LeavesStray
    <2>2. CASE Refuse(w)
      BY <1>1, <2>1, <2>2, AnsweredRotation DEF Refuse, ErrorBody
    <2>3. ASSUME NEW status \in FailureStatuses, Disturb(w, status)
          PROVE  RotationInv'
      <3>1. PICK body : body.refresh = NoToken /\ Answered(w, status, body)
        BY <2>3 DEF Disturb, ErrorBody, UndecodableBody
      <3> QED
        BY <1>1, <2>1, <2>3, <3>1, AnsweredRotation DEF Disturb
    <2>4. ASSUME NEW status \in ContradictoryStatuses, Contradict(w, status)
          PROVE  RotationInv'
      BY <1>1, <2>1, <2>4, AnsweredRotation DEF Contradict, ErrorBody
    <2>5. CASE TimeOut(w)
      <3>1. LeavesStray(w)
        BY <2>5 DEF TimeOut, LeavesStray
      <3> QED
        BY <1>1, <2>5, <3>1, AnsweredRotation DEF TimeOut, ErrorBody
    <2> QED
      BY <1>1, <1>3, <2>2, <2>3, <2>4, <2>5, GrantRotation DEF ProviderAnswers
  <1>4. ASSUME NEW w \in Workers, Send(w) \/ GiveUp(w)
        PROVE  RotationInv'
    <2>1. /\ pc[w] = "fetch" /\ pc'[w] \in {"sent", "settled"}
          /\ UNCHANGED <<db, newest, stray, client, row, result>>
          /\ OthersKept(w) /\ LeavesStray(w)
      BY <1>1, <1>4 DEF Send, GiveUp, provider, OthersKept, LeavesStray, TypeOK
    <2>2. Holding(w)' = NoToken
      BY <2>1 DEF Holding, RotationInv, Unsettled
    <2> QED
      BY <1>1, <2>1, <2>2, MoveOn
  <1>5. ASSUME NEW w \in Workers, Receive(w)
        PROVE  RotationInv'
    <2>1. result' = [result EXCEPT ![w] = IF retryable(answer[w].status)
                       THEN ErrorBody("temporarily_unavailable") ELSE answer[w].body]
      BY <1>5, FetchResult DEF Receive
    <2>2. pc' = [pc EXCEPT ![w] = IF retryable(answer[w].status) THEN "fetch" ELSE "settled"]
      BY <1>5 DEF Receive, token_endpoint_outcome
    <2>3. /\ pc[w] = "answered" /\ UNCHANGED <<db, newest, stray, client, row, answer>>
          /\ LeavesStray(w)
      BY <1>5 DEF Receive, provider, LeavesStray
    <2>4. OthersKept(w)
      BY <1>1, <2>1, <2>2, <2>3 DEF OthersKept, TypeOK
    <2>5. pc'[w] \in {"fetch", "settled"} /\ Holding(w)' \in {NoToken, Holding(w)}
      BY <1>1, <2>1, <2>2, <2>3 DEF Holding, TypeOK
    <2> QED
      BY <1>1, <2>3, <2>4, <2>5, MoveOn
  <1>6. ASSUME NEW w \in Workers, Crash(w)
        PROVE  RotationInv'
    <2>1. LeavesStray(w)
      BY <1>6 DEF Crash, LeavesStray
    <2> QED
      BY <1>1, <1>6, <2>1, LetGo DEF Crash
  <1>7. ASSUME NEW w \in Workers,
               \/ Raise(w) \/ RevokeGrant(w) \/ RefreshError(w) \/ InvalidResponse(w)
               \/ Respond(w) \/ UpdateFails(w)
        PROVE  RotationInv'
    <2>1. /\ pc[w] # "idle" /\ UNCHANGED <<newest, stray>> /\ \E r : Return(w, r)
          /\ UNCHANGED db \/ db' = [db EXCEPT ![client[w]] = Revoked]
      BY <1>7
      DEF Raise, RevokeGrant, RefreshError, InvalidResponse, Respond, UpdateFails, Refreshed,
          update, provider
    <2>2. LeavesStray(w)
      BY <2>1 DEF LeavesStray
    <2> QED
      BY <1>1, <2>1, <2>2, LetGo
  <1>8. ASSUME UNCHANGED <<db, newest, stray, pc, client, row, answer, result>>
        PROVE  RotationInv'
    <2>1. \A c \in Clients, n \in Nat \ {0} : Bound(c, n) => Bound(c, n)'
      BY <1>8 DEF Bound
    <2>2. \A w \in Workers : Holding(w)' = Holding(w) /\ Fresh(w)' = Fresh(w)
      BY <1>8 DEF Holding, Fresh
    <2>3. \A w \in Workers : InOrder(w)'
      BY <1>8, <2>2 DEF RotationInv, InOrder
    <2> QED
      BY <1>1, <1>8, <2>1, <2>2, <2>3, RotationFrame
  <1>9. ASSUME NEW c \in Clients, UserRevokes(c)
        PROVE  RotationInv'
    BY <1>8, <1>9 DEF UserRevokes
  <1>10. CASE UNCHANGED vars
    BY <1>8, <1>10 DEF vars, provider
  <1> QED
    BY <1>1, <1>2, <1>3, <1>4, <1>5, <1>6, <1>7, <1>9, <1>10, StoreRotation, InsertRotation,
       StrayRotation
    DEF Next, Progress

LEMMA ScrubbedInit == (Init /\ ~LegacyRows) => Scrubbed
  BY TokenEndpointAssumption DEF Init, Scrubbed

LEMMA ScrubbedStep ==
  ASSUME TypeOK, Scrubbed, [Next]_vars
  PROVE  Scrubbed'
  <1>1. ASSUME NEW w \in Workers, NEW c \in Clients, NEW s \in Secrets, BeginRefresh(w, c, s)
        PROVE  Scrubbed'
    BY <1>1 DEF BeginRefresh, Scrubbed, TypeOK
  <1>2. ASSUME UNCHANGED db,
               \A w \in Workers : pc'[w] # "idle" => pc[w] # "idle" /\ row'[w] = row[w]
        PROVE  Scrubbed'
    BY <1>2 DEF Scrubbed
  <1>3. ASSUME NEW w \in Workers, Request(w)
        PROVE  Scrubbed'
    BY <1>1, <1>2, <1>3
    DEF Request, Reject, UnknownClient, ServeRevoked, LookupFails, WrongSecret, ServeStored,
        Serve
  <1>4. ASSUME NEW w \in Workers, NEW q, pc[w] # "idle", pc' = [pc EXCEPT ![w] = q],
               UNCHANGED <<db, row>>
        PROVE  Scrubbed'
    BY <1>4 DEF Scrubbed, TypeOK
  <1>5. ASSUME NEW w \in Workers,
               ProviderAnswers(w) \/ Send(w) \/ GiveUp(w) \/ Receive(w)
        PROVE  Scrubbed'
    BY <1>4, <1>5
    DEF ProviderAnswers, Grant, Refuse, Disturb, Contradict, TimeOut, Answered, Send, GiveUp,
        Receive
  <1>6. ASSUME NEW w \in Workers, NEW r, Return(w, r)
        PROVE  \A v \in Workers : pc'[v] # "idle" => pc[v] # "idle" /\ row'[v] = row[v]
    BY <1>6 DEF Return, TypeOK
  <1>7. ASSUME NEW w \in Workers,
               \/ Raise(w) \/ RefreshError(w) \/ InvalidResponse(w) \/ Respond(w)
               \/ UpdateFails(w) \/ Crash(w)
        PROVE  Scrubbed'
    BY <1>2, <1>6, <1>7 DEF Raise, RefreshError, InvalidResponse, Respond, UpdateFails, Crash
  <1>8. ASSUME NEW w \in Workers, NEW token, db' = [db EXCEPT ![client[w]] = token],
               token \in EncryptedToken => ~token.data.unneeded,
               \A v \in Workers : pc'[v] # "idle" => pc[v] # "idle" /\ row'[v] = row[v]
        PROVE  Scrubbed'
    <2>1. ASSUME NEW c \in Clients, db'[c] \in EncryptedToken, db'[c].data.refresh # NoToken
          PROVE  ~db'[c].data.unneeded
      <3>1. db'[c] = db[c] \/ db'[c] = token
        BY <1>8 DEF TypeOK
      <3> QED
        BY <1>8, <2>1, <3>1 DEF Scrubbed
    <2> QED
      BY <1>8, <2>1 DEF Scrubbed
  <1>9. ASSUME NEW w \in Workers, RevokeGrant(w)
        PROVE  Scrubbed'
    BY <1>6, <1>8, <1>9, TokenEndpointAssumption DEF RevokeGrant, update
  <1>10. ASSUME NEW w \in Workers, StoreAndRespond(w)
         PROVE  Scrubbed'
    <2>1. ~dumps(secret[w], modified(w)).data.unneeded
      BY DEF dumps, modified
    <2> QED
      BY <1>6, <1>8, <1>10, <2>1 DEF StoreAndRespond, update
  <1>11. ASSUME NEW c \in Clients, Insert(c)
         PROVE  Scrubbed'
    <2>1. PICK data \in NewTokens : db' = [db EXCEPT ![c] = dumps(SecretOf[c], data)]
      BY <1>11 DEF Insert
    <2>2. dumps(SecretOf[c], data).data.refresh # NoToken =>
            ~dumps(SecretOf[c], data).data.unneeded
      BY DEF NewTokens, dumps
    <2>3. UNCHANGED <<pc, row>>
      BY <1>11 DEF Insert
    <2>4. ASSUME NEW d \in Clients, db'[d] \in EncryptedToken, db'[d].data.refresh # NoToken
          PROVE  ~db'[d].data.unneeded
      <3>1. db'[d] = db[d] \/ db'[d] = dumps(SecretOf[c], data)
        BY <2>1 DEF TypeOK
      <3> QED
        BY <2>2, <2>4, <3>1 DEF Scrubbed
    <2> QED
      BY <2>3, <2>4 DEF Scrubbed
  <1>12. ASSUME UNCHANGED <<db, pc, row>>
         PROVE  Scrubbed'
    BY <1>2, <1>12
  <1>13. ASSUME NEW c \in Clients, UserRevokes(c)
         PROVE  Scrubbed'
    BY <1>12, <1>13 DEF UserRevokes
  <1>14. ASSUME NEW s \in Stray, StrayGranted(s)
         PROVE  Scrubbed'
    BY <1>12, <1>14 DEF StrayGranted
  <1>15. CASE UNCHANGED vars
    BY <1>12, <1>15 DEF vars
  <1> QED
    BY <1>3, <1>5, <1>7, <1>9, <1>10, <1>11, <1>13, <1>14, <1>15 DEF Next, Progress

LEMMA RotationInvariance ==
  ASSUME ~LegacyRows
  PROVE  Spec => [](RotationInv /\ Scrubbed)
  <1>1. Init => RotationInv /\ Scrubbed
    BY RotationInit, ScrubbedInit
  <1>2. RotationInv /\ Scrubbed /\ [Next]_vars => (RotationInv /\ Scrubbed)'
    BY RotationStep, ScrubbedStep DEF RotationInv
  <1> QED
    BY <1>1, <1>2, PTL DEF Spec

\* However many workers refresh a grant at once, whatever is lost, delayed or
\* answered twice, a stored refresh token is never overwritten by an older one
\* (rows of old releases aside, whose scrub writes a copy back).
THEOREM TokensOnlyGetNewer ==
  ASSUME ~LegacyRows
  PROVE  Spec => NeverGoesBack
  <1> DEFINE Newer ==
        \A c \in Clients :
          db[c] \in EncryptedToken /\ db'[c] \in EncryptedToken =>
            db'[c].data.refresh >= db[c].data.refresh
  <1>1. ASSUME RotationInv, Scrubbed, [Next]_vars
        PROVE  Newer
    <2> SUFFICES ASSUME NEW c \in Clients,
                        db[c] \in EncryptedToken, db'[c] \in EncryptedToken
                 PROVE  db'[c].data.refresh >= db[c].data.refresh
      OBVIOUS
    <2>1. TypeOK /\ db[c].data.refresh \in Nat
      BY <1>1, RotationTypes DEF RotationInv
    <2>2. CASE db'[c] = db[c]
      BY <2>1, <2>2
    <2>3. CASE db'[c] # db[c]
      <3>1. ~Insert(c)
        BY TokenEndpointAssumption DEF Insert
      <3>2. PICK w \in Workers : client[w] = c /\ (RevokeGrant(w) \/ StoreAndRespond(w))
        BY <1>1, <2>1, <2>3, <3>1, Writers
      <3>3. StoreAndRespond(w)
        BY <2>1, <3>2, TokenEndpointAssumption DEF RevokeGrant, update, TypeOK
      <3>4. db'[c].data.refresh = Holding(w) /\ Fresh(w)
        <4>1. db'[c] = dumps(secret[w], modified(w))
          BY <2>1, <3>2, <3>3, StoredIsToken DEF TypeOK
        <4> QED
          BY <1>1, <3>3, <4>1, StoredIsFresh DEF dumps
      <3>5. Holding(w) = newest[c] /\ Bound(c, newest[c] - 1) /\ newest[c] \in Nat
        BY <1>1, <3>2, <3>4, RotationTypes DEF RotationInv, Secret
      <3>6. db[c].data.refresh <= newest[c] - 1
        BY <3>5 DEF Bound
      <3> QED
        BY <2>1, <3>4, <3>5, <3>6
    <2> QED
      BY <2>2, <2>3
  <1>2. RotationInv /\ Scrubbed /\ [Next]_vars => [Newer]_vars
    BY <1>1
  <1> QED
    BY <1>2, RotationInvariance, PTL DEF Spec, NeverGoesBack

\* A client that is given its token finds the refresh token that came with it,
\* or a newer one, in its row, also when other workers wrote the row since.
THEOREM IssuedTokensAreStored ==
  ASSUME ~LegacyRows
  PROVE  Spec => IssuedTokenIsKept
  <1> DEFINE Kept ==
        \A w \in Workers :
          /\ pc[w] = "settled" /\ resp'[w] = "token" /\ pc'[w] = "idle"
          /\ result[w].refresh # NoToken
          /\ db'[client[w]] # Revoked
          => db'[client[w]].data.refresh >= result[w].refresh
  <1>1. ASSUME RotationInv, Scrubbed, [Next]_vars
        PROVE  Kept
    <2> SUFFICES ASSUME NEW w \in Workers,
                        pc[w] = "settled", resp'[w] = "token", pc'[w] = "idle",
                        result[w].refresh # NoToken, db'[client[w]] # Revoked
                 PROVE  db'[client[w]].data.refresh >= result[w].refresh
      OBVIOUS
    <2>1. /\ TypeOK /\ client[w] \in Clients /\ Holding(w) = result[w].refresh
          /\ Holding(w) \in Nat
      BY <1>1, RotationTypes DEF RotationInv, TypeOK, Holding
    <2>2. StoreAndRespond(w) \/ Respond(w)
      <3>1. ASSUME NEW r, Return(w, r)
            PROVE  r = "token"
        BY <2>1, <3>1 DEF Return, TypeOK
      <3>2. ~Crash(w) /\ ~UpdateFails(w) /\ ~InvalidResponse(w)
        BY <3>1 DEF Crash, UpdateFails, InvalidResponse
      <3>3. ~RefreshError(w) /\ ~RevokeGrant(w)
        <4>1. "token" \notin OAuthErrors
          BY DEF OAuthErrors
        <4> QED
          BY <3>1, <4>1, ViewOutcome DEF RefreshError, RevokeGrant, Outcome
      <3> QED
        BY <1>1, <2>1, <3>2, <3>3, Endings
    <2>3. CASE StoreAndRespond(w)
      <3>1. db'[client[w]] = dumps(secret[w], modified(w))
        BY <2>1, <2>3, StoredIsToken DEF TypeOK
      <3>2. db'[client[w]].data.refresh = result[w].refresh
        BY <3>1 DEF dumps, modified
      <3> QED
        BY <2>1, <3>2
    <2>4. CASE Respond(w)
      <3>1. db' = db /\ row[w].refresh = result[w].refresh
        BY <2>4 DEF Respond, modified
      <3>2. db[client[w]] \in EncryptedToken
        BY <1>1, <2>1, <3>1 DEF RotationInv, InOrder, TypeOK
      <3>3. row[w].refresh <= db[client[w]].data.refresh
        BY <1>1, <3>2 DEF RotationInv, InOrder
      <3> QED
        BY <2>1, <3>1, <3>2, <3>3, RotationTypes
    <2> QED
      BY <2>2, <2>3, <2>4
  <1>2. RotationInv /\ Scrubbed /\ [Next]_vars => [Kept]_vars
    BY <1>1
  <1> QED
    BY <1>2, RotationInvariance, PTL DEF Spec, IssuedTokenIsKept
=============================================================================
