---------------------------- MODULE OAuthOutcome ----------------------------
(***************************************************************************)
(* How the bridge classifies what the upstream OAuth provider answers on   *)
(* its token endpoint (oauth/_outcome.py, errors.py, and the parts of      *)
(* oauth/_core.py that decode an answer or turn an error into a status).   *)
(* Pure operators, shared by the modules with state.                       *)
(*                                                                         *)
(* A response body is abstracted to the three things the code tests: its   *)
(* "error" member, whether it carries both "access_token" and "token_type",*)
(* and its "refresh_token".                                                *)
(***************************************************************************)
EXTENDS Integers

CONSTANTS
  RetryStatusCodes,        \* settings.fetch.retry_status_codes
  UnavailableStatusCodes,  \* settings.fetch.unavailable_status_codes
  ErrorTypes               \* settings.fetch.error_types: provider code -> OAuthError

OAuthErrors ==
  {"access_denied", "invalid_client", "invalid_grant", "invalid_request",
   "invalid_scope", "invalid_state", "invalid_response", "server_error",
   "temporarily_unavailable", "unauthorized_client",
   "unsupported_grant_type", "unsupported_response_type"}

AUTHORIZATION_ERRORS ==
  {"invalid_request", "unauthorized_client", "access_denied",
   "unsupported_response_type", "invalid_scope", "server_error",
   "temporarily_unavailable"}

TOKEN_ERRORS ==
  {"invalid_request", "invalid_client", "invalid_grant",
   "unauthorized_client", "unsupported_grant_type", "invalid_scope",
   "server_error", "temporarily_unavailable"}

NoError == "no_error"   \* the body has no "error" member
NoStatus == 0            \* no HTTP response at all: _fetch's status is None
NoToken == 0            \* the body has no "refresh_token"

\* 100..599 are the codes http.HTTPStatus may know; it rejects the others.
Statuses == 100..599

ASSUME OutcomeAssumption ==
  /\ RetryStatusCodes \subseteq Statuses
  /\ UnavailableStatusCodes \subseteq Statuses
  /\ \A code \in DOMAIN ErrorTypes : ErrorTypes[code] \in OAuthErrors
  /\ NoError \notin DOMAIN ErrorTypes

is_success(status) == status \in 200..299

validate_token(body) == body.token

\* The body OAuthError.json() builds: an error and nothing else.
ErrorBody(error) == [error |-> error, token |-> FALSE, refresh |-> NoToken]

\* _decode's answer for a body that is not JSON.
UndecodableBody(status) ==
  IF status \in UnavailableStatusCodes
    THEN ErrorBody("temporarily_unavailable")
    ELSE ErrorBody("server_error")

normalize_error(code, allowed, fallback) ==
  LET error == IF code \in DOMAIN ErrorTypes THEN ErrorTypes[code]
               ELSE IF code \in OAuthErrors THEN code
               ELSE fallback
  IN  IF error \in allowed THEN error ELSE fallback

\* Mutant: only a missing response counts as retryable.
retryable_missing_only(status) == status = NoStatus

retryable(status) == status = NoStatus \/ status \in RetryStatusCodes

\* The error a non-retryable answer stands for; NoError for a usable token
\* and for a failure that names no error.
terminal_error(status, body) ==
  IF is_success(status)
    THEN IF validate_token(body)
           THEN NoError
           ELSE normalize_error(
                  IF body.error = NoError THEN "invalid_request" ELSE body.error,
                  TOKEN_ERRORS, "invalid_request")
    ELSE IF body.error = NoError
           THEN NoError
           ELSE normalize_error(body.error, TOKEN_ERRORS, "server_error")

retry_reason_for_status(status) ==
  CASE status = 429               -> "resource_exhausted"
    [] status \in {502, 503, 504} -> "unavailable"
    [] OTHER                      -> "unknown"

token_endpoint_outcome(status, body) ==
  IF retryable(status)
    THEN [retryable                |-> TRUE,
          normalized_error         |-> "temporarily_unavailable",
          invalidate_refresh_token |-> FALSE,
          retry_reason             |-> IF status = NoStatus
                                         THEN "unavailable"
                                         ELSE retry_reason_for_status(status)]
    ELSE [retryable                |-> FALSE,
          normalized_error         |-> terminal_error(status, body),
          invalidate_refresh_token |->
            /\ ~is_success(status)
            /\ status = 400
            /\ terminal_error(status, body) = "invalid_grant",
          retry_reason             |-> "none"]

\* Mutant: the body of a retryable answer is passed on.
fetch_result_raw(status, body) == body

\* What fetch() hands to its caller when the answer (status, body) is its last:
\* a retryable answer is replaced by its normalized error, any other is kept.
fetch_result(status, body) ==
  LET outcome == token_endpoint_outcome(status, body)
  IN  IF outcome.retryable THEN ErrorBody(outcome.normalized_error) ELSE body

\* The outcome the /token view derives from fetch()'s result, for which it no
\* longer has the provider's status: any error is judged as if it were a 400.
view_outcome(body) ==
  token_endpoint_outcome(IF body.error = NoError THEN 200 ELSE 400, body)

\* HTTP status of an error response (error_handler); an exception nobody
\* handles is an internal_error (fallback_error_handler).
error_status(error) ==
  CASE error = "invalid_client"          -> 401
    [] error = "temporarily_unavailable" -> 503
    [] error = "internal_error"          -> 500
    [] OTHER                             -> 400
=============================================================================
