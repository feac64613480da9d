--------------------------- MODULE MCRequestHooks ---------------------------
(* A small instance of RequestHooks, with Startup, for TLC.                *)
EXTENDS RequestHooks, TLC

CONSTANTS t1, t2, k1, k2

Plain ==
  [unset |-> {}, malformed |-> {}, sentry_enabled |-> FALSE, dsn |-> FALSE,
   sdk |-> TRUE, components |-> {"tracing"}, exporters |-> {}, endpoint |-> TRUE,
   template |-> "none", metrics |-> "open", multiproc |-> TRUE]

\* Three environments that are valid and one for each way not to be.
MCEnvironments ==
  {Plain,
   [Plain EXCEPT !.sentry_enabled = TRUE, !.dsn = TRUE, !.sdk = FALSE,
                 !.metrics = "token", !.exporters = {"otlp_http", "console"},
                 !.components = {"tracing", "metrics"}, !.multiproc = FALSE],
   [Plain EXCEPT !.metrics = "disabled", !.template = "readable",
                 !.components = {}, !.exporters = {"console"}],
   [Plain EXCEPT !.unset = {"client_secret"}],
   [Plain EXCEPT !.malformed = {"FetchSettings"}],
   [Plain EXCEPT !.sentry_enabled = TRUE],
   [Plain EXCEPT !.exporters = {"otlp_http"}, !.endpoint = FALSE],
   [Plain EXCEPT !.template = "unreadable"]}

MCErrorTypes == "errorTransient" :> "temporarily_unavailable"

NoCredentials == [id |-> "absent", secret |-> "absent"]

Token ==
  [route |-> "token", grant |-> TRUE, scope |-> FALSE, auth |-> "none",
   form |-> [id |-> k1, secret |-> "good"], basic |-> NoCredentials, body |-> TRUE]

MCRequests ==
  {Token,
   [Token EXCEPT !.auth = "basic", !.basic = [id |-> k2, secret |-> "good"],
                 !.form = NoCredentials],
   [Token EXCEPT !.auth = "basic", !.basic = [id |-> k2, secret |-> "good"]],
   [Token EXCEPT !.form.id = "malformed", !.auth = "broken"],
   [Token EXCEPT !.grant = FALSE],
   [Token EXCEPT !.body = FALSE],
   [route |-> "callback", body |-> TRUE],
   [route |-> "authorize", body |-> FALSE],
   [route |-> "metrics", bearer |-> FALSE, body |-> TRUE],
   [route |-> "metrics", bearer |-> TRUE, body |-> TRUE]}
=============================================================================
