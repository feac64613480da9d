---------------------------- MODULE RequestHooks ----------------------------
(***************************************************************************)
(* The requests that the threads of a serving process handle, from the     *)
(* functions before the view to the ones after it: what they bind to the   *)
(* thread's logging context, which requests to /token are refused before   *)
(* the table is looked at, how /metrics finds its registry, and what the   *)
(* metrics and the access log say of the response.  Composed with Startup: *)
(* create_app() registers the functions, and the process may go at any     *)
(* time.                                                                   *)
(*                                                                         *)
(* Flask (external) runs the functions after the view in the reverse order *)
(* of their registration, on the response of the view or of an error       *)
(* handler, and once more on the 500 page if one of them raises.           *)
(***************************************************************************)
EXTENDS Startup, OAuthOutcome

CONSTANTS
  Threads,
  Clients,     \* canonical client_ids
  NoClient, NoRegistry,
  Requests     \* the requests the threads may get

ASSUME RequestAssumption ==
  /\ NoClient \notin Clients /\ NoRegistry \notin Threads
  /\ \A r \in Requests : r.route = "token" =>
       {r.form.id, r.basic.id} \subseteq Clients \cup {"absent", "malformed"}

VARIABLES
  pc,         \* where each thread is with its request
  req,        \* the request
  context,    \* its structlog context, which outlives the request
  own,        \* history: the client the request itself identified
  resp,       \* the response so far
  hook,       \* the after_request function that is next
  counted,    \* statuses finalize_metrics() counted for the request
  log,        \* its line in the access log
  published,  \* the registry in _multiprocess_registries
  filled,     \* registries, named after the thread that made them, that have
              \* their collector
  using       \* the registry of a scrape

request == <<req, own, resp, hook, counted, log>>
scrapes == <<published, filled, using>>
rvars == <<pc, request, context, scrapes>>
vars == <<svars, rvars>>

NoContext == [client |-> NoClient, malformed |-> FALSE, error |-> NoError]
NoRequest == [route |-> "none"]
NoResponse == [status |-> 0, cache |-> "none"]
NoLog == [context |-> NoContext, response |-> NoResponse]

Init ==
  /\ SInit
  /\ pc = [t \in Threads |-> "idle"]
  /\ req = [t \in Threads |-> NoRequest]
  /\ context = [t \in Threads |-> NoContext]
  /\ own = [t \in Threads |-> NoContext]
  /\ resp = [t \in Threads |-> NoResponse]
  /\ hook = [t \in Threads |-> 0]
  /\ counted = [t \in Threads |-> <<>>]
  /\ log = [t \in Threads |-> NoLog]
  /\ published = NoRegistry
  /\ filled = {}
  /\ using = [t \in Threads |-> NoRegistry]

Goto(t, label) == pc' = [pc EXCEPT ![t] = label]

-----------------------------------------------------------------------------
(* Before the view.                                                        *)

Receive(t) ==
  /\ Serving
  /\ pc[t] = "idle"
  /\ \E r \in Requests : req' = [req EXCEPT ![t] = r]
  /\ Goto(t, "view")
  /\ UNCHANGED <<svars, own, resp, hook, counted, log, scrapes>>

\* Mutant: the context of the last request is kept.
BeforeKeepsContext(t) == Receive(t) /\ UNCHANGED context

\* The functions before the view touch nothing that threads share.
BeforeRequest(t) == Receive(t) /\ context' = [context EXCEPT ![t] = NoContext]

-----------------------------------------------------------------------------
(* /token: the checks before the lookup.  An id is absent, malformed or a  *)
(* client's; a secret is absent, malformed, the same string as the id, or  *)
(* good.                                                                   *)

Absent(c) == c.id = "absent" /\ c.secret = "absent"

\* An Authorization header that cannot be decoded counts as none.
credentials(r) == IF r.auth = "basic" THEN r.basic ELSE r.form

validate_credentials(c) ==
  CASE c.id = "absent" \/ c.secret = "same"             -> "refused"
    [] c.id = "malformed"                              -> "malformed_id"
    [] c.secret \in {"absent", "malformed"}             -> "refused"
    [] OTHER                                           -> "valid"

\* How the request itself is wrong.
request_error(r) ==
  CASE ~r.grant                            -> "unsupported_grant_type"
    [] r.scope                             -> "invalid_scope"
    [] r.auth = "other"                    -> "invalid_client"
    [] r.auth = "basic" /\ ~Absent(r.form) -> "invalid_request"
    [] OTHER                               -> NoError

-----------------------------------------------------------------------------
(* The views.  What follows the checks of token() and callback() is        *)
(* TokenEndpoint's and AuthorizeFlow's; here it may end in any way.        *)

\* The view, or the error handler, has returned.
Respond(t, status) ==
  /\ resp' = [resp EXCEPT ![t] = [status |-> status, cache |-> "none"]]
  /\ hook' = [hook EXCEPT ![t] = Len(hooks)]
  /\ Goto(t, "after")

\* set_client_id(), record_invalid_client_id() and error_handler() add to the
\* context what they know.
Bind(t, known) ==
  /\ context' = [context EXCEPT ![t] =
       [client |-> IF known.client = NoClient THEN @.client ELSE known.client,
        malformed |-> @.malformed \/ known.malformed,
        error |-> IF known.error = NoError THEN @.error ELSE known.error]]
  /\ own' = [own EXCEPT ![t] = known]

\* error_handler(), or fallback_error_handler() for anything but an Error.
Fail(t, known, error) ==
  /\ Bind(t, IF error = "internal_error" THEN known ELSE [known EXCEPT !.error = error])
  /\ Respond(t, error_status(error))

\* One error for each status that may follow the checks.
LaterErrors ==
  {"invalid_client", "invalid_grant", "temporarily_unavailable", "internal_error"}

token(t) ==
  /\ pc[t] = "view" /\ req[t].route = "token" /\ req[t].body
  /\ LET r == req[t]
         verdict == validate_credentials(credentials(r))
         known == [NoContext EXCEPT !.client = credentials(r).id]
     IN  \/ /\ request_error(r) # NoError
            /\ Fail(t, NoContext, request_error(r))
         \/ /\ request_error(r) = NoError /\ verdict # "valid"
            /\ Fail(t, [NoContext EXCEPT !.malformed = (verdict = "malformed_id")],
                    "invalid_client")
         \/ /\ request_error(r) = NoError /\ verdict = "valid"
            /\ \/ Bind(t, known) /\ Respond(t, 200)
               \/ \E e \in LaterErrors : Fail(t, known, e)
  /\ UNCHANGED <<svars, req, counted, log, scrapes>>

\* The client went away before its form was read: 400.
FormLost(t) ==
  /\ pc[t] = "view" /\ req[t].route = "token" /\ ~req[t].body
  /\ Respond(t, 400)
  /\ UNCHANGED <<svars, req, context, own, counted, log, scrapes>>

\* The new client is bound before the row is inserted; the error pages of
\* views.py do not bind their error.
callback(t) ==
  /\ pc[t] = "view" /\ req[t].route = "callback"
  /\ \/ \E c \in Clients, status \in {200, 400, 500} :
          Bind(t, [NoContext EXCEPT !.client = c]) /\ Respond(t, status)
     \/ Bind(t, NoContext) /\ \E status \in {400, 401, 503, 500} : Respond(t, status)
  /\ UNCHANGED <<svars, req, counted, log, scrapes>>

\* The redirect of authorize(), its error page, or no view at all.
OtherView(t) ==
  /\ pc[t] = "view" /\ req[t].route \in {"authorize", "notfound"}
  /\ \E status \in (IF req[t].route = "authorize" THEN {302, 400} ELSE {404}) :
       Respond(t, status)
  /\ UNCHANGED <<svars, req, context, own, counted, log, scrapes>>

-----------------------------------------------------------------------------
(* /metrics and the registry its threads share.                            *)

\* Disabled, or without the bearer token that is asked for.
RefuseScrape(t) ==
  /\ pc[t] = "view" /\ req[t].route = "metrics"
  /\ \/ settings.metrics = "disabled" /\ Respond(t, 404)
     \/ settings.metrics = "token" /\ ~req[t].bearer /\ Respond(t, 401)
  /\ UNCHANGED <<svars, req, context, own, counted, log, scrapes>>

MayScrape(t) ==
  /\ pc[t] = "view" /\ req[t].route = "metrics"
  /\ settings.metrics = "open" \/ (settings.metrics = "token" /\ req[t].bearer)

\* The registry of the process, or the one that an earlier scrape published.
FindRegistry(t) ==
  /\ MayScrape(t)
  /\ ~settings.multiproc \/ published # NoRegistry
  /\ using' = [using EXCEPT ![t] = IF settings.multiproc THEN published ELSE @]
  /\ Goto(t, "generate")
  /\ UNCHANGED <<svars, request, context, published, filled>>

\* Mutant: the registry is published before its collector registers.
PublishEarly(t) ==
  /\ MayScrape(t)
  /\ settings.multiproc /\ published = NoRegistry
  /\ published' = t
  /\ filled' = filled \ {t}
  /\ Goto(t, "collect")
  /\ UNCHANGED <<svars, request, context, using>>

MakeRegistry(t) ==
  /\ MayScrape(t)
  /\ settings.multiproc /\ published = NoRegistry
  /\ filled' = filled \ {t}
  /\ Goto(t, "collect")
  /\ UNCHANGED <<svars, request, context, published, using>>

FillRegistry(t) ==
  /\ pc[t] = "collect"
  /\ filled' = filled \cup {t}
  /\ Goto(t, "publish")
  /\ UNCHANGED <<svars, request, context, published, using>>

\* Two first scrapes both publish; each goes on with its own.
PublishRegistry(t) ==
  /\ pc[t] = "publish"
  /\ published' = t
  /\ using' = [using EXCEPT ![t] = t]
  /\ Goto(t, "generate")
  /\ UNCHANGED <<svars, request, context, filled>>

Generate(t) ==
  /\ pc[t] = "generate"
  /\ using' = [using EXCEPT ![t] = NoRegistry]
  /\ Respond(t, 200)
  /\ UNCHANGED <<svars, req, context, own, counted, log, published, filled>>

View(t) ==
  \/ token(t) \/ FormLost(t) \/ callback(t) \/ OtherView(t)
  \/ RefuseScrape(t) \/ FindRegistry(t) \/ MakeRegistry(t) \/ FillRegistry(t)
  \/ PublishRegistry(t) \/ Generate(t)

-----------------------------------------------------------------------------
(* After the view.                                                         *)

NextHook(t, name) ==
  /\ pc[t] = "after" /\ hook[t] > 0
  /\ hooks[hook[t]] = name

Done(t) == hook' = [hook EXCEPT ![t] = @ - 1] /\ UNCHANGED pc

finalize_metrics(t) ==
  /\ NextHook(t, "finalize_metrics")
  /\ counted' = [counted EXCEPT ![t] = Append(@, resp[t].status)]
  /\ Done(t)
  /\ UNCHANGED <<svars, req, context, own, resp, log, scrapes>>

nocache(t) ==
  /\ NextHook(t, "nocache")
  /\ resp' = [resp EXCEPT ![t].cache = IF @ = "none" THEN "no-store" ELSE @]
  /\ Done(t)
  /\ UNCHANGED <<svars, req, context, own, counted, log, scrapes>>

access_log(t) ==
  /\ NextHook(t, "access_log")
  /\ req[t].body
  /\ log' = [log EXCEPT ![t] = [context |-> context[t], response |-> resp[t]]]
  /\ Done(t)
  /\ UNCHANGED <<svars, req, context, own, resp, counted, scrapes>>

\* Mutant: the 500 page is finalized until it succeeds.
LogFailsAgain(t) ==
  /\ NextHook(t, "access_log")
  /\ ~req[t].body
  /\ Len(counted[t]) < 4
  /\ Respond(t, error_status("internal_error"))
  /\ UNCHANGED <<svars, req, context, own, counted, log, scrapes>>

\* get_data() raises if the client went away before its body was complete.
\* fallback_error_handler() answers, and what is raised on the second pass is
\* only logged.
LogFails(t) ==
  /\ NextHook(t, "access_log")
  /\ ~req[t].body
  /\ \/ Len(counted[t]) = 1 /\ Respond(t, error_status("internal_error"))
     \/ Len(counted[t]) # 1 /\ Done(t) /\ UNCHANGED resp
  /\ UNCHANGED <<svars, req, context, own, counted, log, scrapes>>

AfterRequest(t) == finalize_metrics(t) \/ nocache(t) \/ access_log(t) \/ LogFails(t)

\* The response is sent and the request forgotten, except for its context.
Send(t) ==
  /\ pc[t] = "after" /\ hook[t] = 0
  /\ Goto(t, "idle")
  /\ req' = [req EXCEPT ![t] = NoRequest]
  /\ own' = [own EXCEPT ![t] = NoContext]
  /\ resp' = [resp EXCEPT ![t] = NoResponse]
  /\ counted' = [counted EXCEPT ![t] = <<>>]
  /\ log' = [log EXCEPT ![t] = NoLog]
  /\ UNCHANGED <<svars, hook, context, scrapes>>

-----------------------------------------------------------------------------
Handle(t) == View(t) \/ AfterRequest(t) \/ Send(t)

\* The process starts and changes around it; when it goes, so do its threads.
Life ==
  /\ Load \/ StartAgain \/ Edit \/ initdb
  /\ UNCHANGED rvars

Gone ==
  /\ Exit
  /\ pc' = [t \in Threads |-> "idle"]
  /\ req' = [t \in Threads |-> NoRequest]
  /\ context' = [t \in Threads |-> NoContext]
  /\ own' = [t \in Threads |-> NoContext]
  /\ resp' = [t \in Threads |-> NoResponse]
  /\ hook' = [t \in Threads |-> 0]
  /\ counted' = [t \in Threads |-> <<>>]
  /\ log' = [t \in Threads |-> NoLog]
  /\ published' = NoRegistry
  /\ filled' = {}
  /\ using' = [t \in Threads |-> NoRegistry]

Next ==
  \/ Life \/ Gone
  \/ \E t \in Threads : BeforeRequest(t) \/ Handle(t)

Spec == Init /\ [][Next]_vars

Fairness ==
  /\ WF_vars((Load \/ StartAgain) /\ UNCHANGED rvars)
  /\ \A t \in Threads : WF_vars(Handle(t))

FairSpec == Spec /\ Fairness

-----------------------------------------------------------------------------
TypeOK ==
  /\ phase \in {"down", "failed", "init_logging", "init_sentry", "instrument",
                "init_tracing", "init_metrics", "create_app",
                "start_runtime_services", "register", "serving"}
  /\ settings \in Environments \cup {NoSettings}
  /\ pc \in [Threads -> {"idle", "view", "collect", "publish",
                         "generate", "after"}]
  /\ req \in [Threads -> Requests \cup {NoRequest}]
  /\ context \in [Threads -> [client : Clients \cup {NoClient}, malformed : BOOLEAN,
                              error : OAuthErrors \cup {NoError}]]
  /\ \A t \in Threads :
       /\ hook[t] \in 0..Len(hooks)
       /\ Len(counted[t]) <= 2
  /\ published \in Threads \cup {NoRegistry}
  /\ filled \subseteq Threads
  /\ using \in [Threads -> Threads \cup {NoRegistry}]

\* A line of the access log names the client and the error of its own request:
\* the context of a thread outlives its requests, and neither a request that
\* is refused before its client is known nor one with a malformed id inherits
\* the client of the one before (logs.py:185-187, telemetry/_otel.py:63-74).
LogNamesOwnClient ==
  \A t \in Threads : log[t] # NoLog => log[t].context = own[t]

\* What is recorded is what is sent: when a response leaves, whichever view or
\* error handler made it, it is marked no-store, the metrics have counted the
\* request once and with its status, and the access log shows the status and
\* the header that the client gets.  Only a client that left before its body
\* was complete is counted a second time, with the 500 that replaces its
\* response (__init__.py:27-36, oauth/_core.py:141-146, logs.py:189-203).
RecordedAsSent ==
  \A t \in Threads : pc[t] = "after" /\ hook[t] = 0 =>
    /\ resp[t].cache = "no-store"
    /\ counted[t][Len(counted[t])] = resp[t].status
    /\ req[t].body => Len(counted[t]) = 1 /\ log[t].response = resp[t]

\* No scrape reads a registry that has no collector yet, although the threads
\* that find none build and publish theirs without a lock: it would report
\* nothing (telemetry/_prometheus.py:192-202).
ScrapeIsComplete ==
  \A t \in Threads : pc[t] = "generate" /\ settings.multiproc => using[t] \in filled
=============================================================================
