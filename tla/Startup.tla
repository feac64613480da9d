------------------------------- MODULE Startup -------------------------------
(***************************************************************************)
(* The life of one WSGI process: wsgi.py loads the settings, sets up       *)
(* logging and telemetry, creates the application and starts its runtime   *)
(* services.  A process that cannot be loaded, or that dies, is started    *)
(* again (flake.nix:276-291: uWSGI with a master and lazy applications).   *)
(* The operator edits the environment and runs `initdb` at any time.       *)
(***************************************************************************)
EXTENDS Naturals, Sequences

CONSTANTS
  Environments,  \* the environments the process may find
  NoSettings,    \* the process has not loaded its settings
  MaxEdits,      \* bound: edits of the environment
  MaxExits       \* bound: times the process stops or dies

ASSUME StartupAssumption ==
  /\ NoSettings \notin Environments
  /\ \A e \in Environments : e.components \subseteq {"tracing", "metrics"}
  /\ MaxEdits \in Nat /\ MaxExits \in Nat

VARIABLES
  env, edits, exits,
  initialized,  \* whether the tokens table exists
  phase,        \* what wsgi.py does next
  settings,     \* the Settings it loaded
  installed,    \* logging, Sentry, instruments and providers that are set up
  exports,      \* <<component, exporter>>: where telemetry goes
  hooks,        \* after_request functions in the order of their registration
  refreshers,   \* app.extensions["oauth_metrics_refreshers"]
  worker,       \* whether the refresh worker is registered and running
  atexit        \* whether stop_runtime_services() runs at exit

world == <<env, edits, exits, initialized>>
process == <<phase, settings, installed, exports, hooks, refreshers, worker, atexit>>
svars == <<world, process>>

SInit ==
  /\ env \in Environments
  /\ edits = 0 /\ exits = 0
  /\ initialized = FALSE
  /\ phase = "down" /\ settings = NoSettings
  /\ installed = {} /\ exports = {} /\ hooks = <<>> /\ refreshers = {}
  /\ worker = FALSE /\ atexit = FALSE

-----------------------------------------------------------------------------
(* settings.py: whether each class accepts the environment.  An             *)
(* environment says which required variables are unset, which classes find *)
(* a value they cannot parse, and the options other code depends on.       *)

Parses(e, class) == class \notin e.malformed

OAuthSettings(e) == Parses(e, "OAuthSettings") /\ e.unset = {}
FetchSettings(e) == Parses(e, "FetchSettings")
DatabaseSettings(e) == Parses(e, "DatabaseSettings")
SentrySettings(e) == Parses(e, "SentrySettings") /\ (e.sentry_enabled => e.dsn)
LogSettings(e) == Parses(e, "LogSettings")
PrometheusSettings(e) == Parses(e, "PrometheusSettings")

TelemetrySettings(e) ==
  /\ Parses(e, "TelemetrySettings")
  /\ "otlp_http" \in e.exporters => e.endpoint

Settings(e) ==
  /\ Parses(e, "Settings")
  /\ OAuthSettings(e) /\ FetchSettings(e) /\ DatabaseSettings(e)
  /\ SentrySettings(e) /\ LogSettings(e) /\ TelemetrySettings(e)
  /\ PrometheusSettings(e)
  /\ e.template # "unreadable"

-----------------------------------------------------------------------------
(* wsgi.py, line by line.  Without its SDK, Sentry is an error in the log   *)
(* and nothing else.                                                       *)

At(now, next) == phase = now /\ phase' = next

\* The process is gone, and with it everything it had set up.
Lost ==
  /\ phase' = "failed" /\ settings' = NoSettings
  /\ installed' = {} /\ exports' = {} /\ hooks' = <<>> /\ refreshers' = {}
  /\ worker' = FALSE /\ atexit' = FALSE

\* An exception reaches the top of wsgi.py.
Raise == Lost /\ UNCHANGED world

LoadSettings ==
  /\ phase = "down"
  /\ Settings(env)
  /\ phase' = "init_logging"
  /\ settings' = env
  /\ UNCHANGED <<world, installed, exports, hooks, refreshers, worker, atexit>>

RejectSettings ==
  /\ phase = "down"
  /\ ~Settings(env)
  /\ Raise

\* What is set up leaves everything else as it is.
Install(things) ==
  /\ installed' = installed \cup things
  /\ UNCHANGED <<world, settings, hooks, refreshers, worker, atexit>>

init_logging ==
  /\ At("init_logging", "init_sentry")
  /\ Install({"logging"})
  /\ UNCHANGED exports

\* Mutant: a missing SDK is fatal.
init_sentry_strict ==
  /\ phase = "init_sentry"
  /\ IF settings.sentry_enabled /\ ~settings.sdk
       THEN Raise
       ELSE /\ phase' = "instrument"
            /\ Install(IF settings.sentry_enabled THEN {"sentry"} ELSE {})
            /\ UNCHANGED exports

init_sentry ==
  /\ At("init_sentry", "instrument")
  /\ Install(IF settings.sentry_enabled /\ settings.sdk THEN {"sentry"} ELSE {})
  /\ UNCHANGED exports

instrument ==
  /\ At("instrument", "init_tracing")
  /\ Install({"system_metrics", "log_records", "sqlite3", "requests"})
  /\ UNCHANGED exports

\* A provider exports to every exporter, if its component is enabled.
Provide(component, things) ==
  IF component \in settings.components
    THEN /\ Install({component} \cup things)
         /\ exports' = exports \cup ({component} \X settings.exporters)
    ELSE Install({}) /\ UNCHANGED exports

\* Spans also go to Sentry's SDK, if there is one.
init_tracing ==
  /\ At("init_tracing", "init_metrics")
  /\ Provide("tracing", IF settings.sdk THEN {"sentry_spans"} ELSE {})

init_metrics == At("init_metrics", "create_app") /\ Provide("metrics", {})

\* Mutant: the access log is registered last, and so runs first.
create_app_log_last ==
  /\ At("create_app", "start_runtime_services")
  /\ hooks' = <<"nocache", "finalize_metrics", "access_log">>
  /\ refreshers' = {"token_state_counts"}
  /\ UNCHANGED <<world, settings, installed, exports, worker, atexit>>

create_app ==
  /\ At("create_app", "start_runtime_services")
  /\ hooks' = <<"access_log", "nocache", "finalize_metrics">>
  /\ refreshers' = {"token_state_counts"}
  /\ UNCHANGED <<world, settings, installed, exports, worker, atexit>>

\* Mutant: the database is not looked at.
StartServicesUnchecked ==
  /\ At("start_runtime_services", "register")
  /\ worker' = (refreshers # {})
  /\ UNCHANGED <<world, settings, installed, exports, hooks, refreshers, atexit>>

StartServices ==
  /\ initialized
  /\ At("start_runtime_services", "register")
  /\ worker' = (refreshers # {})
  /\ UNCHANGED <<world, settings, installed, exports, hooks, refreshers, atexit>>

\* is_initialized() finds no table: RuntimeError.
RefuseToStart ==
  /\ phase = "start_runtime_services"
  /\ ~initialized
  /\ Raise

Register ==
  /\ At("register", "serving")
  /\ atexit' = TRUE
  /\ UNCHANGED <<world, settings, installed, exports, hooks, refreshers, worker>>

Load ==
  \/ LoadSettings \/ RejectSettings \/ init_logging \/ init_sentry \/ instrument
  \/ init_tracing \/ init_metrics \/ create_app \/ StartServices
  \/ RefuseToStart \/ Register

-----------------------------------------------------------------------------
(* Around the process.                                                     *)

StartAgain ==
  /\ phase = "failed"
  /\ phase' = "down"
  /\ UNCHANGED <<world, settings, installed, exports, hooks, refreshers, worker,
                 atexit>>

\* The process is stopped, and runs its exit hooks, or it dies, for instance
\* because the database cannot be opened.
Exit ==
  /\ phase \notin {"down", "failed"}
  /\ exits < MaxExits
  /\ exits' = exits + 1
  /\ Lost
  /\ UNCHANGED <<env, edits, initialized>>

\* Only the next process will read it.
Edit ==
  /\ phase \in {"down", "failed"}
  /\ edits < MaxEdits
  /\ edits' = edits + 1
  /\ env' \in Environments
  /\ UNCHANGED <<exits, initialized, process>>

\* `flask initdb` loads the settings too; on a database that has its table it
\* changes nothing.
initdb ==
  /\ Settings(env)
  /\ initialized' = TRUE
  /\ UNCHANGED <<env, edits, exits, process>>

-----------------------------------------------------------------------------
Serving == phase = "serving"

\* A process that serves requests is complete: its database has its table, its
\* refresh worker runs and will be stopped, its logs are set up, and it
\* exports its telemetry to where its settings say and nowhere else, OTLP only
\* with an endpoint (wsgi.py:16-30, __init__.py:64-76, settings.py:230-236).
ServingIsReady ==
  /\ Serving =>
       /\ initialized /\ worker /\ atexit
       /\ "logging" \in installed
       /\ exports = settings.components \X settings.exporters
       /\ \A x \in exports : x[2] = "otlp_http" => settings.endpoint
  /\ worker => initialized

\* Once the environment is valid and the database initialized, the process
\* serves, whatever it found on its earlier starts; telemetry that cannot be
\* set up as asked does not keep it from doing so (_sentry.py:56-61).
EventuallyServes ==
  <>[](Settings(env) /\ initialized) => []<>Serving
=============================================================================
