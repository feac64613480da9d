------------------------- MODULE RequestHooksProofs -------------------------
(***************************************************************************)
(* Proofs about RequestHooks and Startup, for any number of threads, any   *)
(* environments and any requests.                                          *)
(***************************************************************************)
EXTENDS RequestHooks, TLAPS

-----------------------------------------------------------------------------
(* The process.                                                            *)

Phases == {"down", "failed", "init_logging", "init_sentry", "instrument",
           "init_tracing", "init_metrics", "create_app",
           "start_runtime_services", "register", "serving"}

AppHooks == <<"access_log", "nocache", "finalize_metrics">>

\* What wsgi.py has loaded, and where its telemetry goes, at each of its lines.
Loaded ==
  /\ env \in Environments
  /\ phase \in Phases
  /\ phase \in {"down", "failed"} => settings = NoSettings
  /\ phase \notin {"down", "failed"} => settings \in Environments /\ Settings(settings)
  /\ phase \notin {"down", "failed", "init_logging"} => "logging" \in installed
  /\ phase \in {"down", "failed", "init_logging", "init_sentry", "instrument", "init_tracing"} =>
       exports = {}
  /\ phase = "init_metrics" =>
       exports = (settings.components \cap {"tracing"}) \X settings.exporters
  /\ phase \in {"create_app", "start_runtime_services", "register", "serving"} =>
       exports = settings.components \X settings.exporters

\* What the application consists of, and which services run.
Assembled ==
  /\ Len(hooks) \in Nat
  /\ phase \in {"start_runtime_services", "register", "serving"} =>
       hooks = AppHooks /\ refreshers # {}
  /\ phase \in {"register", "serving"} => worker /\ initialized
  /\ phase \notin {"register", "serving"} => ~worker
  /\ phase = "serving" => atexit

LEMMA StartupInit == SInit => Loaded /\ Assembled
  BY DEF SInit, Loaded, Assembled, Phases

Change == Load \/ StartAgain \/ Edit \/ initdb \/ Exit

LEMMA LoadedStep ==
  ASSUME Loaded, Change
  PROVE  Loaded'
  <1> USE DEF Loaded, Phases
  <1>1. CASE LoadSettings
    BY <1>1 DEF LoadSettings, world
  <1>2. ASSUME Lost, env' = env
        PROVE  Loaded'
    BY <1>2 DEF Lost
  <1>3. CASE RejectSettings \/ RefuseToStart \/ Exit
    BY <1>2, <1>3 DEF RejectSettings, RefuseToStart, Raise, Exit, world
  <1>4. CASE init_logging \/ init_sentry \/ instrument
    BY <1>4 DEF init_logging, init_sentry, instrument, At, Install, world
  <1>5. CASE init_tracing
    <2>1. /\ phase = "init_tracing" /\ phase' = "init_metrics" /\ exports = {}
          /\ UNCHANGED <<settings, env>> /\ installed \subseteq installed'
      BY <1>5 DEF init_tracing, At, Provide, Install, world
    <2>2. exports' = (settings.components \cap {"tracing"}) \X settings.exporters
      <3>1. CASE "tracing" \in settings.components
        <4>1. exports' = {"tracing"} \X settings.exporters
          BY <1>5, <2>1, <3>1 DEF init_tracing, Provide
        <4>2. settings.components \cap {"tracing"} = {"tracing"}
          BY <3>1
        <4> QED
          BY <4>1, <4>2
      <3>2. CASE "tracing" \notin settings.components
        <4>1. exports' = {}
          BY <1>5, <2>1, <3>2 DEF init_tracing, Provide
        <4>2. settings.components \cap {"tracing"} = {}
          BY <3>2
        <4> QED
          BY <4>1, <4>2
      <3> QED
        BY <3>1, <3>2
    <2> QED
      BY <2>1, <2>2
  <1>6. CASE init_metrics
    <2>1. /\ phase = "init_metrics" /\ phase' = "create_app"
          /\ exports = (settings.components \cap {"tracing"}) \X settings.exporters
          /\ UNCHANGED <<settings, env>> /\ installed \subseteq installed'
      BY <1>6 DEF init_metrics, At, Provide, Install, world
    <2>2. settings.components \subseteq {"tracing", "metrics"}
      BY <2>1, StartupAssumption
    <2>3. exports' = settings.components \X settings.exporters
      <3>1. CASE "metrics" \in settings.components
        <4>1. exports' = exports \cup ({"metrics"} \X settings.exporters)
          BY <1>6, <3>1 DEF init_metrics, Provide
        <4>2. settings.components = (settings.components \cap {"tracing"}) \cup {"metrics"}
          BY <2>2, <3>1
        <4> QED
          BY <2>1, <4>1, <4>2
      <3>2. CASE "metrics" \notin settings.components
        <4>1. exports' = exports
          BY <1>6, <3>2 DEF init_metrics, Provide
        <4>2. settings.components = settings.components \cap {"tracing"}
          BY <2>2, <3>2
        <4> QED
          BY <2>1, <4>1, <4>2
      <3> QED
        BY <3>1, <3>2
    <2> QED
      BY <2>1, <2>3
  <1>7. CASE create_app \/ StartServices \/ Register
    BY <1>7 DEF create_app, StartServices, Register, At, world
  <1>8. CASE StartAgain
    BY <1>8 DEF StartAgain, world
  <1>9. CASE Edit \/ initdb
    BY <1>9 DEF Edit, initdb, process
  <1> QED
    BY <1>1, <1>3, <1>4, <1>5, <1>6, <1>7, <1>8, <1>9 DEF Change, Load

LEMMA AssembledStep ==
  ASSUME Loaded, Assembled, Change
  PROVE  Assembled'
  <1> USE DEF Loaded, Assembled, Phases
  <1>1. CASE LoadSettings \/ StartAgain
    BY <1>1 DEF LoadSettings, StartAgain
  <1>2. CASE RejectSettings \/ RefuseToStart \/ Exit
    BY <1>2 DEF RejectSettings, RefuseToStart, Raise, Exit, Lost
  <1>3. CASE init_logging \/ init_sentry \/ instrument
    BY <1>3 DEF init_logging, init_sentry, instrument, At, Install
  <1>4. CASE init_tracing \/ init_metrics
    BY <1>4 DEF init_tracing, init_metrics, At, Provide, Install
  <1>5. CASE create_app
    BY <1>5 DEF create_app, At, AppHooks
  <1>6. CASE StartServices
    BY <1>6 DEF StartServices, At, world
  <1>7. CASE Register
    BY <1>7 DEF Register, At, world
  <1>8. CASE Edit
    BY <1>8 DEF Edit, process
  <1>9. CASE initdb
    BY <1>9 DEF initdb, process
  <1> QED
    BY <1>1, <1>2, <1>3, <1>4, <1>5, <1>6, <1>7, <1>8, <1>9 DEF Change, Load

\* Every step is one of the process or one of a thread, which leaves the
\* process alone.
LEMMA Steps ==
  ASSUME [Next]_vars
  PROVE  \/ Change
         \/ UNCHANGED svars
  BY DEF Next, vars, Life, Gone, Change, BeforeRequest, Receive, Handle, View, token, FormLost,
         callback, OtherView, RefuseScrape, FindRegistry, MakeRegistry, FillRegistry,
         PublishRegistry, Generate, AfterRequest, finalize_metrics, nocache, access_log,
         LogFails, Send

LEMMA StartupInv == Spec => [](Loaded /\ Assembled)
  <1>1. Init => Loaded /\ Assembled
    BY StartupInit DEF Init
  <1>2. Loaded /\ Assembled /\ [Next]_vars => (Loaded /\ Assembled)'
    <2>1. ASSUME Loaded, Assembled, UNCHANGED svars
          PROVE  Loaded' /\ Assembled'
      BY <2>1 DEF svars, world, process, Loaded, Assembled
    <2> QED
      BY <2>1, LoadedStep, AssembledStep, Steps
  <1> QED
    BY <1>1, <1>2, PTL DEF Spec

\* A process that serves requests is completely set up, in every environment
\* that its settings accept, and after any number of failed starts.
THEOREM ServingProcessIsReady == Spec => []ServingIsReady
  <1>1. Loaded /\ Assembled => ServingIsReady
    <2> SUFFICES ASSUME Loaded, Assembled PROVE ServingIsReady
      OBVIOUS
    <2>1. worker => initialized
      BY DEF Assembled
    <2>2. ASSUME Serving, NEW x \in exports, x[2] = "otlp_http"
          PROVE  settings.endpoint
      BY <2>2 DEF Serving, Loaded, Settings, TelemetrySettings
    <2> QED
      BY <2>1, <2>2 DEF ServingIsReady, Serving, Loaded, Assembled
  <1> QED
    BY <1>1, StartupInv, PTL

-----------------------------------------------------------------------------
(* The requests.                                                           *)

Contexts ==
  [client : Clients \cup {NoClient}, malformed : BOOLEAN, error : OAuthErrors \cup {NoError}]

PCs == {"idle", "view", "collect", "publish", "generate", "after"}

RequestTypes ==
  /\ pc \in [Threads -> PCs]
  /\ req \in [Threads -> Requests \cup {NoRequest}]
  /\ context \in [Threads -> Contexts]
  /\ own \in [Threads -> Contexts]
  /\ resp \in [Threads -> [status : Nat, cache : {"none", "no-store"}]]
  /\ hook \in [Threads -> 0..3]
  /\ counted \in [Threads -> Seq(Nat)]
  /\ log = [t \in Threads |-> log[t]]

\* Threads are only busy in a process that serves.
BusyIsServing == \A t \in Threads : pc[t] # "idle" => phase = "serving"

\* Nothing is known of a request before its view ran, and nothing recorded.
Unanswered ==
  \A t \in Threads : pc[t] # "after" =>
    /\ own[t] = NoContext /\ log[t] = NoLog
    /\ hook[t] = 0 /\ counted[t] = <<>>
    /\ pc[t] # "idle" => context[t] = NoContext

\* Afterwards the context is that of the request.
Identified ==
  \A t \in Threads :
    /\ pc[t] = "after" => context[t] = own[t]
    /\ log[t] # NoLog => log[t].context = own[t]

\* What the functions after the view have done, from the last to the first.
RecordedOf(t) ==
  /\ hook[t] = 3 =>
       \/ counted[t] = <<>>
       \/ Len(counted[t]) = 1 /\ ~req[t].body
  /\ hook[t] < 3 =>
       /\ Len(counted[t]) \in {1, 2}
       /\ counted[t][Len(counted[t])] = resp[t].status
       /\ req[t].body => Len(counted[t]) = 1
  /\ hook[t] < 2 => resp[t].cache = "no-store"
  /\ hook[t] >= 2 => resp[t].cache = "none"
  /\ hook[t] = 0 /\ req[t].body => log[t].response = resp[t]

Recorded == \A t \in Threads : pc[t] = "after" => RecordedOf(t)

RequestInv ==
  /\ Loaded /\ Assembled
  /\ RequestTypes /\ BusyIsServing /\ Unanswered /\ Identified /\ Recorded

LEMMA NoContextType == NoContext \in Contexts
  BY DEF NoContext, Contexts

LEMMA RequestInit == Init => RequestInv
  <1> SUFFICES ASSUME Init PROVE RequestInv
    OBVIOUS
  <1>1. Loaded /\ Assembled
    BY StartupInit DEF Init
  <1>2. RequestTypes
    BY NoContextType DEF Init, RequestTypes, NoResponse, PCs
  <1>3. BusyIsServing /\ Unanswered /\ Identified /\ Recorded
    BY DEF Init, BusyIsServing, Unanswered, Identified, Recorded
  <1> QED
    BY <1>1, <1>2, <1>3 DEF RequestInv

\* A view that ends: its response, and what it found out about its client.
Ends(t) ==
  token(t) \/ FormLost(t) \/ callback(t) \/ OtherView(t) \/ RefuseScrape(t) \/ Generate(t)

LEMMA StatusType == \A error : error_status(error) \in Nat
  BY DEF error_status

LEMMA FailType ==
  ASSUME NEW t \in Threads, NEW known \in Contexts,
         NEW error \in OAuthErrors \cup {"internal_error"}, Fail(t, known, error)
  PROVE  /\ \E k \in Contexts : Bind(t, k)
         /\ \E status \in Nat : Respond(t, status)
  <1>1. (IF error = "internal_error" THEN known ELSE [known EXCEPT !.error = error]) \in Contexts
    BY DEF Contexts
  <1> QED
    BY <1>1, StatusType DEF Fail

LEMMA TokenEnds ==
  ASSUME RequestInv, NEW t \in Threads, token(t)
  PROVE  /\ \E k \in Contexts : Bind(t, k)
         /\ \E status \in Nat : Respond(t, status)
  <1> DEFINE r == req[t]
             verdict == validate_credentials(credentials(r))
             known == [NoContext EXCEPT !.client = credentials(r).id]
  <1>1. r \in Requests /\ r.route = "token"
    BY DEF token, RequestInv, RequestTypes, NoRequest
  <1>2. ASSUME verdict = "valid"
        PROVE  known \in Contexts
    <2>1. credentials(r).id \in Clients \cup {"absent", "malformed"}
      BY <1>1, RequestAssumption DEF credentials
    <2>2. credentials(r).id \notin {"absent", "malformed"}
      BY <1>2 DEF validate_credentials
    <2> QED
      BY <2>1, <2>2 DEF NoContext, Contexts
  <1>3. CASE request_error(r) # NoError
    <2>1. request_error(r) \in OAuthErrors
      BY <1>3 DEF request_error, OAuthErrors, NoError
    <2> QED
      BY <1>3, <2>1, FailType, NoContextType DEF token
  <1>4. CASE request_error(r) = NoError /\ verdict # "valid"
    <2>1. [NoContext EXCEPT !.malformed = (verdict = "malformed_id")] \in Contexts
      BY DEF NoContext, Contexts
    <2> QED
      BY <1>4, <2>1, FailType DEF token, OAuthErrors
  <1>5. CASE request_error(r) = NoError /\ verdict = "valid"
    <2>1. \/ Bind(t, known) /\ Respond(t, 200)
          \/ \E e \in LaterErrors : Fail(t, known, e)
      BY <1>5 DEF token
    <2> QED
      BY <1>2, <1>5, <2>1, FailType DEF LaterErrors, OAuthErrors
  <1> QED
    BY <1>3, <1>4, <1>5

LEMMA ViewEnds ==
  ASSUME RequestInv, NEW t \in Threads, Ends(t)
  PROVE  /\ pc[t] \in {"view", "generate"}
         /\ UNCHANGED <<svars, req, counted, log>>
         /\ UNCHANGED <<context, own>> \/ \E k \in Contexts : Bind(t, k)
         /\ \E status \in Nat : Respond(t, status)
  <1>1. CASE token(t)
    BY <1>1, TokenEnds DEF token
  <1>2. CASE FormLost(t) \/ OtherView(t) \/ RefuseScrape(t) \/ Generate(t)
    BY <1>2 DEF FormLost, OtherView, RefuseScrape, Generate
  <1>3. CASE callback(t)
    <2>1. pc[t] = "view" /\ UNCHANGED <<svars, req, counted, log>>
      BY <1>3 DEF callback
    <2>2. CASE \E c \in Clients, status \in {200, 400, 500} :
                 Bind(t, [NoContext EXCEPT !.client = c]) /\ Respond(t, status)
      <3>1. PICK c \in Clients, status \in {200, 400, 500} :
              Bind(t, [NoContext EXCEPT !.client = c]) /\ Respond(t, status)
        BY <2>2
      <3>2. [NoContext EXCEPT !.client = c] \in Contexts
        BY DEF NoContext, Contexts
      <3> QED
        BY <2>1, <3>1, <3>2
    <2>3. CASE Bind(t, NoContext) /\ \E status \in {400, 401, 503, 500} : Respond(t, status)
      BY <2>1, <2>3, NoContextType
    <2> QED
      BY <1>3, <2>2, <2>3 DEF callback
  <1> QED
    BY <1>1, <1>2, <1>3 DEF Ends

\* The context that a view binds is what it knows, as the one it got is empty.
LEMMA BindsWhatIsKnown ==
  ASSUME RequestTypes, NEW t \in Threads, context[t] = NoContext,
         NEW k \in Contexts, Bind(t, k)
  PROVE  context' = [context EXCEPT ![t] = k] /\ own' = [own EXCEPT ![t] = k]
  <1>1. [client |-> IF k.client = NoClient THEN NoContext.client ELSE k.client,
         malformed |-> NoContext.malformed \/ k.malformed,
         error |-> IF k.error = NoError THEN NoContext.error ELSE k.error] = k
    <2>1. (NoContext.malformed \/ k.malformed) = k.malformed
      BY DEF NoContext, Contexts
    <2>2. /\ (IF k.client = NoClient THEN NoContext.client ELSE k.client) = k.client
          /\ (IF k.error = NoError THEN NoContext.error ELSE k.error) = k.error
      BY DEF NoContext
    <2>3. k = [client |-> k.client, malformed |-> k.malformed, error |-> k.error]
      BY DEF Contexts
    <2> QED
      BY <2>1, <2>2, <2>3, Zenon
  <1> QED
    BY <1>1 DEF Bind, RequestTypes

LEMMA EndsStep ==
  ASSUME RequestInv, NEW t \in Threads, Ends(t)
  PROVE  RequestTypes' /\ BusyIsServing' /\ Unanswered' /\ Identified' /\ Recorded'
  <1> USE DEF RequestInv
  <1>1. pc[t] \in {"view", "generate"} /\ UNCHANGED <<svars, req, counted, log>>
    BY ViewEnds
  <1>2. PICK status \in Nat : Respond(t, status)
    BY ViewEnds
  <1>3. /\ context[t] = NoContext /\ own[t] = NoContext /\ log[t] = NoLog
        /\ counted[t] = <<>> /\ phase = "serving" /\ Len(hooks) = 3
    BY <1>1 DEF Unanswered, BusyIsServing, Assembled, AppHooks
  <1>4. PICK k \in Contexts :
          context' = [context EXCEPT ![t] = k] /\ own' = [own EXCEPT ![t] = k]
    <2>1. CASE UNCHANGED <<context, own>>
      BY <1>3, <2>1, NoContextType DEF RequestTypes
    <2>2. CASE \E k \in Contexts : Bind(t, k)
      BY <1>3, <2>2, BindsWhatIsKnown
    <2> QED
      BY <2>1, <2>2, ViewEnds
  <1>5. /\ pc' = [pc EXCEPT ![t] = "after"]
        /\ resp' = [resp EXCEPT ![t] = [status |-> status, cache |-> "none"]]
        /\ hook' = [hook EXCEPT ![t] = 3]
    BY <1>2, <1>3 DEF Respond, Goto
  <1>6. RequestTypes'
    BY <1>1, <1>4, <1>5 DEF RequestTypes, PCs
  <1>7. BusyIsServing'
    BY <1>1, <1>3, <1>5 DEF BusyIsServing, RequestTypes, svars, process
  <1>8. Unanswered'
    BY <1>1, <1>4, <1>5 DEF Unanswered, RequestTypes
  <1>9. Identified'
    BY <1>1, <1>3, <1>4, <1>5 DEF Identified, RequestTypes
  <1>10. Recorded'
    BY <1>1, <1>3, <1>5 DEF Recorded, RecordedOf, RequestTypes
  <1> QED
    BY <1>6, <1>7, <1>8, <1>9, <1>10

\* Looking for the registry is part of the view.
Scrapes(t) == FindRegistry(t) \/ MakeRegistry(t) \/ FillRegistry(t) \/ PublishRegistry(t)

LEMMA ScrapesStep ==
  ASSUME RequestInv, NEW t \in Threads, Scrapes(t)
  PROVE  RequestTypes' /\ BusyIsServing' /\ Unanswered' /\ Identified' /\ Recorded'
  <1> USE DEF RequestInv
  <1>1. /\ UNCHANGED <<svars, request, context>> /\ pc[t] \in {"view", "collect", "publish"}
        /\ \E q \in {"generate", "collect", "publish"} : pc' = [pc EXCEPT ![t] = q]
    BY DEF Scrapes, FindRegistry, MakeRegistry, FillRegistry, PublishRegistry, MayScrape, Goto
  <1>2. RequestTypes'
    BY <1>1 DEF RequestTypes, PCs, request
  <1>3. BusyIsServing'
    BY <1>1 DEF BusyIsServing, RequestTypes, svars, process
  <1>4. Unanswered' /\ Identified' /\ Recorded'
    BY <1>1 DEF Unanswered, Identified, Recorded, RecordedOf, RequestTypes, request
  <1> QED
    BY <1>2, <1>3, <1>4

LEMMA HookNames ==
  ASSUME RequestInv, NEW t \in Threads, NEW name, NextHook(t, name)
  PROVE  /\ pc[t] = "after" /\ phase = "serving" /\ Len(hooks) = 3
         /\ name = "finalize_metrics" => hook[t] = 3
         /\ name = "nocache" => hook[t] = 2
         /\ name = "access_log" => hook[t] = 1
         /\ RecordedOf(t)
  <1> USE DEF RequestInv
  <1>1. pc[t] = "after" /\ hook[t] > 0 /\ hooks[hook[t]] = name
    BY DEF NextHook
  <1>2. hooks = AppHooks /\ phase = "serving"
    BY <1>1 DEF BusyIsServing, Assembled
  <1>3. hook[t] \in {1, 2, 3}
    BY <1>1 DEF RequestTypes
  <1>4. /\ hooks[1] = "access_log" /\ hooks[2] = "nocache" /\ hooks[3] = "finalize_metrics"
        /\ Len(hooks) = 3
    BY <1>2 DEF AppHooks
  <1> QED
    BY <1>1, <1>2, <1>3, <1>4 DEF Recorded

\* A function after the view is done with the request of t and leaves its
\* context alone.
LEMMA AfterKeeps ==
  ASSUME RequestInv, NEW t \in Threads, pc[t] = "after", phase = "serving",
         UNCHANGED <<svars, pc, req, context, own>>,
         resp' \in [Threads -> [status : Nat, cache : {"none", "no-store"}]],
         hook' \in [Threads -> 0..3], counted' \in [Threads -> Seq(Nat)],
         log' = [u \in Threads |-> log'[u]],
         \A u \in Threads \ {t} :
           /\ resp'[u] = resp[u] /\ hook'[u] = hook[u]
           /\ counted'[u] = counted[u] /\ log'[u] = log[u],
         log'[t] \in {log[t], [context |-> context[t], response |-> resp[t]]},
         RecordedOf(t)'
  PROVE  RequestTypes' /\ BusyIsServing' /\ Unanswered' /\ Identified' /\ Recorded'
  <1> USE DEF RequestInv
  <1>1. RequestTypes'
    BY DEF RequestTypes
  <1>2. BusyIsServing'
    BY DEF BusyIsServing, svars, process
  <1>3. Unanswered'
    BY DEF Unanswered
  <1>4. Identified'
    <2>1. context[t] = own[t] /\ (log[t] # NoLog => log[t].context = own[t])
      BY DEF Identified
    <2>2. log'[t] # NoLog => log'[t].context = own[t]
      BY <2>1
    <2> QED
      BY <2>2 DEF Identified
  <1>5. Recorded'
    <2>1. ASSUME NEW u \in Threads \ {t}, RecordedOf(u)
          PROVE  RecordedOf(u)'
      BY <2>1 DEF RecordedOf
    <2> QED
      BY <2>1 DEF Recorded
  <1> QED
    BY <1>1, <1>2, <1>3, <1>4, <1>5

LEMMA AfterStep ==
  ASSUME RequestInv, NEW t \in Threads, AfterRequest(t)
  PROVE  RequestTypes' /\ BusyIsServing' /\ Unanswered' /\ Identified' /\ Recorded'
  <1> USE DEF RequestInv
  <1>1. CASE finalize_metrics(t)
    <2>1. hook[t] = 3 /\ pc[t] = "after" /\ phase = "serving" /\ RecordedOf(t)
      BY <1>1, HookNames DEF finalize_metrics
    <2>2. UNCHANGED <<svars, pc, req, context, own, resp, log>>
      BY <1>1 DEF finalize_metrics, Done
    <2>3. counted' = [counted EXCEPT ![t] = Append(@, resp[t].status)]
      BY <1>1 DEF finalize_metrics
    <2>4. hook' = [hook EXCEPT ![t] = 2]
      BY <1>1, <2>1 DEF finalize_metrics, Done, RequestTypes
    <2>5. /\ counted[t] \in Seq(Nat) /\ resp[t].status \in Nat
          /\ counted'[t] = Append(counted[t], resp[t].status)
      BY <2>3 DEF RequestTypes
    <2>6. /\ counted'[t] \in Seq(Nat) /\ Len(counted'[t]) = Len(counted[t]) + 1
          /\ counted'[t][Len(counted'[t])] = resp[t].status
      BY <2>5
    <2>7. \/ Len(counted[t]) = 0
          \/ Len(counted[t]) = 1 /\ ~req[t].body
      BY <2>1 DEF RecordedOf
    <2>8. hook'[t] = 2 /\ resp[t].cache = "none"
      BY <2>1, <2>4 DEF RecordedOf, RequestTypes
    <2>9. RecordedOf(t)'
      <3> DEFINE len == Len(counted[t])
      <3>1. Len(counted'[t]) = len + 1
        BY <2>6
      <3>2. len = 0 \/ (len = 1 /\ ~req[t].body)
        BY <2>7
      <3> HIDE DEF len
      <3>3. Len(counted'[t]) \in {1, 2}
        BY <3>1, <3>2
      <3>4. req[t].body => Len(counted'[t]) = 1
        BY <3>1, <3>2
      <3> QED
        BY <2>2, <2>6, <2>8, <3>3, <3>4 DEF RecordedOf
    <2>10. /\ counted' \in [Threads -> Seq(Nat)]
           /\ \A u \in Threads \ {t} : counted'[u] = counted[u]
      BY <2>3, <2>6 DEF RequestTypes
    <2>11. hook' \in [Threads -> 0..3] /\ \A u \in Threads \ {t} : hook'[u] = hook[u]
      BY <2>4 DEF RequestTypes
    <2>12. /\ resp' \in [Threads -> [status : Nat, cache : {"none", "no-store"}]]
           /\ log' = [u \in Threads |-> log'[u]]
      BY <2>2 DEF RequestTypes
    <2> QED
      BY <2>1, <2>2, <2>9, <2>10, <2>11, <2>12, AfterKeeps
  <1>2. CASE nocache(t)
    <2>1. hook[t] = 2 /\ pc[t] = "after" /\ phase = "serving" /\ RecordedOf(t)
      BY <1>2, HookNames DEF nocache
    <2>2. /\ resp' = [resp EXCEPT ![t].cache = IF @ = "none" THEN "no-store" ELSE @]
          /\ hook' = [hook EXCEPT ![t] = 1]
          /\ UNCHANGED <<svars, pc, req, context, own, counted, log>>
      BY <1>2, <2>1 DEF nocache, Done, RequestTypes
    <2>3. resp[t] \in [status : Nat, cache : {"none", "no-store"}]
      BY DEF RequestTypes
    <2>4. resp'[t] = [status |-> resp[t].status, cache |-> "no-store"]
      BY <2>1, <2>2, <2>3 DEF RecordedOf, RequestTypes
    <2>5. /\ resp' \in [Threads -> [status : Nat, cache : {"none", "no-store"}]]
          /\ \A u \in Threads \ {t} : resp'[u] = resp[u]
      BY <2>2, <2>3 DEF RequestTypes
    <2>6. hook'[t] = 1
      BY <2>2 DEF RequestTypes
    <2>7. RecordedOf(t)'
      BY <2>1, <2>2, <2>4, <2>6 DEF RecordedOf
    <2>8. /\ hook' \in [Threads -> 0..3] /\ counted' \in [Threads -> Seq(Nat)]
          /\ log' = [u \in Threads |-> log'[u]]
          /\ \A u \in Threads \ {t} : hook'[u] = hook[u]
      BY <2>2 DEF RequestTypes
    <2> QED
      BY <2>1, <2>2, <2>5, <2>7, <2>8, AfterKeeps
  <1>3. CASE access_log(t)
    <2>1. hook[t] = 1 /\ pc[t] = "after" /\ phase = "serving" /\ RecordedOf(t)
      BY <1>3, HookNames DEF access_log
    <2>2. /\ log' = [log EXCEPT ![t] = [context |-> context[t], response |-> resp[t]]]
          /\ hook' = [hook EXCEPT ![t] = 0]
          /\ UNCHANGED <<svars, pc, req, context, own, counted, resp>>
      BY <1>3, <2>1 DEF access_log, Done, RequestTypes
    <2>3. /\ log' = [u \in Threads |-> log'[u]]
          /\ log'[t] = [context |-> context[t], response |-> resp[t]]
          /\ \A u \in Threads \ {t} : log'[u] = log[u]
      BY <2>2 DEF RequestTypes
    <2>4. hook'[t] = 0 /\ log'[t].response = resp[t]
      BY <2>2, <2>3 DEF RequestTypes
    <2>5. RecordedOf(t)'
      BY <2>1, <2>2, <2>4 DEF RecordedOf
    <2>6. /\ hook' \in [Threads -> 0..3] /\ counted' \in [Threads -> Seq(Nat)]
          /\ resp' \in [Threads -> [status : Nat, cache : {"none", "no-store"}]]
          /\ \A u \in Threads \ {t} : hook'[u] = hook[u]
      BY <2>2 DEF RequestTypes
    <2> QED
      BY <2>1, <2>2, <2>3, <2>5, <2>6, AfterKeeps
  <1>4. CASE LogFails(t)
    <2>1. hook[t] = 1 /\ pc[t] = "after" /\ phase = "serving" /\ RecordedOf(t)
      BY <1>4, HookNames DEF LogFails
    <2>2. Len(hooks) = 3 /\ error_status("internal_error") = 500
      BY <1>4, HookNames DEF LogFails, error_status
    <2>3. ~req[t].body /\ UNCHANGED <<svars, req, context, own, counted, log>>
      BY <1>4 DEF LogFails
    <2>4. counted' \in [Threads -> Seq(Nat)] /\ log' = [u \in Threads |-> log'[u]]
      BY <2>3 DEF RequestTypes
    <2>5. CASE Len(counted[t]) = 1 /\ Respond(t, error_status("internal_error"))
      <3>1. pc' = [pc EXCEPT ![t] = "after"]
        BY <2>5 DEF Respond, Goto
      <3>2. /\ resp' = [resp EXCEPT ![t] = [status |-> 500, cache |-> "none"]]
            /\ hook' = [hook EXCEPT ![t] = 3]
        BY <2>2, <2>5 DEF Respond
      <3>3. pc' = pc
        BY <2>1, <3>1 DEF RequestTypes
      <3>4. hook'[t] = 3 /\ resp'[t].cache = "none"
        BY <3>2 DEF RequestTypes
      <3>5. RecordedOf(t)'
        BY <2>3, <2>5, <3>4 DEF RecordedOf
      <3>6. /\ resp' \in [Threads -> [status : Nat, cache : {"none", "no-store"}]]
            /\ hook' \in [Threads -> 0..3]
            /\ \A u \in Threads \ {t} : resp'[u] = resp[u] /\ hook'[u] = hook[u]
        BY <3>2 DEF RequestTypes
      <3> QED
        BY <2>1, <2>3, <2>4, <3>3, <3>5, <3>6, AfterKeeps
    <2>6. CASE Len(counted[t]) # 1 /\ Done(t) /\ UNCHANGED resp
      <3>1. hook' = [hook EXCEPT ![t] = 0] /\ pc' = pc
        BY <2>1, <2>6 DEF Done, RequestTypes
      <3>2. hook'[t] = 0
        BY <3>1 DEF RequestTypes
      <3>3. RecordedOf(t)'
        BY <2>1, <2>3, <2>6, <3>2 DEF RecordedOf
      <3>4. /\ resp' \in [Threads -> [status : Nat, cache : {"none", "no-store"}]]
            /\ hook' \in [Threads -> 0..3]
            /\ \A u \in Threads \ {t} : resp'[u] = resp[u] /\ hook'[u] = hook[u]
        BY <2>6, <3>1 DEF RequestTypes
      <3> QED
        BY <2>1, <2>3, <2>4, <3>1, <3>3, <3>4, AfterKeeps
    <2> QED
      BY <1>4, <2>5, <2>6 DEF LogFails
  <1> QED
    BY <1>1, <1>2, <1>3, <1>4 DEF AfterRequest

\* While a thread is busy the process stays as it is, until it goes.
LEMMA LifeKeeps ==
  ASSUME RequestInv, Life, NEW t \in Threads, pc[t] # "idle"
  PROVE  phase' = phase /\ settings' = settings
  <1>1. phase = "serving"
    BY DEF RequestInv, BusyIsServing
  <1> QED
    BY <1>1
    DEF Life, Load, LoadSettings, RejectSettings, init_logging, init_sentry, instrument,
        init_tracing, init_metrics, create_app, StartServices, RefuseToStart, Register, At,
        StartAgain, Edit, initdb, process

LEMMA RequestStep ==
  ASSUME RequestInv, [Next]_vars
  PROVE  RequestInv'
  <1> USE DEF RequestInv
  <1>1. Loaded' /\ Assembled'
    <2>1. CASE UNCHANGED svars
      BY <2>1 DEF svars, world, process, Loaded, Assembled
    <2> QED
      BY <2>1, LoadedStep, AssembledStep, Steps
  <1>2. CASE Life
    <2>1. UNCHANGED <<pc, req, context, own, resp, hook, counted, log>>
      BY <1>2 DEF Life, rvars, request
    <2>2. RequestTypes' /\ Unanswered' /\ Identified' /\ Recorded'
      BY <2>1 DEF RequestTypes, Unanswered, Identified, Recorded, RecordedOf
    <2>3. BusyIsServing'
      BY <1>2, <2>1, LifeKeeps DEF BusyIsServing
    <2> QED
      BY <1>1, <2>2, <2>3
  <1>3. CASE Gone
    <2>1. RequestTypes'
      BY <1>3, NoContextType DEF Gone, RequestTypes, NoResponse, PCs
    <2>2. BusyIsServing' /\ Unanswered' /\ Identified' /\ Recorded'
      BY <1>3 DEF Gone, BusyIsServing, Unanswered, Identified, Recorded
    <2> QED
      BY <1>1, <2>1, <2>2
  <1>4. ASSUME NEW t \in Threads, BeforeRequest(t)
        PROVE  RequestInv'
    <2>1. /\ pc[t] = "idle" /\ pc' = [pc EXCEPT ![t] = "view"] /\ phase = "serving"
          /\ context' = [context EXCEPT ![t] = NoContext]
          /\ UNCHANGED <<svars, own, resp, hook, counted, log>>
      BY <1>4 DEF BeforeRequest, Receive, Goto, Serving
    <2>2. PICK r \in Requests : req' = [req EXCEPT ![t] = r]
      BY <1>4 DEF BeforeRequest, Receive
    <2>3. RequestTypes'
      BY <2>1, <2>2, NoContextType DEF RequestTypes, PCs
    <2>4. BusyIsServing'
      BY <2>1 DEF BusyIsServing, svars, process
    <2>5. Unanswered'
      BY <2>1 DEF Unanswered, RequestTypes
    <2>6. Identified'
      BY <2>1 DEF Identified, RequestTypes
    <2>7. Recorded'
      BY <2>1, <2>2 DEF Recorded, RecordedOf, RequestTypes
    <2> QED
      BY <1>1, <2>3, <2>4, <2>5, <2>6, <2>7
  <1>5. ASSUME NEW t \in Threads, View(t)
        PROVE  RequestInv'
    BY <1>1, <1>5, EndsStep, ScrapesStep DEF View, Ends, Scrapes
  <1>6. ASSUME NEW t \in Threads, AfterRequest(t)
        PROVE  RequestInv'
    BY <1>1, <1>6, AfterStep
  <1>7. ASSUME NEW t \in Threads, Send(t)
        PROVE  RequestInv'
    <2>1. /\ pc[t] = "after" /\ hook[t] = 0 /\ pc' = [pc EXCEPT ![t] = "idle"]
          /\ req' = [req EXCEPT ![t] = NoRequest]
          /\ own' = [own EXCEPT ![t] = NoContext]
          /\ resp' = [resp EXCEPT ![t] = NoResponse]
          /\ counted' = [counted EXCEPT ![t] = <<>>]
          /\ log' = [log EXCEPT ![t] = NoLog]
          /\ UNCHANGED <<svars, hook, context>>
      BY <1>7 DEF Send, Goto
    <2>2. RequestTypes'
      <3>1. <<>> \in Seq(Nat) /\ NoResponse \in [status : Nat, cache : {"none", "no-store"}]
        BY DEF NoResponse
      <3>2. /\ counted' \in [Threads -> Seq(Nat)]
            /\ resp' \in [Threads -> [status : Nat, cache : {"none", "no-store"}]]
        BY <2>1, <3>1 DEF RequestTypes
      <3>3. pc' \in [Threads -> PCs] /\ req' \in [Threads -> Requests \cup {NoRequest}]
        BY <2>1 DEF RequestTypes, PCs
      <3>4. /\ own' \in [Threads -> Contexts] /\ context' \in [Threads -> Contexts]
            /\ hook' \in [Threads -> 0..3] /\ log' = [u \in Threads |-> log'[u]]
        BY <2>1, NoContextType DEF RequestTypes
      <3> QED
        BY <3>2, <3>3, <3>4 DEF RequestTypes
    <2>3. BusyIsServing'
      BY <2>1 DEF BusyIsServing, RequestTypes, svars, process
    <2>4. Unanswered' /\ Identified'
      BY <2>1 DEF Unanswered, Identified, RequestTypes
    <2>5. Recorded'
      BY <2>1 DEF Recorded, RecordedOf, RequestTypes
    <2> QED
      BY <1>1, <2>2, <2>3, <2>4, <2>5
  <1>8. CASE UNCHANGED vars
    BY <1>1, <1>8
    DEF vars, svars, process, rvars, request, RequestTypes, BusyIsServing, Unanswered,
        Identified, Recorded, RecordedOf
  <1> QED
    BY <1>2, <1>3, <1>4, <1>5, <1>6, <1>7, <1>8 DEF Next, Handle

LEMMA RequestInvHolds == Spec => []RequestInv
  <1>1. RequestInv /\ [Next]_vars => RequestInv'
    BY RequestStep
  <1> QED
    BY <1>1, RequestInit, PTL DEF Spec

\* Whatever requests a thread served before, and however a request ends, the
\* access log names the client and the error of that very request.
THEOREM LogIsOwn == Spec => []LogNamesOwnClient
  <1>1. RequestInv => LogNamesOwnClient
    BY DEF RequestInv, Identified, LogNamesOwnClient
  <1> QED
    BY <1>1, RequestInvHolds, PTL

\* Every response leaves marked no-store, counted with its status and, if its
\* request was complete, counted once and logged as it is sent.
THEOREM ResponsesAreRecorded == Spec => []RecordedAsSent
  <1>1. RequestInv => RecordedAsSent
    BY DEF RequestInv, Recorded, RecordedOf, RecordedAsSent
  <1> QED
    BY <1>1, RequestInvHolds, PTL

-----------------------------------------------------------------------------
(* The registry of /metrics.                                               *)

\* A registry that was published, or is in use, has its collector; one is in
\* use only after one was published, and then none is made any more.
Registries ==
  /\ published \in Threads \cup {NoRegistry} /\ filled \subseteq Threads
  /\ using \in [Threads -> Threads \cup {NoRegistry}]
  /\ published # NoRegistry => published \in filled
  /\ \A t \in Threads :
       /\ using[t] # NoRegistry => using[t] \in filled /\ published # NoRegistry
       /\ pc[t] = "publish" => t \in filled

RegistryInv == RequestInv /\ Registries /\ ScrapeIsComplete

LEMMA RegistryInit == Init => RegistryInv
  BY RequestInit DEF Init, RegistryInv, Registries, ScrapeIsComplete

LEMMA RegistryStep ==
  ASSUME RegistryInv, [Next]_vars
  PROVE  RegistryInv'
  <1> USE RequestAssumption DEF RegistryInv
  <1>1. RequestInv'
    BY RequestStep
  <1>2. pc \in [Threads -> PCs]
    BY DEF RequestInv, RequestTypes
  <1>3. CASE Life
    <2>1. UNCHANGED <<pc, published, filled, using>>
      BY <1>3 DEF Life, rvars, scrapes
    <2>2. Registries'
      BY <2>1 DEF Registries
    <2>3. ScrapeIsComplete'
      BY <1>3, <2>1, LifeKeeps DEF ScrapeIsComplete
    <2> QED
      BY <1>1, <2>2, <2>3
  <1>4. CASE Gone
    BY <1>1, <1>4 DEF Gone, Registries, ScrapeIsComplete
  \* A thread that reads no registry leaves them alone.
  <1>5. ASSUME NEW t \in Threads, NEW q \in {"idle", "view", "after"},
               pc' = [pc EXCEPT ![t] = q], UNCHANGED <<settings, scrapes>>
        PROVE  Registries' /\ ScrapeIsComplete'
    BY <1>2, <1>5 DEF Registries, ScrapeIsComplete, scrapes
  <1>6. ASSUME NEW t \in Threads,
               BeforeRequest(t) \/ token(t) \/ FormLost(t) \/ callback(t) \/ OtherView(t)
                 \/ RefuseScrape(t) \/ AfterRequest(t) \/ Send(t)
        PROVE  RegistryInv'
    <2>1. UNCHANGED <<settings, scrapes>>
      BY <1>6
      DEF BeforeRequest, Receive, token, FormLost, callback, OtherView, RefuseScrape,
          AfterRequest, finalize_metrics, nocache, access_log, LogFails, Send, svars, process
    <2>2. \E q \in {"idle", "view", "after"} : pc' = [pc EXCEPT ![t] = q]
      <3>1. CASE BeforeRequest(t) \/ Send(t)
        BY <3>1 DEF BeforeRequest, Receive, Send, Goto
      <3>2. CASE FormLost(t) \/ OtherView(t) \/ RefuseScrape(t) \/ token(t) \/ callback(t)
        BY <3>2, ViewEnds DEF Ends, Respond, Goto
      <3>3. CASE AfterRequest(t)
        <4>1. pc[t] = "after"
          BY <3>3 DEF AfterRequest, finalize_metrics, nocache, access_log, LogFails, NextHook
        <4>2. pc' = pc \/ pc' = [pc EXCEPT ![t] = "after"]
          BY <3>3
          DEF AfterRequest, finalize_metrics, nocache, access_log, LogFails, Done, Respond, Goto
        <4> QED
          BY <1>2, <4>1, <4>2
      <3> QED
        BY <1>6, <3>1, <3>2, <3>3
    <2> QED
      BY <1>1, <1>5, <2>1, <2>2
  <1>7. ASSUME NEW t \in Threads, FindRegistry(t)
        PROVE  RegistryInv'
    <2>1. /\ pc' = [pc EXCEPT ![t] = "generate"] /\ UNCHANGED <<settings, published, filled>>
          /\ using' = [using EXCEPT ![t] = IF settings.multiproc THEN published ELSE @]
          /\ settings.multiproc => published # NoRegistry
      BY <1>7 DEF FindRegistry, Goto, svars, process
    <2>2. Registries'
      BY <1>2, <2>1 DEF Registries
    <2>3. ScrapeIsComplete'
      BY <1>2, <2>1 DEF Registries, ScrapeIsComplete
    <2> QED
      BY <1>1, <2>2, <2>3
  <1>8. ASSUME NEW t \in Threads, MakeRegistry(t)
        PROVE  RegistryInv'
    <2>1. /\ pc' = [pc EXCEPT ![t] = "collect"] /\ UNCHANGED <<settings, published, using>>
          /\ filled' = filled \ {t} /\ published = NoRegistry
      BY <1>8 DEF MakeRegistry, Goto, svars, process
    <2>2. \A u \in Threads : using[u] = NoRegistry
      BY <2>1 DEF Registries
    <2>3. Registries'
      BY <1>2, <2>1, <2>2 DEF Registries
    <2>4. ScrapeIsComplete'
      BY <1>2, <2>1, <2>2 DEF Registries, ScrapeIsComplete
    <2> QED
      BY <1>1, <2>3, <2>4
  <1>9. ASSUME NEW t \in Threads, FillRegistry(t)
        PROVE  RegistryInv'
    <2>1. /\ pc' = [pc EXCEPT ![t] = "publish"] /\ UNCHANGED <<settings, published, using>>
          /\ filled' = filled \cup {t}
      BY <1>9 DEF FillRegistry, Goto, svars, process
    <2> QED
      BY <1>1, <1>2, <2>1 DEF Registries, ScrapeIsComplete
  <1>10. ASSUME NEW t \in Threads, PublishRegistry(t)
         PROVE  RegistryInv'
    <2>1. /\ pc[t] = "publish" /\ pc' = [pc EXCEPT ![t] = "generate"]
          /\ published' = t /\ using' = [using EXCEPT ![t] = t]
          /\ UNCHANGED <<settings, filled>>
      BY <1>10 DEF PublishRegistry, Goto, svars, process
    <2> QED
      BY <1>1, <1>2, <2>1 DEF Registries, ScrapeIsComplete
  <1>11. ASSUME NEW t \in Threads, Generate(t)
         PROVE  RegistryInv'
    <2>1. /\ pc' = [pc EXCEPT ![t] = "after"] /\ using' = [using EXCEPT ![t] = NoRegistry]
          /\ UNCHANGED <<settings, published, filled>>
      BY <1>11 DEF Generate, Respond, Goto, svars, process
    <2> QED
      BY <1>1, <1>2, <2>1 DEF Registries, ScrapeIsComplete
  <1>12. CASE UNCHANGED vars
    BY <1>1, <1>12 DEF vars, svars, process, rvars, scrapes, Registries, ScrapeIsComplete
  <1> QED
    BY <1>3, <1>4, <1>6, <1>7, <1>8, <1>9, <1>10, <1>11, <1>12 DEF Next, Handle, View

LEMMA RegistryInvHolds == Spec => []RegistryInv
  <1>1. RegistryInv /\ [Next]_vars => RegistryInv'
    BY RegistryStep
  <1> QED
    BY <1>1, RegistryInit, PTL DEF Spec

\* Threads that make, fill and publish their registries without a lock never
\* scrape one that has no collector.
THEOREM ScrapesAreComplete == Spec => []ScrapeIsComplete
  BY RegistryInvHolds, PTL DEF RegistryInv

\* Every variable of the process and its threads keeps its type; no request
\* is counted more than twice.
THEOREM TypeCorrect == Spec => []TypeOK
  <1>1. RegistryInv => TypeOK
    <2> SUFFICES ASSUME RegistryInv PROVE TypeOK
      OBVIOUS
    <2> USE DEF RegistryInv, RequestInv
    <2>1. ASSUME NEW t \in Threads
          PROVE  hook[t] \in 0..Len(hooks) /\ Len(counted[t]) <= 2
      <3>1. CASE pc[t] = "after"
        <4>1. Len(hooks) = 3
          BY <3>1 DEF BusyIsServing, Assembled, AppHooks
        <4>2. hook[t] \in 0..3
          BY DEF RequestTypes
        <4>3. RecordedOf(t)
          BY <3>1 DEF Recorded
        <4>4. Len(counted[t]) \in {0, 1, 2}
          BY <4>2, <4>3 DEF RecordedOf
        <4>5. hook[t] \in 0..Len(hooks)
          BY <4>1, <4>2
        <4>6. \A n \in {0, 1, 2} : n <= 2
          OBVIOUS
        <4> QED
          BY <4>4, <4>5, <4>6, Zenon
      <3>2. CASE pc[t] # "after"
        <4>1. hook[t] = 0 /\ Len(counted[t]) = 0
          BY <3>2 DEF Unanswered
        <4>2. Len(hooks) \in Nat
          BY DEF Assembled
        <4> QED
          BY <4>1, <4>2
      <3> QED
        BY <3>1, <3>2
    <2> QED
      BY <2>1 DEF TypeOK, Loaded, Phases, RequestTypes, Contexts, PCs, Registries
  <1> QED
    BY <1>1, RegistryInvHolds, PTL
=============================================================================
