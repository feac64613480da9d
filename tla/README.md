# oauthclientbridge: specifications, model checking and proofs

oauthclientbridge lets programs that can only do the OAuth2 *client
credentials* flow use a provider that insists on *authorization code*. A user
visits the bridge in a browser, consents at the provider, and is shown a client
id and a client secret. The bridge keeps the provider's refresh token in an
SQLite row, encrypted under that secret. When the program later posts its id
and secret to `/token`, the bridge refreshes the grant upstream and passes the
access token on.

The program is small, and almost everything it can get wrong lies in the order
of things: several WSGI threads and processes read a row, talk to a slow and
unreliable provider, and write the row back; tabs of a browser share one
session cookie; a retry may follow a request that did arrive; writers wait for
one lock; a background thread coalesces requests it must not lose; threads keep
their logging context from one request to the next. The modules here are about
that.

Paths below are relative to `src/oauthclientbridge/` in the repository.

## 1. Inventory

| Part | State | Operations | Talks to |
|---|---|---|---|
| Token endpoint, `views.py` `token()` | none of its own; the row and the provider's answer, in locals of the handler | validate request, look up row, decrypt, `fetch()`, revoke row or store the new token, respond | tokens table, `fetch()`, metrics worker |
| Authorization flow, `views.py` `authorize()`, `callback()` | session cookie in the browser: `state`, `client_state` | begin a flow, check the callback's `state`, exchange the code, insert the row, show credentials | browser, provider, `fetch()`, tokens table |
| Fetch, `oauth/_core.py` `fetch()`, `_fetch()`, `oauth/_retry.py`, `utils/bucket.py` | per process: a cached `Bucket`, the retry budget; per call: deadline, attempt, Retry-After, result | refill the budget, retry loop with backoff, jitter and deadline, classify answers | provider |
| Outcome, `oauth/_outcome.py`, `errors.py` | none | retryable or final, normalized error, may the token be dropped, HTTP status | used by all of the above |
| Tokens table, `db.py`, `schema.sql`, `utils/time.py` | rows `client_id -> token` (encrypted, or NULL once revoked), `created_at`, `last_updated_at`; per application context: one connection | `insert`, `lookup`, `update`, `token_state_counts`, `initialize`, `upgrade`, `vacuum`, `cursor`, `close` | SQLite in WAL mode |
| Encryption, `crypto.py` | none | `dumps`, `loads`: a record only decrypts under its own key | |
| Metrics refresh, `utils/coalescing.py`, `telemetry/_refresh.py`, started in `wsgi.py` | per process: `_generation`, `_handled_generation`, `_stopped`, a condition, a thread; shared: the gauge | `start`, `request`, `stop`, `_run` | handlers call it after each write; it counts rows and sets the gauge |
| Schema upgrade and rollout, `db.py` `upgrade()`, `deploy/upgrade.sh` in the repository's root | columns of the table; the tag `:latest`, the drop-in, the generated unit and the running image of each instance | add columns; pull, write the drop-in, migrate, reload, restart, verify | podman, systemd, the services |
| Process startup, `wsgi.py`, `__init__.py`, `settings.py`, `logs.py`, `telemetry/_sentry.py`, `telemetry/_otel.py` | the loaded settings, what is installed, the exporters, the functions around requests, the refresh worker, the exit hook | load and validate settings, set up logging, Sentry, instruments and providers, create the application, start and stop services | environment, database, supervisor |
| Request lifecycle, `__init__.py`, `logs.py`, `client.py`, `oauth/_core.py` error handlers, `telemetry/_prometheus.py` | per thread: the structlog context; per process: the registry of `/metrics` | functions before and after the view, checks of a request to `/token`, error handlers, access log, scrape | every view |
| URI helpers, templates, span attributes | none | formatting | |

What makes each part correct, and what is hard about it:

* **Token endpoint.** A refresh token is dropped only when the provider has
  really said that it is dead, and a client is told `invalid_grant` (upon which
  it throws its credentials away) only then. A token the provider issued is
  kept. Hard: between `db.lookup()` and `db.update()` there is a network call
  of up to `total_timeout` seconds, other handlers refresh the same row
  meanwhile, and neither UPDATE is conditional on what was read.
* **Authorization flow.** Credentials are shown to the browser that began the
  flow, belong to a stored row, and stand for one redeemed code. Hard: the
  session holds a single `state` for all tabs, and the cookie a request carries
  is the one of the moment it was sent, not of the moment it is handled.
* **Fetch.** It ends, sends at most `total_retries + 1` requests, none after
  the deadline or before Retry-After has passed (a date may be undercut by less
  than a second), and admits no more retries than the process's budget. A
  retryable answer's body never reaches the caller. Hard: threads share the
  budget, the remaining time is computed before the sleep, and `lru_cache` does
  not lock the creation of the budget.
* **Metrics refresh.** No write and no wakeup is missed, no refresh starts
  after `stop()`, the gauge eventually tells the truth. Hard: requests during
  the debounce and during a refresh are coalesced; processes share the gauge.
* **Tokens table.** Each function of `db.py` takes effect at one moment or not
  at all, whatever other contexts do, never leaves the write lock behind, and
  ends. Hard: a commit that fails raises outside the `except` that rolls back;
  ids may collide; the timestamp is taken before the writer waits for its turn.
* **Process startup.** A process serves only when it is complete, and does so
  once its environment and its database allow it, whatever it met on earlier
  starts. Hard: ten steps, each of which may find something missing.
* **Request lifecycle.** A line of the access log is about its own request, and
  metrics, log and response agree. Hard: the logging context belongs to the
  thread; Flask runs the functions after a view in reverse order, and again on
  the 500 page when one of them fails; two first scrapes build the registry
  without a lock.
* **Rollout.** A service is restarted with a release only after its database
  has the columns that release uses, and a rollout that stopped halfway can be
  completed. Hard: `upgrade()` is not a transaction, the script can end between
  any two commands, and systemd starts services by itself.

The full list of hazards, each at its line and with the properties that would
catch it, is `hazards` in `PROJECT.json`.

## 2. Modules

| Module | Models | Extends |
|---|---|---|
| `OAuthOutcome` | classification of answers, pure operators | |
| `TokenEndpoint` | `token()`, the rows it works on, the provider | `OAuthOutcome` |
| `TokensTable` | what `db.py` promises its callers: an atomic table (abstract) | |
| `Database` | `db.py` on SQLite: contexts, connections, the lock, the clock | implements `TokensTable` |
| `FetchSpec` | what `fetch()` promises its callers (abstract) | `OAuthOutcome` |
| `Fetch` | the retry loop, the budget, time | `OAuthOutcome`; implements `FetchSpec` |
| `FetchTelemetry` | what `fetch()` counts and reports of its retries | `Fetch` |
| `AuthorizeFlow` | `authorize()`, `callback()`, cookies, tabs | `OAuthOutcome`; composes `FetchSpec` |
| `MetricsRefresh` | the coalescing worker and its callers | |
| `Startup` | settings, `wsgi.py`, restarts | |
| `RequestHooks` | what surrounds the views of a serving process | `Startup`, `OAuthOutcome` |
| `Rollout` | `deploy/upgrade.sh`, `db.upgrade()`, the services of a host | |
| `MC...` | constants, symmetry sets for TLC | the module of that name |
| `...Proofs` | theorems and proofs | the module of that name, `TLAPS` |

`PROJECT.json` maps every definition to the lines it stands for. Definitions
whose comment begins with "Mutant:" are not part of any specification. Each is
a plausible wrong version of the definition that follows it; with it in place
TLC finds the property it is listed with violated, so that no property holds
whatever the code does.

### OAuthOutcome

A response body is reduced to the three things the code tests: its `error`,
whether it carries a usable token, and its `refresh_token`. Settings that
decide (`retry_status_codes`, `unavailable_status_codes`, `error_types`) are
constants. `token_endpoint_outcome` is the function of that name;
`fetch_result` is what `fetch()` hands on; `view_outcome` is the second
classification in `token()`, which no longer knows the status and assumes 400
for every body that has an error.

### TokenEndpoint

`db` maps client ids to no row, a revoked row, or a record encrypted under a
key. A record holds a refresh token and whether it has fields that this release
would scrub (access token, expiry), as rows of older releases do. Refresh
tokens of a grant are numbered in the order the provider issues them. `live`
and `newest` are the provider's view of a grant; `stray` holds requests whose
sender has given up and that may still arrive. Each worker serves one request
at a time:

| Actions | Code |
|---|---|
| `Reject`, `UnknownClient`, `ServeRevoked`, `WrongSecret`, `ServeStored`, `LookupFails` | the early returns of `token()` |
| `BeginRefresh` | the row is read and decrypted; from here on the handler works on a copy |
| `Send`, `GiveUp`, `Receive`, `Raise` | `fetch()`; when it gives up is left open, `Fetch` is the detailed account |
| `Grant`, `Refuse`, `Disturb`, `Contradict`, `TimeOut`, `StrayGranted`, `UserRevokes` | provider and user (external) |
| `RevokeGrant`, `RefreshError`, `InvalidResponse` | error branches after `fetch()` |
| `StoreAndRespond`, `Respond` | success, with and without a write |
| `UpdateFails`, `Crash` | the write raises; the process dies |
| `Insert` | `callback()` stores a new grant |

A database statement is one step here and in `AuthorizeFlow`. `Database`
justifies it: each call of `db.py` is shown to be atomic in the sense of
`TokensTable`, of which `lookup`, `update` and `insert` are the calls used. The
metrics request that follows a write is `MetricsRefresh`'s subject, the checks
that `Reject` sums up are `RequestHooks`'.

### TokensTable and Database

`TokensTable` says that a call begins, has its whole effect in one step or
fails without any, and that an insert never replaces a row. `Database` is how
`db.py` achieves it. A context (a request to `/token` or `/callback`, a refresh
of the metrics, a CLI command) performs operations, and each goes through

| Actions | Code |
|---|---|
| `Lookup`, `Update`, `Insert`, `Operate` | the functions of `db.py` up to `cursor()`; writers take their timestamp here |
| `Get`, `ConnectFails` | `get()`, `_connect()` and its pragmas |
| `Read` | one SELECT, on the last committed state |
| `Execute`, `Busy`, `NoSuchTable`, `StatementFails` | the statement: it gets SQLite's write lock, or waits for it until the timeout, or fails |
| `Commit`, `CommitFails`, `Rollback` | the end of `cursor()`; a failing commit is undone by `with source` |
| `Teardown`, `Crash` | `close()`, or the process dies: SQLite drops what was not committed |

What a write changes becomes visible at `Commit`, and the abstract call
succeeds there; `Table` is the instance with this mapping. The clock counts
fractions of a second and `_prepare_timestamp` truncates, so that the order of
timestamps is a question of rounding as well as of waiting. The counts of
`token_state_counts()` are the sets of ids counted. SQLite is external: WAL
mode, a single writer, a busy timeout.

### FetchSpec and Fetch

`FetchSpec` says what callers rely on: a bounded number of requests, none after
a final answer, and a result that is the provider's body only if that answer
was final. `Fetch` models the loop line by line, in ticks, of which `Second`
make a second: every thread has the time left until its deadline (`left`),
until it wakes up (`nap`) and, as history, until the provider's Retry-After has
really passed (`owed`). `parse_retry` keeps a number of seconds as it is and
cuts the time until a date to whole seconds, as `int()` does; what this can
lose is the `leeway` of the wait. `FallAsleep` resets what the sleep was
computed from, which nothing reads again. Time may pass between any two steps,
so waiting for the bucket's lock and waking up late are covered; the last look
at the clock and the request it allows are one step (`SendNow`, `WakeAndSend`),
so a thread interrupted between these two is not. Bucket tokens are counted in
fractions (`Unit` of them make one), as `retry_budget_refill_per_initial` is a
fraction. A delay multiplied by a random jitter is every number of ticks
between the rounded bounds. `LimiterMiss` and `LimiterCache` are separate since
`lru_cache` runs the function without a lock: two first calls make two buckets,
and a bucket is named after the thread that made it.

### FetchTelemetry

Every step of `Fetch` as it is, together with what the step records: attempts,
attempts of kind "retry", decisions to skip a retry, and, as history, the
retryable answers. It shows that the numbers agree with what was sent.

### AuthorizeFlow

A flow is a call of `authorize()` that redirected, and its number also stands
for the random `state`. `cookie` is per browser; a request carries the copy it
was sent with (`sent`), and the cookie changes when a response arrives.
Callback URIs may be opened again, in any tab and any browser. The exchange of
the code is the instance `Exchange` of `FetchSpec`, whose actions are conjoined
with what the provider does with the one-time code. The handler and the tab
that waits for it share a program counter: a browser cancels what it no longer
waits for, and `Lose` is the response that never arrives.

### MetricsRefresh

The table is the number of writes committed so far, and the gauge the number of
writes its value accounts for. Handlers commit (`Commit`) and then, as a
separate step, call `request_refresh()` (`Request`); a crash may fall in
between. `Check` is `wait_for()`, which evaluates its predicate and begins to
wait under the lock; `notified` is the condition variable. `Read` and
`SetGauge` are separate, since the rows are counted on one connection and the
gauge is set afterwards.

### Startup and RequestHooks

`Startup` is `wsgi.py` line by line: one action per call it makes, each of
which installs something or raises. An environment is a record of what the
settings classes distinguish (variables that are unset, classes that find a
value they cannot parse, and the options other code looks at), and each class
of `settings.py` is a predicate on it. A process that raises, stops or dies is
started again; the operator may edit the environment and run `initdb` at any
time.

`RequestHooks` adds the threads of a serving process. A request is received and
the context cleared (`BeforeRequest`); a view answers; then the functions that
`create_app()` registered run one at a time in reverse order, and `Send` ends
the request. `token` follows the checks of `token()` in their order
(`request_error`, `credentials`, `validate_credentials`); what comes after them
may end in any way, as `TokenEndpoint` says which. A client that leaves before
its body is complete makes `get_data()` raise: in the view that is a 400
(`FormLost`), in the access log an exception in the middle of the functions
after the view (`LogFails`). Threads that find no registry for `/metrics` make,
fill and publish one each (`MakeRegistry`, `FillRegistry`, `PublishRegistry`).

### Rollout

There is an old and a new release, and the new one needs two more columns. The
script is a process with a program counter, one label per command that changes
the host, and it is called again and again in any mode and for any set of
instances. With `set -e` a failing command ends it (`Abort`), and what it did
so far stays: `tee` truncates a drop-in before it writes it, an upgradedb
container outlives a script that is interrupted, and its name then blocks the
next one. It does not block an `upgradedb` that the operator runs by hand
(`UpgradeByHand`): a column added by that one makes the container fail if it
had found it missing. The container goes through the columns one by one
(`Alter`): it looks once at what is there, and each ALTER TABLE commits by
itself, as connections have no isolation level. podman and systemd are
external: a tag is looked up when a service starts (`Resolve`), units are
generated from quadlet and drop-in at a reload or reboot (`Generated`), and a
service that is down is started again.

## 3. What TLC checks

| Run | Result | Shows |
|---|---|---|
| `refresh_static` | holds | two workers, a provider that keeps its refresh token, contradictory 503s, timeouts, crashes, rows of old releases: `RevokedIsDead`, `InvalidGrantMeansDead`, `RowsKeepTheirKey`, `RetryableIsUnavailable`, `RevokedOnlyOn400`, `RevivedOnlyByScrub`, and under fairness `RequestsEnd` |
| `refresh_rotating` | holds | a provider that rotates, echoes or omits the refresh token, rows of this release: `NeverGoesBack`, `IssuedTokenIsKept` |
| `fetch_loop` | holds | two threads, a budget of two retries: `RetriesWithinBudget`, `EveryRetryIsPaid`, `NothingSentAfterDeadline`, `RetryAfterIsFloor`, `RetriesCountedWereSent`, `EveryRefusalIsDecided`, `KeepsPromise` (`Fetch` implements `FetchSpec`), under fairness `FetchEnds` |
| `authorize_tabs` | holds | two tabs of one browser or of two: `OwnFlow`, `ShownIsStored`, `OneRowPerCode`, `SpentStateIsGone` |
| `metrics_worker` | holds | a process with failing refreshes, stops, crashes and restarts: `NoWriteMissed`, `NoWakeupLost`, `StoppedStartsNothing`, and under fairness `KeptFresh` |
| `database` | holds | two contexts, any operations, connections, statements and commits that fail, collisions, crashes: `NoLockLeftBehind`, `TimestampsInOrder`, `Atomic` (`Database` implements `TokensTable`), and under fairness `OperationEnds` |
| `process` | holds | a process that is started with valid and invalid environments, stopped, started again, and serves two threads: `ServingIsReady`, `LogNamesOwnClient`, `RecordedAsSent`, `ScrapeIsComplete`, and under fairness `EventuallyServes` |
| `rollout` | holds | two instances, every mode, two disturbances anywhere (a failure, a crash, a reboot, a column added by hand): `UpgradedBeforeRestart`, and under fairness `RolloutCompletes` |
| `status_lost` | violated | `RevokedOnlyOn400`: see finding 1 |
| `stale_revocation` | violated | `DropsOnlyDeadTokens`: see finding 2 |
| `metrics_shared` | violated | `KeptFresh`: see finding 3 |
| `rollout_early` | violated | `NewReleaseFindsItsColumns`: see finding 4 |

Each property is stated in words above its definition. The `TypeOK` of
`TokenEndpoint`, `Database` and `MetricsRefresh` is proved and not part of a
run; elsewhere it is both. Two pairs of runs check the same property under two
configurations: it holds in the one, and the other shows the circumstance that
breaks it (a status other than 400, a second process). `stale_revocation` does
the same for rotation: without it `RevokedIsDead` holds, which says more. They
mark the edges of what the code guarantees. Another edge is found by changing
one constant: with `BackoffFactor = 0` in `fetch_loop.cfg` `EveryRetryIsPaid`,
`RetriesCountedWereSent` and `EveryRefusalIsDecided` are violated, since a
delay of 0 skips the budget and the decision that counts the retry
(`_core.py:210`).

Where the bridge may legitimately stop deadlock checking is off: only in
`MetricsRefresh`, once the bounds on writes and exits are used up.

### Bounds

* Two workers, threads, contexts, tabs or processes (one process in
  `metrics_worker`, where the second is what `metrics_shared` is about): the
  races are between one step of a handler and one of another. Further handlers
  in `TokenEndpoint` interact only through the row and the grant, and one other
  can make every change to them. Every property of a passing run that is not a
  liveness property is also proved for any number of them (section 4).
* One client in `TokenEndpoint`, with two secrets: handlers of different
  clients touch different rows and grants, and a wrong secret must exist.
* `TotalRetries` 1 (2 in `Fetch`): a first attempt, a retry, and the end of the
  loop. 2 are needed for two different backoff delays.
* `MaxRefresh` 3 in `refresh_rotating`: a stale worker can be two rotations
  behind. 2 suffice for the violation in `stale_revocation`.
* `Second` 2, `TotalTimeout` 3, `BackoffFactor` 1: backoffs of 1 and 3 ticks,
  so that a delay can fit, just fit, and not fit, jittered by 50% to 150%.
  Retry-After is one second, or a date: past, half a second ahead (which
  becomes 0, so that the backoff applies) or one and a half (which becomes
  one). In the last two cases TLC reaches requests half a second before the
  date, so the exception in `RetryAfterIsFloor` is needed.
* `Capacity` 2, `Refill` half a token, two calls of `fetch()`: one call can use
  all of its retries, and the other then finds the budget empty but for a
  fraction; refilling is clamped at first and not later.
* `MaxFlows` 2: a flow and the one that overtakes it.
* `MaxWrites` 2 or 3: a write before, during and after a count.
* `Database`: two ids, so that contexts may or may not meet on a row; one token
  besides NULL, as contents are never compared; `Fraction` 2 and `MaxClock` 2:
  the second changes once, and half of it may pass between the look at the
  clock and the write.
* `process`: three valid environments (with a registry of several processes,
  with everything switched on and Sentry's SDK missing, with metrics disabled),
  one for each way to be invalid, one edit and one exit, so that a process can
  fail, be repaired, serve, and start again; ten requests: to `/token` with
  credentials in the form, in the header, in both, with a malformed id or the
  wrong grant type, to the other views, and some that are not read to the end.
  Handlers of different threads share only the registry, which two threads can
  race for.
* `Rollout`: two instances, as a command for one may change what the other
  starts with (the pull and the reload do); two disturbances, as one may
  interrupt the recovery from another. A column added by hand counts as one.
* Statuses: a retryable one (503), one that is unavailable and not retried
  (429, only in the settings), a success, 400 and 401. Error codes: one that
  `error_types` translates (`refresh_rotating`, `fetch_loop`), one that passes
  through (`refresh_static`).

### Fairness

Liveness is claimed under weak fairness, but for one condition of `Rollout`,
and only of what the code or its environment guarantees. `TokenEndpoint`: a
running handler keeps running, and every request to the provider ends.
`requests` is always called with the remaining time as its timeout, which
bounds the connection and each wait for data, not the whole request: of a
provider that keeps sending a little it is assumed that it comes to an end.
Nothing is assumed about new requests, about what the provider answers, or
about crashes. `Fetch`: threads are scheduled, time passes, and requests end in
the same sense. `MetricsRefresh`: the worker thread runs, a handler that
committed reaches its next line unless the process dies, a stopped process
exits (`join` has a timeout), and a process that is gone is started again by
its supervisor. A failed refresh is logged and not repeated until the next
request, which `NoWriteMissed` and `KeptFresh` state as their exception.
`Database`: a thread inside an operation goes on, and its wait for the lock
ends with the timeout of its connection; no error of the disk is needed to end
it, and nobody has to begin or leave anything. `RequestHooks`: a process is
loaded and, when it is gone, started again (uWSGI's master), and handlers run;
nobody has to send requests, edit the environment or run `initdb`. `Rollout`:
commands end, systemd starts services again, and an operator who can begin a
rollout of all instances again and again does (strong fairness of that one
call: other calls of the script may come in between).

## 4. What is proved

Every invariant and every action property that a passing run checks, and both
refinements, are also theorems: TLC shows them for the instance of the run, the
proof for every value of the constants that satisfies the named assumptions.
TLC evaluates the assumptions in the runs. They are

* about types: numbers are naturals, placeholders such as `NoRow` are not
  members of the sets they stand beside, a second has at least one tick,
  `RetryAfters` holds naturals (seconds) and integers (the distances to dates,
  which may be past), `error_types` translates to OAuth errors, the components
  a settings class accepts are "tracing" and "metrics", an id in a request is a
  client's, absent or malformed (`OutcomeAssumption`,
  `TokenEndpointAssumption`, `FetchAssumption`, `MetricsAssumption`,
  `DatabaseAssumption`, `StartupAssumption`, `RequestAssumption`,
  `RolloutAssumption`, `AuthorizeFlowAssumption`);
* about settings: none of the listed error codes is translated to
  `invalid_grant` (`TokenEndpointAssumption`). `error_types` could be set that
  way; then any such error would revoke, as it asks for;
* about the provider: an answer among the `Troubles` of `AuthorizeFlow` is
  retryable, an error, or carries no token, for a final answer with a token is
  the other case there;
* `PowersOfTwo`, a fact of arithmetic (`2^i` is an integer above 1 for `i >=
  1`), as the provers do not know exponentiation.

Some theorems have a hypothesis of their own. Each is needed: without it TLC
finds the property violated.

| Hypothesis | Says | Without it |
|---|---|---|
| `HonestDenials` | the provider claims `invalid_grant` wrongly at most with a retryable status | `status_lost` |
| `NoRotation` | the provider never replaces a refresh token | the row that `stale_revocation` loses comes back with the token of the faster worker |
| `HonestProvider` | both | `status_lost`, `stale_revocation` |
| `~LegacyRows` | no row of an older release has fields to scrub | the scrub of a stale copy overwrites a newer token (section 5) |
| `UnavailableStands` | `error_types` does not translate `temporarily_unavailable` | a retryable answer becomes what it is translated to |
| `BackoffFactor > 0` | retries are delayed, as by default (0.1) | retries that bypass the budget and are not counted (section 3) |

No theorem about a refresh needs fairness, a bound on retries, or an assumption
about when requests are lost, delayed or processed twice.

An invariant of a run is rarely inductive. What had to be added is where the
argument is, and what a change of the code has to preserve. TLC has checked
each of these inductive invariants on the instance of the run before it was
proved.

### The token endpoint (`TokenEndpointProofs`)

* `TypeCorrect`, `Spec => []TypeOK`; it is a conjunct of all that follows.
* `RevocationIsSound` and `DenialIsSound`, under `HonestProvider`:
  `RevokedIsDead` and `InvalidGrantMeansDead`. A worker may revoke a row
  because of a denial it got long ago. `GrantInv` therefore adds
  `DenialIsEvidence`, that any denial a worker carries (in its answer, unless
  retryable, or in its result) is about a grant that is gone, which is stable
  as a withdrawn grant never comes back; and `OneToken`, that there is one
  refresh token per grant, so that a refusal cannot be due to a stale one.
* `RevokedStaysRevoked` (`RevivedOnlyByScrub`), under `NoRotation`: with one
  token per grant (`OneToken`) the only difference a write can make is the
  scrub.
* `TokensOnlyGetNewer` (`NeverGoesBack`) and `IssuedTokensAreStored`
  (`IssuedTokenIsKept`), without rows of old releases, for a provider that
  rotates as it likes. `RotationInv` explains why an unconditional UPDATE with
  a stale copy does no harm here: a new refresh token is known to a single
  worker until it is stored (`Secret`), so nobody can make the provider replace
  it in the meantime and no second worker can hold another; and whatever a
  worker read is at most as new as the row (`InOrder`, `Bound`), so it has
  something to write only if it holds that token. A delayed request that
  rotates loses its token for all, and then nobody has a newer one. A rotated
  grant can still be revoked by mistake (`stale_revocation`), which is another
  property.
* `OnlyA400Revokes` (`RevokedOnlyOn400`), under `HonestDenials`, and
  `RetryableComesBackLater` (`RetryableIsUnavailable`), under
  `UnavailableStands`. `JudgedInv` ties what `token()` judges, the result, to
  what the provider answered last: after a first request the result is
  `fetch_result` of that answer, and before it the placeholder `server_error`.
* `ClientsKeepTheirKey` (`RowsKeepTheirKey`), without hypothesis: a worker past
  the lookup has the secret of its client, since only that decrypts the row
  (`KeyInv`).

### The authorization flow (`AuthorizeFlowProofs`)

`CredentialsAreOwn`, `CredentialsAreStored`, `CodesAreUsedOnce`,
`StatesAreSpent` and `TypeCorrect` rest on one invariant, `FlowInv`, since each
needs the others: a session is empty or for a flow of its own browser
(`Sessions`); while its redirect is under way a flow's state is known to its
tab alone (`Pending`); a callback whose request came without its state does not
find it in the cookie later (`NotAgain`); an exchange runs in the session of
its own flow (`Calls`); a token that was received and not stored is the only
one of its code, and its flow has no row (`Tokens`). The steps of the exchange
are those of the instance of `FetchSpec`, and are used in the proof as such.

### Fetch (`FetchProofs`, `FetchTelemetryProofs`)

* `FetchImplementsSpec`: `Spec => KeepsPromise`. `LoopInv` says that a retry is
  only planned while attempts are left; `Simulation` shows that each step of
  the loop is a step of `FetchSpec` or leaves its variables alone.
* `BudgetIsKept`: `RetriesWithinBudget` for any number of threads. `BudgetInv`
  adds that whoever is in the loop holds a bucket and that nobody is in it
  before a bucket is cached, so that a bucket in use is never created again and
  thereby filled up. The unlocked `lru_cache` is thus harmless per bucket; the
  process as a whole may use one budget per thread that raced in its first
  calls.
* `DeadlineIsKept` and `RetryAfterIsHonoured`, two action properties, from
  `CallInv`. The first needs that a request is sent after a look at the clock
  and not on a plan made before a sleep; what happens between that look and the
  request is outside the model. In the second `WaitingOf` follows a
  Retry-After: but for its leeway, what is left of it is covered by the planned
  delay, then by what is left of the sleep. Jitter cannot undercut it, since it
  is applied before the maximum with Retry-After is taken. The leeway is 0 for
  a number of seconds and less than a second for a date: `Truncation` bounds
  what `int()` drops, for any number of ticks in a second.
* `RetriesArePaid`: with a positive backoff only a first attempt has no delay,
  and what has a delay is paid for (`PaidInv`).
* `TypeCorrect`: the bound on how often a bucket is refilled is the number of
  calls less those that have not yet refilled one, a cardinality (`RefillInv`).
* `RetryCountIsExact`, `RefusalsAreDecided`: `TallyInv` says at each point of
  the loop how the counters relate to the attempts made.

### The metrics worker (`MetricsRefreshProofs`)

`WorkerMissesNothing` (`NoWriteMissed`) and `WakeupsArrive` (`NoWakeupLost`)
for any number of processes, writes, failures and restarts. `Covered` is the
argument: the last write of a process has been counted, or a request is still
to come, or one is not yet handled, or a count is about to start, or the last
refresh failed. `StopIsFinal` (`StoppedStartsNothing`): only `Claim` leads to a
count, and it looks for `stop()` under the lock that `stop()` takes.
`TypeCorrect` needs `Bounds`, which counts the requests a process has made and
owes against the writes.

### The tokens table (`DatabaseProofs`)

`DatabaseIsAtomic`: `Spec => Atomic`, `Database` implements `TokensTable`; with
`LocksAreReleased` and `TimestampsAreInOrder`, for any number of contexts, ids
and tokens and any clock. They rest on one invariant, `TypeOK` and three parts.
`Locking` says that the lock belongs to exactly the one writer that is between
statement and commit, and that the row of an insert is still missing when it
commits: it was when the lock was taken, and nobody else could write since.
`Calling` ties the operation to where its context is. `Timing` adds to
`TimestampsInOrder` that a pending timestamp is not after the clock and that
the row of a pending update exists and was created no later: it was looked up
first, rows are never deleted, and truncation is monotone (`Truncation`).
Without it an update that waits while its row is replaced could not be ruled
out. `StepIsAtomic` then takes each action to a step of `TokensTable` or a
stutter; the interesting case is `Commit`.

### Startup and requests (`RequestHooksProofs`)

* `ServingProcessIsReady`: `Loaded` and `Assembled` say for each line of
  `wsgi.py` what has been installed before it, whatever earlier starts, edits
  and exits left behind.
* `LogIsOwn` and `ResponsesAreRecorded`: before its view a request has a clean
  context and nothing recorded (`Unanswered`); from the view on the context of
  the thread is the request's (`Identified`); and the number of functions left
  to run tells what has been counted, marked and logged (`RecordedOf`), where a
  body that was not read to its end may restart the sequence once.
* `ScrapesAreComplete`: what is published or in use is filled, and once one
  registry is published no thread makes another (`Registries`). No lock is
  needed for that.
* `TypeCorrect`.

### Rollout (`RolloutProofs`)

`UpgradesComeFirst` (`UpgradedBeforeRestart`) and `TypeCorrect`. A container
may outlive the script that started it, so the invariant is about containers
and not about the script: the columns one takes for granted are there, and one
that is at the second column found or added the first (`Migrations`). Columns
are never dropped, so this survives every interruption and every column that
another run adds.

### Only model-checked

Liveness (`RequestsEnd`, `FetchEnds`, `KeptFresh`, `OperationEnds`,
`EventuallyServes`, `RolloutCompletes`): the provers here handle neither
fairness nor ENABLED. The four violations are counterexamples of TLC. Facts
that need induction over data are not attempted, and no module with theorems
uses RECURSIVE operators.

## 5. Findings

1. **The status is lost** (`views.py:252`). `fetch()` returns a body without
   its status, and `token()` judges every error body as a 400. A 200 with
   `{"error": "invalid_grant"}` drops the stored token, although the README
   promises that only a 400 does and `oauth_outcome_test.py` expects the
   classifier not to.
2. **Stale revocation** (`views.py:265`). With a rotating provider two
   concurrent refreshes of one grant suffice: the slower is refused for the
   token the faster has just replaced, and sets the row that holds the new
   token to NULL. The same race is behind a late refusal of a retried request.
3. **Shared gauge** (`_prometheus.py:143`). A process that counted first and
   sets last leaves the older count in the gauge until the next write.
4. **Release before migration** (`deploy/upgrade.sh:265`). The pull moves the
   tag `:latest`, which units without a drop-in name, before the migration;
   `--check` moves it too. A service that is started again in between
   (`Restart=always`, a reboot) runs the new release on a database without its
   columns. The same happens at a reboot after a failed migration, since the
   drop-in is already written. The help of `--upgrade` says that the upgrade
   runs before the restart, which holds only of the restart the script itself
   makes (`UpgradedBeforeRestart`).

Observations, which no run refutes:

* A retry may be sent up to a second before an HTTP date in Retry-After, as the
  time until it loses its fraction (`_core.py:477`), and a date less than a
  second away leaves the plain backoff. A comment says that "`Retry-After`
  still acts as a floor when the provider supplies one" (`settings.py:118`),
  which holds exactly of a number of seconds; `RetryAfterIsFloor` states the
  exception. The distance is measured by this host's clock, which is taken to
  agree with the provider's.
* A handler that was granted a token before the user withdrew access, and whose
  row has old fields to scrub, writes its copy over the NULL that another
  handler stored (`views.py:319`). `RevivedOnlyByScrub` says that this is the
  only way, as long as the provider does not rotate refresh tokens. With rows
  of old releases and a rotating provider the same write can also replace a
  newer token by an older one (`NeverGoesBack` is therefore only checked for
  rows of this release).
* `last_updated_at` can go backwards: two updates may commit in another order
  than they looked at the clock. It never goes below `created_at` as long as
  the clock itself does not go back, which the model assumes.
* A retry that is admitted and then wakes up too late is recorded as two
  decisions, to retry and to skip (`_core.py:239`, `245`); as an attempt it is
  not counted.
* A client that leaves before its body is read is counted twice, with the
  status of its response and with the 500 that replaces it; `RecordedAsSent`
  states the exception.

## 6. Not modelled

* Span and resource attributes, labels, buckets, sample rates, the wording of
  logs and pages, and the counters that only restate a response: formatting,
  which nothing reads back. What a single settings field parses to.
* URI rewriting: pure and without state. `models.py`: not imported by the
  program. `pytest_otel_capture` and `pytest_sentry_capture`: support for the
  repository's own tests, not part of the program.
* Session signing, Fernet, SQLite, Flask's dispatch and uWSGI themselves: taken
  to work as the code uses them.
* Key derivation, random ids and states are fresh values; a collision of ids is
  modelled (`InsertFails` in `AuthorizeFlow`, `Conflict` in `Database`).
* The requests session cache, which only decides which connection is used.
* The rollback by hand that the drop-in describes (set `Image=` and restart).

## 7. Plan

Done so far, in this order: outcome, token endpoint, fetch, metrics worker,
authorization flow, rollout, database layer, retry telemetry, startup and
request lifecycle, and theorems about all of them. Next:

1. `TokenEndpoint`'s use of `fetch()` as a refinement of `FetchSpec`, which
   `AuthorizeFlow` has by composition, and its row accesses as one of
   `TokensTable`.
2. What holds at a rotating provider about revocation: the row that is lost in
   `stale_revocation` is the only kind that is.
3. The rollback by hand, with old releases writing to an upgraded table.
4. `rewrite_uri` and `parse_retry` as operators checked against reference
   definitions; Retry-After passed on to clients.

## 8. Running

    tlc -config refresh_static.cfg MCTokenEndpoint
    tlc -config fetch_loop.cfg MCFetch
    tlc -config authorize_tabs.cfg MCAuthorizeFlow
    tlc -config metrics_worker.cfg MCMetricsRefresh
    tlc -config rollout.cfg MCRollout
    tlc -config database.cfg MCDatabase
    tlc -config process.cfg MCRequestHooks
    tlapm TokenEndpointProofs.tla
    tlapm AuthorizeFlowProofs.tla
    tlapm FetchProofs.tla
    tlapm FetchTelemetryProofs.tla
    tlapm MetricsRefreshProofs.tla
    tlapm DatabaseProofs.tla
    tlapm RequestHooksProofs.tla
    tlapm RolloutProofs.tla

The other configurations belong to the module `PROJECT.json` names for them.
