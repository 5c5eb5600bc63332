# A verification development of seo-bot

TLA+ models of the concurrent and stateful parts of the bot, model-checked with
TLC, with the main safety results proved for every value of the constants with
TLAPS. Paths are relative to the repository (`src/...`); line numbers are those
of the commit the models were written from. `PROJECT.json` maps every
definition to the lines it models, and lists the runs, the hazards and where
the code and its documentation disagree.

    tlc -workers 2 -config TaskQueue.cfg MCTaskQueue.tla     # a run
    tlapm TaskQueueProofs.tla                                # a proof module

## 1. How the source is read

The tree does not import as committed. What the models take as repaired in the
evident way is this:

- *Modules and imports*: `config/__init__.py` is empty; `utils.logger`,
  `utils.decorators`, `utils.helpers`, `utils.visualization`, `services.ai` and
  `services.seo_tools` are missing; `main.py` imports `register_*_handlers`
  where the handler files define `setup_*_handlers`.
- *Exceptions*: `utils/error_handling.py` defines only `SEOBotError`,
  `APILimitExceeded` and `DatabaseError`. `AIProviderError` and
  `InvalidAPIResponse` (`ai_service.py`) and the three handlers `main.py`
  imports are defined nowhere; they are taken as subclasses of `SEOBotError`
  and as functions that send messages.
- *Settings*: `Settings` (`config/settings.py:8-41`) lacks fields that the
  modelled code reads. Taken as set: `TASK_QUEUE_WORKERS` (`Workers`), `DB_ECHO`,
  `DB_ECHO_POOL`, `DB_SHOW_PARAMETERS`, `CMS_INTEGRATIONS`, `SEMRUSH_API_KEY`,
  `settings.get` (`competition.py:121-122`), and of `main.py:104-110`
  `READ_TIMEOUT`, `CONNECT_TIMEOUT`, `POOL_TIMEOUT`, `PROXY_URL`. Without any of
  these the component raises when it is imported or built, and there is nothing
  to model. `DATABASE_URL` is taken to name PostgreSQL; its default is a SQLite
  file.
- *The cache's settings* (`REDIS_HOST`, `REDIS_PORT`, `REDIS_PASSWORD`,
  `REDIS_DB`, `REDIS_RETRY`) are missing too, but there the code goes on:
  `_connect` catches the error and leaves no client, and every decorated call
  goes to its function. `configured` is both cases, that of the tree as
  committed and that of a `Settings` with these fields.
- *Syntax*: three files have an unbalanced parenthesis (`handlers/admin.py`
  near 317, `services/auto_reporter.py` near 318, `services/reporting.py:35-36`).

Whatever the code does at run time beyond that is modelled as it is written,
also when it looks unintended.

Libraries are modelled by what the code can observe of them, and the map marks
these definitions external: `asyncio` futures, tasks and queues, `queue.Queue`
and threads, `tenacity`, the job queue (APScheduler) of python-telegram-bot
with the v13 interface the handlers use (one dispatcher thread runs one handler
at a time, jobs run on other threads), SQLAlchemy 2.0 with psycopg2 on
PostgreSQL, `redis.asyncio`, `httpx`. A library is taken at the interface the
code was written for, also where a current version refuses an argument
(`AsyncHTTPTransport(max_connections=...)`).

The content and competition handlers call methods of `db` that `DatabaseManager`
does not define (`save_competition_query`, `save_content_analysis`); they are
taken as present and may fail at any call, which is what the handlers' own
`except` clauses expect. python-telegram-bot keeps `user_data` in memory (no
persistence is configured): a restart forgets it, while messages on the screen
keep their buttons.

## 2. Inventory

| Component | State it keeps | Operations | Interacts with | What is hard | What makes it correct |
|---|---|---|---|---|---|
| **AI service** `services/ai_service.py` | `provider_status`, `failure_counts`; per call: order, position, attempt | `analyze_content`, retries, the two counting functions, `setup_clients`, `close` | HTTP providers (await); called by handlers and analyses | callers suspended in a provider that another one disables; late answers; retries; cancellation | the two tables agree; failures are bounded; nobody is sent to a disabled provider; each call ends |
| **Task queue** `services/task_queue.py` | `_running`, the queue, a future per task, the consumer threads | `add_task`, the consumer loop, `shutdown` | coroutines await futures set by threads | test-then-put against shutdown; cancelled futures killing consumers; join | a task runs at most once; every queued task is taken while a consumer lives; shutdown returns |
| **Event dispatcher** `services/event_dispatcher.py` | `_running`, `subscribers`, the queue and its unfinished count, the processor task | `subscribe`, `publish`, the processor, `shutdown` | awaits callbacks, which may publish and subscribe | live iteration over a growing list; cancelled callbacks; `join()` against `_running` | order; every event done once and after all its callbacks; `join()` is released at the right moment |
| **Admin handlers** `handlers/admin.py` | `broadcast_lock`, `user_data`, prompts on screens, jobs | start, text, confirm, cancel, `_send_broadcast`; read-only pages; maintenance flag | dispatcher thread and job threads share `user_data` and the lock | old prompts stay clickable; job and handler race; failing sends and edits; misfired jobs | only previewed text is sent; the lock is given back; the conversation's data fits together |
| **Database** `services/database.py` | the connection pool, sessions, rows | `session()`, `get_or_create`, `bulk_insert`, `execute_raw_sql`, `health_check`, `init_db` | threads, PostgreSQL | query-then-insert; a commit inside another unit of work; deadlocks; an exhausted pool; a lost commit answer | answers hold; nothing is lost in silence; connections come back; waiting ends |
| **Cache** `services/cache.py` | the Redis client, the values | `get`/`set`/hash operations, `increment`, the decorator, reconnection, `close` | Redis; used by the user manager | stampedes, slow overwrites, reconnection during `close` | a hit, and what is stored, is what the function returned for a call with that key; an overwritten value does not stay for ever |
| **CMS integration** `services/cms_integration.py` | the HTTP client | article operations through `_request_with_retry`, `close` | a CMS over HTTP | a retried POST was carried out; a redirected POST was not; the client is closed under a call | attempts and executions bounded; success and refusal mean what they say; every call ends |
| **Content, competition, backlink handlers** `handlers/content.py`, `competition.py`, `backlinks.py` | states in `user_data` | menu, tool and action choice, texts, reports | one dispatcher; they share texts and `user_data` | routing order; stale choices; refused buttons; failing replies; a restart | a result is of the analysis chosen last, is saved only when shown, and reaches only whom the routing lets it reach |
| **Bot start-up** `bot/main.py` | registration order | registration, error handler, polling or webhook | all handlers | order of registration decides who gets a text | which handlers are reached in which order |
| **Dynamic configuration** `services/dynamic_config.py` | data, features, mtime | `load_config`, feature tests | a file others write | half-applied reload; modification times going back | features and data belong together |
| **User manager** `services/user_manager.py` | rows behind a cache | `get_user`, `update_user` | cache, database | stale cache entries | - |
| **Automatic reports, reports** `services/auto_reporter.py`, `reporting.py` | dialogue state; cached buffers | generate, mail, send | database, mail | - | - |
| **Health monitor, scheduler, notifications, payments, ML, plugins, files, technical handlers, content analysis, static configuration** | none or one reference | one external call each | external services | failures of that call | - |

`bot/main.py` registers the handlers with one dispatcher. Handlers call the
services; the AI service, the queue and the dispatcher live on the event loop
(the queue also in its consumer threads); broadcast jobs live on job threads.
What these share is modelled: `user_data` and the broadcast lock, the provider
tables, queues and futures, the connection pool and the table rows.

### Components left out, and why

- *User manager, reports, notifications*: their operations enter `db.session()`
  with `async with`; it is a synchronous context manager, so they raise before
  any statement (and `send` returns False). No state is left to model.
- *Automatic reports*: no button leads into the dialogue, and report generation
  is synchronous.
- *Dynamic configuration*: the module uses `List` without importing it, so that
  it cannot be imported and never reloads anything.
- *Content analysis* (`handlers/content_analysis.py`): its setup raises before
  a handler is registered.
- *In modelled files*: the comparison of keywords (`competition.py:336-384`),
  which no update reaches; the saved reports, menus and main-menu pages, which
  change nothing; hashes, counters, `keys`, `exists` and `ttl` of the cache,
  which nothing uses; the statistics and settings pages of `admin.py`.
- *Payments, technical handlers, plugins, external APIs, ML, scheduler, health
  monitor, files, static configuration*: calls to external systems or pure
  functions that keep no state of their own.

## 3. The models

### AIService, CircuitBreaker

State: `status` is `provider_status`, `fails` is `failure_counts`; per caller
`pc`, `order` (`providers_order`), `pos` (the loop's place), `attempt`
(tenacity's) and `outcome`.

All callers share one event loop, and the only suspension inside
`analyze_content` is the await on a provider (line 186 and tenacity's sleeps).
One action is therefore everything between two awaits: `Begin` (105-146)
walks the list to the first enabled provider; `Reply` takes one reply and, by
its kind, is `Succeed`, `Retry`, `Fail`, `Ignore` (a falsy result is skipped
and not counted) or `Reject` (a result without `analysis`: the count is reset
and then raised); `Cancelled` passes `except Exception`. `Walk` is the `for`
loop; a list that is exhausted ends in `RaiseAPILimitExceeded`, which is what
that `raise` really does: the class takes no message, so it is a `TypeError`.

`CircuitBreaker` is the abstract specification: one provider's breaker alone.
`BreakerPerProvider` says that every step of the service is, for each provider,
a step of its breaker or none, under `closed <- status[p], count <- fails[p],
waiting <- InFlight(p)`.

| Property | What it says |
|---|---|
| `BreakerConsistent` (proved) | a provider is disabled exactly while its count is at the threshold or past it, whatever late answers do |
| `FailureBudget` | the count passes the threshold by at most the callers that shared the provider |
| `OutagePermanent` (proved) | there is no half-open state: all providers disabled and nobody in flight lasts for good |
| `ReenabledByLateAnswer` (proved) | only a caller that was waiting already re-enables a provider |
| `BreakerPerProvider` | the refinement; among its steps, that nobody is sent to a disabled provider, after its own failure either |
| `CallMovesForward` (proved) | a call only goes on: it keeps its list, and its next request is the next attempt at the same provider or the first at a later place, whatever others do to the breakers meanwhile |
| `CallsEnd` | every call ends (liveness) |

Bounds: three callers, so that two can be in flight while a third disables the
provider; two providers, one that replies in every way and one that always
fails as the two unimplemented clients do; threshold 2, two attempts; lists
that name a provider twice or name an unknown one. About 33 000 states.
Fairness: a reply to every await. The default HTTP clients carry a timeout
(lines 64-77); for callables given to the constructor it is an assumption.

### TaskQueue, TaskLedger

State: `running`, `queue`, `future[t]`, `caller[t]` (the coroutine in
`add_task`), `worker[w]` and `task[w]` (a consumer thread), `shut` (the thread
in `shutdown`). A task is the call of `add_task` it belongs to.

Queue and future operations are atomic; every other line is a step of its
thread, so the test of `_running` (`CheckRunning`, 40) and the put (`Put`,
43-45) are two actions. `Loop`, `Get`, `GetEmpty`, `Finish` are a turn of the
consumer. `Finish` keeps its cases: a value or an exception for a pending
future; a future its caller cancelled makes `set_result` raise, and
`set_exception` in the handler raise again; `StopIteration` and exceptions
that are no `Exception` leave the loop. In the last three the consumer thread
dies (`"dead"`).

`TaskLedger` is the abstract specification: a task is accepted, started and
answered once or dropped, at most `slots` at a time, and a dropped task takes
its slot with it. `ImplementsLedger` is the refinement.

| Property | What it says |
|---|---|
| `Custody` | a task is on the queue once, or with one consumer, and one that is answered with nobody: no function runs twice |
| `OneConsumerPerDrop` (proved) | each dropped task cost one consumer: `Workers` of them stop the service |
| `LateBound` | after `_running` is cleared, at most one more task per consumer is taken |
| `EveryTaskIsTaken` | while running and with one consumer alive, every queued task is taken (liveness) |
| `NothingRunsAfterShutdown` | once `shutdown()` has returned no function runs, and what is queued, then or later, stays there |
| `ShutdownReturns` | the join ends, since `get` has a timeout (liveness) |

Bounds: two consumers, three tasks (one stays queued at a shutdown), one of
which ends in every way. About 48 000 states. Fairness: consumer threads run
and the functions they are given return. None is assumed of the event loop:
`set_result` from another thread does not wake it.

### EventDispatcher, EventLog

State: `running`, `subscribers`, `queue`, `unfinished` (the count `join()`
waits on), `proc`, `hand` and `idx` (the processor task, its event, the
callbacks it has started), `joiner` (the coroutine in `shutdown`), and the
histories `published`, `done`, `promised`, `late` and `called` (the callbacks
called for the event in hand).

The processor gives the loop up only in `get()` on an empty queue and in a
callback; other coroutines run only then (`Suspended`). `Process` is a turn of
the processor (`Start`, `Loop`, `Wake`, `Call`, `CallbackEnds`, `TaskDone`);
`CallbackCancelled` is a `CancelledError` out of a callback, which neither
handler catches: the only processor is gone (`"dead"`) with an event in hand.
Events are `Event` objects: anything else that is published raises at line 45
and is logged without its `task_done()`, so that a later `join()` would never
return; nothing in the repository publishes one.

`EventLog` is the abstract specification: a log that is appended to and
delivered entry by entry, and a flush that returns only when what was in the
log at its call is delivered. `ImplementsLog` is the refinement, under
`log <- published, delivered <- done, before <- promised`.

| Property | What it says |
|---|---|
| `InOrder` | published = done, then in hand, then queued: none lost, none twice |
| `Accounting` | `join()` counts the events not done, also after failures |
| `ShutdownDrained` (proved) | if `shutdown()` returns, all that was published before is done |
| `AtMostOneLate` | one more event at most after `_running` is cleared |
| `AllCallbacksCalled` | when an event is done every callback subscribed by then has been called for it, also one that another callback subscribed during the delivery |
| `ImplementsLog` | the refinement: what is delivered is a sequence that grows by the next entry of the log, one at a time, and `shutdown()` returns after all that it found |
| `EveryEventDelivered` | while running and with no cancelled callback, every event is delivered (liveness) |
| `ProcessorRests` | after a shutdown the processor comes to rest for good (liveness) |

Bounds: three events of two types, two callbacks, up to two subscriptions per
type: a subscription during a delivery, two events behind the current one, an
event nobody subscribed to. About 80 000 states. Fairness: the loop schedules
the processor and the joiner, callbacks return.

### AdminBroadcast

State: `lock` (`broadcast_lock`), `userData` (the broadcast keys of each
admin's `user_data`), `prompts` (confirmation messages, each clickable until an
edit removes its keyboard), `clicks` (presses not handled yet), `handling` (a
confirmation between `run_once` and its edit), `jobs`.

The dispatcher runs one handler at a time, and every handler but the
confirmation touches shared state once: one action each (`StartBroadcast`,
`ProcessMessage`, `ProcessMessageFails`, `CancelBroadcast`, `AnswerFails`). The
confirmation starts a job (`Confirm`) and then edits the message and resets
the conversation (`Conclude`); the job thread can run in between. Where
`run_once` raises, the lock is set for a job that is `"missed"` from the start. A job is
`JobStart` (reads the text from the *live* dictionary), `JobSend` per user,
`JobReport`, `JobFails` (an exception on the way; `finally` releases the
lock). `JobMissed` is external: APScheduler drops a job it could not start in
time, and then nobody releases the lock.

| Property | What it says |
|---|---|
| `UserDataWhole` | state, text and chat of a conversation fit together, through failed sends and late clicks |
| `LockHasOwner` | a lock that is held belongs to a job that will release it, unless a job was missed or not taken on |
| `JobsFaithful` | what goes out was shown in a prompt to the same admin, and a result is reported only after everyone was tried once |
| `JobsMoveForward` (proved) | everyone gets the text the job found when it started, though the admin writes and confirms another one meanwhile; nobody is taken back from the result |
| `LockReleased` | with no job missed the lock is given back (liveness) |

Bounds: two admins, two texts, two prompts (of one admin or one each), two
jobs (so that they can overlap), one user. About 1.5 million states.
Fairness: the dispatcher finishes its handler, job threads run.

### Database, UnitOfWork

State: `rows` (committed, one table with a unique key), per session `pc`,
`key` (of the `get_or_create` in progress), `pending` (added, not flushed),
`work` (inserted by the open transaction); `conn` (who holds a connection);
histories `added`, `answers`, `result`.

Threads are inside `with db.session()`. `Add` is the thread's own code;
`GetOrCreate`, then `QueryFinds` or `QueryMisses`, then the commit, is
`get_or_create`; `Exit` is the normal end of the body. A commit is a flush,
one `Insert` per pending object, then `Commit`. autoflush is off: the query
does not see what the session itself added. `Conflict` (IntegrityError),
`Deadlock`, `PoolTimeout`, `DatabaseFails` (a failed commit may have been
carried out) all `Raise`: `session()` ends in `DatabaseError`, or the thread
catches what `get_or_create` raised and goes on. `Borrow` and `Return` are
sessions on other tables: they share only the pool. `WaitsFor` and `Deadlock`
are PostgreSQL's. `BodyRaises` covers `bulk_insert` and `execute_raw_sql`,
which SQLAlchemy refuses before any statement: the first passes a keyword
`Session.execute` does not take, the second a plain string.

`UnitOfWork` is the abstract specification: a table that changes only by a
whole unit of new rows, and calls that find a row, publish the unit with theirs
in it, or fail and give the unit up. `ImplementsUnits` is the refinement, under
`table <- rows, unit <- Uncommitted, told <- answers`.

| Property | What it says |
|---|---|
| `AnswersHold` | a row `get_or_create` returned is committed, and only one session is told it created it |
| `NoSilentLoss` | a `with` statement that ended normally has all that its code added in the table, though `get_or_create` commits or rolls back half-way |
| `ConnectionsKept` | the pool is not overdrawn, ended sessions hold nothing, uncommitted rows belong to a session with a connection |
| `ImplementsUnits` | the refinement: flushes, waiting and failures do not show; "created" is said in the very step that publishes the row, and a unit is published whole, once, or given up whole, also when the answer of its commit is lost |
| `CallsEnd` | waiting for a connection and waiting for another's row both end (liveness) |

Bounds: two sessions and two keys (opposite orders, so a deadlock can
happen), two calls each (so one `get_or_create` commits an earlier `add`), two
connections and one outside session (so the pool can be empty). About 66 000
states. Fairness: the database and the pool answer, with their timeouts;
nothing is assumed of the threads' own code, which may keep a connection for
ever.

### Bot, Competition, Content, Dialogue

`Competition` is `handlers/competition.py`, and once more, as `Backlinks`,
`handlers/backlinks.py`: the files are equal and so are the commands, patterns
and `user_data` keys. State: `action` and `state` (`competition_action`,
`competition_state`), and as histories what each user has seen (`reports`,
`charts`) and what `db` has saved (`history`). `Content` is
`handlers/content.py`: `tool` (`content_tool`), `analyses`, `records`.

A handler is one action: the dispatcher thread runs one at a time. Inside, each
reply, edit and query can fail, also after it took effect; what is left of that
is which entries a handler leaves behind (`RejectText`, `RejectAction`,
`Analyse`) and what was shown and saved (`SaveReport`, `SendAnalysisResult`).
`TooLong` are the domains whose buttons Telegram refuses: a summary is not shown
at all then, and a full report is shown and never saved. `BeforeColon` is what
`split(":")[1]` gets back from a chart's button: `validate_domain` accepts either
scheme and any path (lines 102-109), so the chart of a URL is of "https" or
"http", and that of a page with a colon in its path is of another page.

`Bot` composes them under the dispatcher of `bot/main.py`: `Gets` picks the
first registered feature that takes an update, and `order` is any of `Orders`,
the one of `main.py` included, in which the admin handlers take every text.
`Restart` forgets the entries of `user_data`; messages and saved results stay.

`Dialogue` is the abstract specification of both features: choose, be answered
with results of the last choice, be forgotten.

| Property | What it says |
|---|---|
| `KeepsDialogues` | both features implement `Dialogue`: a result is of the analysis chosen last and is saved only when it was shown |
| `StateFitsAction` | `PROCESSING` stays behind only with an action that uses no domain; a waiting state names the input of the chosen action |
| `OnlyReachable` | only readability results are ever shown (`content.py:110`); a feature shows results only where no earlier one takes its texts (`main.py:31`); what is in the history was shown and all its messages accepted (`competition.py:281`); a chart answers a summary the user saw, by what its button kept of the domain (`competition.py:172`) |

Bounds: two users; a page, another one whose name goes on with a colon, a URL
and an overlong domain; a text too short and one long enough for readability;
four orders of registration: that of `main.py`, the same without the admin
handlers, both copies alone, and the competition analysis before the content
analysis; two results at a time (`MaxResults`), so that a second choice can
follow a result. The users are symmetric. About 650 000
states. No liveness: users need not do anything.

### Cache, CMSClient

`Cache` is the decorator of `services/cache.py` with what it calls. State:
`redis` (whether a client is set), `configured` (whether the settings let
`_connect` make one), `closing`, `store` (what `get` would return), per caller
`at`, `call`, `value`, and `source`, the version of what the decorated functions
read; `computed` is the history of what they returned. `keyOf` is the key of
each call, chosen once from `KeyMaps`: `func.__name__`, a prefix and the ignored
and excluded arguments can give two calls one key (`cache.py:239-268`). One
action is what runs between two awaits: `BeginCall`, then `Hit` or `Miss`, then
`Read` and `FunctionReturns` or `FunctionRaises`, then `SetReturns`; without a
client `DirectReturns`. Failures of Redis are swallowed by `get` and `set`;
`get` then connects again, also after `close()`.

`CMSClient` is `_request_with_retry` under the public methods and `close()`.
State: `client`, per call `pc`, `attempt`, `answer`, and of the server `sent`,
`late`, `served`. What the server does with a request (`CarriedOut`, `Arrived`
and later `Late`, or nothing) and what the client hears of it are independent
after a timeout, a 5xx answer or a broken connection. `moved` says that the
endpoint redirects: `follow_redirects` then repeats a POST as a GET, and the
POST was not carried out, or it was before a 303 answered it. Apart from that a
3xx or 4xx answer means that the server did nothing: an assumption on the CMS.

`MCServices` checks them in one run. They share no state, so a behaviour takes
the steps of one, chosen by `focus`, while the other stays in one initial state.

| Property | What it says |
|---|---|
| `CacheTypeOK`, `CMSTypeOK` | type invariants; among them that a stored value is kept under the key of its call, and that no attempt is made too many |
| `CacheReturns` | what a call returned, and what is stored, was returned by the function for this call or for one with the same key |
| `CacheConverges` | once nothing changes, a value a slow call wrote over a newer one, or after a delete, is gone for good (liveness) |
| `CMSAnswersHold` | success means carried out, and a refusal of the only request not carried out, neither for a POST that was redirected; a call is carried out at most `retry_attempts` times, which a POST can be |
| `CMSAnswersFinal` (proved) | once a call has its answer nothing is sent for it any more, and only what the server had got by then is still carried out |
| `CMSCallsEnd` | every call ends, with the client closed under it or not (liveness) |

Bounds: two callers, two calls with two keys or with one, and one change, so
that two misses overlap and the slower one writes the older value; a POST and a GET with three attempts (the
default), so that a request can be late while the next two fail. About 227 000
states. Fairness: Redis drops a value when its time to live ends; a request of
`httpx` ends in an answer or its timeout, and `asyncio.sleep` ends. Nothing is
assumed of the decorated functions. Deadlock is not checked: after all calls and
`close()` the CMS client really stops.

## 4. Where the code and what is said of it differ

Each is a run that checks the statement alone and finds it violated.

| Run | Statement | What happens |
|---|---|---|
| `AIServiceDocstring` | "Raises APILimitExceeded: If all providers fail" (`ai_service.py:128-130`) | the constructor takes no message: a `TypeError`, which the backoff decorator does not retry |
| `TaskQueueGraceful` | `shutdown` is graceful (`task_queue.py:48`) | it returns with a coroutine waiting for a task that will never run |
| `EventDispatcherGraceful` | `shutdown` is graceful (`event_dispatcher.py:56`) | `_running` is cleared before `join()`: the processor stops and `join()` never returns |
| `AdminBroadcastPrompt` | the prompt shows a text and asks "are you sure?" (`admin.py:229-234`) | another text than the confirmed one can be sent |
| `DatabaseRace` | "get or create a record" (`database.py:149`) | the call raises for a row that is there: another session added it and committed between the query and the insert |

All but `EventDispatcherGraceful` are safety statements, on instances no larger
than those of the passing runs. `EventDispatcherGraceful` is a liveness
statement and is checked under the fairness of its passing run, for the
behaviours in which no callback is cancelled.

## 5. What is proved

The proofs hold for every value of the constants that satisfies the named
`ASSUME`s (finite sets where cardinalities are counted, special values outside
the sets they mark, positive thresholds). TLC evaluates the assumptions in
every run.

| Module | Theorem | Argument |
|---|---|---|
| `AIServiceProofs` | `TypeCorrect`, `BreakerSound`, `BudgetHolds`, `BoundHolds` | the bound is not inductive: a count grows by one per caller in flight. The invariant weighs the count of a disabled provider together with its callers in flight (`FailureBudget`), with `TypeOK` and `BreakerConsistent`; lemmas on the walk show that nobody is added to a disabled provider |
| | `ForwardHolds` | action property, call by call: a reply moves its caller on and leaves the others where they are |
| | `OutageStays` | action property: with all disabled and nobody waiting, no walk finds a provider |
| | `ReenablingHolds` | action property: only a reply sets a status, and after a malformed one its caller is idle or further down its list |
| | `BreakerImplemented` | refinement, provider by provider: each reply is a step of its breaker and leaves the others alone |
| `TaskQueueProofs` | `TypeCorrect`, `CustodyHolds` | `Custody` becomes inductive with `Fresh`: a task that was not put has no future |
| | `LateBoundHolds` | counts the late tasks with the consumers inside `get` that can still take one (`LateBudget`) |
| | `DropsCost` | lemma `OthersQuiet`: only the end of a task changes who is dead and what is dropped, and then both grow by one |
| | `LedgerImplemented` | refinement: one ledger entry per task (`EntryOf`), moved by `Put`, `Get` and `Finish` alone; a consumer that gets a task is neither dead nor busy, so a slot is free |
| | `QuietAfterShutdown` | `AllEnded`: a join that returned leaves no consumer thread, and none is ever started again |
| `EventDispatcherProofs` | `TypeCorrect`, `AccountingHolds` | together: that the count stays a natural number rests on `Accounting` |
| | `OrderHolds`, `DrainHolds`, `LateHolds` | `InOrder`; a released joiner implies count zero at that moment, hence everything promised is done |
| | `CallbacksCalled` | `CalledInv`: the callbacks called are those up to the processor's place in the list, which only grows |
| | `LogImplemented` | refinement: the event in hand is the entry of `published` after those in `done` (`HandIsNext`, from `InOrder`), so a delivery appends the next one |
| `DatabaseProofs` | `TypeCorrect` | lemma `RaiseOK`: every exception leaves a well-typed session |
| | `AnswersTrue` | `LocksHold`: uncommitted rows are nobody else's and not committed, and a `get_or_create` about to commit has its row among them |
| | `NothingLost` | `Accounted`: what was added is committed, inserted or still pending |
| | `ConnectionsHold` | inductive with `TypeOK`; cardinalities of finite sets |
| | `UnitsImplemented` | refinement: an INSERT leaves the unit as it is (`UnitInserted`), a commit finds it whole and new by `LocksHold` (`UnitFlushed`), and every exception is a failure of the unit (`UnitFails`); `Ongoing`: a `with` statement that runs has no result |
| `AdminBroadcastProofs` | `TypeCorrect`, `Whole` | `UserDataWhole` is inductive with `TypeOK` |
| | `Faithful`, `LockOwned` | a job's text, a confirmation under way and the live text of a conversation each come from a prompt of that admin; a held lock is some unfinished job's |
| | `ForwardHolds` | action property: a step changes one job (`OneForward`), and reads the text only when that job starts |
| `CMSProofs` | `TypeCorrect`, `AnswersTrue` | counts executions against requests sent and requests against attempts (`Accounted`); lemma `ReturnStep`: a call that waited returns, with a success only if it was carried out, with a refusal only if its last request was not |
| | `AnswersStay` | action property: an answer means that the call is done (`Accounted`), so that no step of its own is left |
| `CacheProofs` | `TypeCorrect`, `ReturnsComputed` | `StoresComputed`: what a caller is about to store was returned for a call with its key; `computed` only grows and keys stay (`ComputedGrows`), so that each step keeps what is known (`KnownStep`) |
| `BotProofs` | `TypeCorrect`, `StateFits` | lemma `Copy`: the two analyses are one, so that a step of either is one of `Competition` (`Steps`) |
| | `Reachable` | with the chosen tool as part of the invariant; a text gets to the first taker (`ContentIsFirst`, which needs that a feature is registered once), and reports are never taken back, so that charts and the history keep what they answer to |
| | `KeepsBoth` | refinement, feature by feature: requests choose, finished analyses answer, all else stutters |

The properties marked "(proved)" in the tables above have no run of their own;
TLC finds no violation of any of them when they are added to the configurations.
Most say for a reader what a refinement that a run checks already contains:
`BreakerConsistent`, `OutagePermanent` and `ReenabledByLateAnswer` are about the
breakers (`BreakerPerProvider`), `OneConsumerPerDrop` is about the slots of the
ledger (`ImplementsLedger`), `ShutdownDrained` about the flush of the log
(`ImplementsLog`). The others are action properties of one call or one job
(`CallMovesForward`, `JobsMoveForward`, `CMSAnswersFinal`).

Only model-checked: every liveness property (`CallsEnd`, `EveryTaskIsTaken`,
`ShutdownReturns`, `EveryEventDelivered`, `ProcessorRests`, `LockReleased`,
`CacheConverges`, `CMSCallsEnd`), because fairness is beyond the prover. Every
invariant, action property and refinement of a passing run is proved, for the
cache and the CMS client each about its own specification. The runs
that expect a violation show a counterexample and have nothing to prove.

No RECURSIVE operator is used: the walk over the providers picks the first
enabled position with a quantifier, sequences are handled with the standard
operators.

Every property of a run has a mutant in `PROJECT.json`: a definition of the model
changed as a plausible slip in the code would change it, defined next to the
original, under which the property fails in the same run.

## 6. What is done and what is left

Done, in the order of importance it was planned in: the AI service, the task
queue, the event dispatcher, the broadcast, the database, the handlers with
their routing, the cache, the CMS client, and the proofs of their safety
properties.

Left, with what it would take:

1. **Liveness proofs** are out of the prover's reach; the runs stay the evidence.
2. **Admin pages** (`admin.py:40-200`): statistics, settings and the maintenance
   flag. They change one flag, which only the admin page shows and nothing obeys.
3. **Keyword comparison** (`competition.py:336-384`), once a handler can reach
   it: another analysis of `Dialogue`.
4. **DynamicConfig, UserStore, AutoReporter**: reload by modification time, the
   cache in front of a table, the dialogue of reports; each once its module can
   be imported and its session entered.
