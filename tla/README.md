# A formal model of OctopusScraper

TLA+ specifications of the Go service under `src/`, model-checked with TLC, and
theorems about them checked with TLAPS. The specifications are translated from
the source; `PROJECT.json` maps every definition to the lines it stands for.

OctopusScraper polls feeds, runs each fetched item through processors, stores
it in PostgreSQL and synchronises it to export targets (Notion). Around that
core it has a task manager with retries, a hot-reloaded directory of scraper
definitions, an HTTP and an MCP API.

## 1. Inventory

### Task manager (`internal/task/manager.go`, `queue.go`, `model.go`)

*State*, all under one mutex: the result map, a heap ordered by priority and
arrival, the sets of running and cancelled IDs, the armed retry timers, four
counters, a `stopping` flag. One condition variable, `maxConcurrentTasks`
worker goroutines, one cleanup goroutine.

*Operations*: `Submit`, `SubmitBatch` (all or nothing), `Cancel` of queued and
of running tasks, `worker`/`finish`, `scheduleRetry`/`submitScheduledRetry`,
`cleanupLoop`, `Stop`. `List`, `Result` and `Statistics` only read.

*Interactions*: clients are the HTTP API and the periodic trigger; a worker
calls `Executor.Execute`, which fetches, processes and stores; every change of a
result is saved in the SQLite history.

*Hard behaviour*: lost wake-ups; a cancellation that races with the return of
`Execute`; a timer callback that waits for the lock while `Stop`, cleanup or a
full queue change what it will find; the order in which `Stop` joins workers and
cleanup before it closes the store; an `Execute` that never returns.

*Correct when*: heap, results, running set, flags and counters agree in every
state; no wake-up is lost; a task has one live attempt; a settled result is
final; `Stop` returns and leaves nothing behind; promised retries happen.

### Task result history (`internal/task/result_store.go`)

*State*: table `task_results`. *Operations*: `Save` inside each critical section
of the manager, `LoadRecent` and the repair of interrupted results at start,
`DeleteOlderThan` after the cleanup tick (outside the lock), `Close`.
*Hard behaviour*: a crash at any step, saves that fail and are only logged, the
retention boundary, rows settling between tick and purge. *Correct when*: memory
and disk tell the same story except where a save failed, outcomes survive
restarts unaltered, no interrupted work is reported as running.

### Export queue and exporter (`internal/exporter/manager.go`, `internal/storage/postgres_store.go`)

*State*: one `content_exports` row per content and target (status, attempts,
claim token, lease, next attempt), and per process a `targetWorker` with its
stop protocol (`stopping`, `done`, `operationWG`, the cancel function of the
delivery). *Operations*: `StoreContents`, `Claim` (`FOR UPDATE SKIP LOCKED`),
`Renew`, `Complete`, `Fail`, the heartbeat, delivery, `stop`. *Interactions*:
several service instances share the table; each instance delivers to a target
over the network. *Hard behaviour*: leases that expire under a stalled
instance, statements whose reply is lost and that run late, `Fail` reading and
writing in two statements, stop between claim and delivery, process death.
*Correct when*: an instance that keeps time keeps its claim, outcomes are final
and truthful, attempts are bounded exactly, every export settles.

### Configuration hot reload (`internal/config/manager.go`, `internal/app/config_validator.go`)

*State*: accepted definitions, digests and errors per file, the applied and the
pending fingerprint, the served snapshot and its version. *Operations*:
`LoadInitial`, `Poll` from `Watch`, `Reload`, all through `refresh`: scan,
debounce, load changed files, fall back per file, resolve ID and name conflicts,
validate, serve or roll back. *Hard behaviour*: files change between scan and
load; fallbacks collide with other files' new definitions; one refused
definition rejects the refresh. *Correct when*: what is served always validates,
a file never loses its last good definition, a directory at rest is applied.

### Notion target (`internal/exporter/notion/client.go`)

*State*: per process a client with a list of the IDs in the data source, five
minutes old at most; in Notion, pages whose `ContentId` column holds a content's
ID or, until they are complete, a pending ID derived from it. *Operations*:
`Deliver`, which is `StoreContents` of one content: list IDs (cache or full
scan), look up or archive what earlier attempts left, create the page, append
blocks in hundreds, give it the final ID; after a failure, scan and try once
more. *Interactions*: called by the exporter under a lease; several instances
and any number of earlier attempts meet in the same data source. *Hard
behaviour*: requests whose reply is lost and that run late, capped scans,
caches that another instance has outdated, process ends between the requests.
*Correct when*: a final page is complete, a content has one page, what was
reported as delivered is there.

### PostgreSQL content store (`internal/storage/postgres_store.go`)

*State*: the schema version, `contents`, `content_exports`, `export_targets`.
*Operations*: `Initialize` (advisory lock, schema, migration of version 1),
`RegisterTarget` (upsert and backfill), `ExistingContentIDs`, `StoreContents`
(contents and their export rows in one transaction), `ListContents` by keyset,
and the statements of the export queue. *Interactions*: every service instance
runs them against one database. *Hard behaviour*: several instances that migrate
at once; row locks in the order of a feed, hence deadlocks; statements that see
what was committed when they began, so that a registration and a batch can miss
each other; commits whose reply is lost; `created_at` that is not the order of
the commits. *Correct when*: a batch is stored as a whole or not at all and what
is stored stays; every stored content has its export; no export state is lost; a
listing shows everything once.

### Service runtime (`internal/bootstrap/run.go`, `internal/app/`)

*State*: how far `Run` has come, the runtime context, the connection pool, the
sync service's `done` and `cancel`, the manager's stop. *Operations*: start-up,
`Execute` (fetch, filter, look up, process, merge, store), the sync loop,
`Runtime.Stop` and the shutdown around it. *Interactions*: with everything: the
HTTP server's handlers use the pool, the exporter and the manager, the workers
call `Execute`. *Hard behaviour*: handlers that outlive the server's shutdown,
deliveries and tasks that outlive their deadline, a pool whose `Close` waits; a
context that is cancelled while processors fall back instead of failing; the
goroutine that reads `s.done` only when it starts. *Correct when*: the store is
closed last; a service that is told to stop ends; what a task returns is what
has happened.

### Scraper definitions, fetchers, processors (`internal/config/yaml_loader.go`, `internal/fetcher/`, `internal/processor/`)

*State*: none that outlives a task. *Operations*: documents become definitions
with parsed options or are refused; a feed becomes contents with stable IDs,
filtered by time and quality; each of four processors changes each content by
what a browser or a model replies, or by a fallback. *Hard behaviour*: several
spellings of an option, defaults that depend on other options, products that
overflow; replies that exceed, contradict or repeat what was asked for; limits
that apply on one path and not on another. *Correct when*: an accepted scraper
can run, and what is stored obeys its options on every path.

### HTTP API, MCP API (`internal/httpapi/server.go`, `internal/mcpapi/server.go`)

*State*: a cached health report; a semaphore. *Operations*: handlers that
delegate to the manager, the exporter, the configuration and the content store.
*Correct when*: they use the pool within their own contexts, and the cursor of
`list_contents` loses and repeats nothing.

### Observability, changelog tool

Metrics, log formatting, and a release script: no state that other parts read.

Every hazard found in this code, with its line and the properties that cover it,
or why none does, is listed in `PROJECT.json` under `hazards`.

## 2. Modules

| module | models | kind |
|---|---|---|
| `TaskLifecycle` | what the task manager promises its clients | abstract specification |
| `TaskManager` | `manager.go`, `queue.go`: one action per critical section | component; implements `TaskLifecycle` |
| `TaskManagerProofs` | theorems about `TaskManager`, and that it implements `TaskLifecycle` | TLAPS |
| `TaskHistory` | the manager with SQLite, crashes and restarts | composition: extends `TaskManager` |
| `ExportPromise` | what the export queue promises: outcomes reported once, true and final | abstract specification |
| `ExportQueue` | the export rows and N service instances | component with its database; implements `ExportPromise` |
| `NotionTarget` | one client per instance and the Notion data source | component with its service |
| `ConfigManager` | hot reload over a directory that changes at any time | component |
| `ContentCatalog` | what the content store promises scrape tasks | abstract specification |
| `ContentStore` | N instances on one database: migration, registration, batches | component with its database; implements `ContentCatalog` |
| `ContentListing` | a client that pages through the contents meanwhile | composition: extends `ContentStore` |
| `ScraperDefinition` | what a scraper's document means: loader, validator, options | pure operators |
| `ContentProcessing` | fetchers, filters and the four processors on contents | pure operators: extends `ScraperDefinition` |
| `ScrapeExecution` | `Execute`, step by step | component: extends `ContentProcessing` |
| `ServiceRuntime` | `Run` with the handlers, the sync loop and the worker | composition: extends `ScrapeExecution` |
| `TaskHistoryProofs`, `ExportQueueProofs`, `NotionTargetProofs`, `ConfigManagerProofs` | theorems about the module they are named after | TLAPS |
| `ContentStoreProofs` | theorems about `ContentStore`, that it implements `ContentCatalog`, and about `ContentListing` | TLAPS |
| `ScrapeExecutionProofs` | lemmas about the operators on data, and that `ScrapeExecution` keeps its invariant | TLAPS |
| `ServiceRuntimeProofs` | theorems about `ServiceRuntime` and the task it executes | TLAPS |
| `MC...` | values of the constants for TLC | |

Operators named `Bug...` are plausible mistakes in the definition that follows
them, kept to show that each property notices one. No specification uses them.

### TaskManager

A worker's `pc` is `ready` (it holds or competes for the lock in
`worker`), `asleep` (in `cond.Wait`), `executing`, or `exited`. `Signal(n)` is n
calls of `cond.Signal`: it wakes n sleepers, or all. An attempt's ID
`<<t, n>>` stands for the task's UUID with n `_retry_` suffixes; `fresh` holds
the UUIDs not yet drawn. A retry timer that fires leaves its map entry in place
until its callback has the lock, so `retryTimers` and `fired` overlap.
`TimerFires` and `RetryAdmitted`, `RetryDeferred`, `RetryDropped` are separate
because anything may take the lock between them. `stopPhase` follows `Stop`:
`draining` (waits for the workers), `forced` (its context has expired, running
attempts are cancelled), `joined` (workers gone; waits for cleanup without
looking at its deadline), `closed` (store closed), `abandoned` (gave up after
`forcedShutdownWait`). A cleanup tick forgets any set of ended results: which
ones are old is a matter of the clock.

Abstracted: task payloads, timestamps, error texts; `Execute` is a return with or
without an error at any later time, or never.

### TaskHistory

Adds to each manager step the saves of its critical section (`Persist`), each of
which may fail for tasks in `Fragile`, and makes the cleanup tick and the purge
use the real criterion, an `age` per result that grows for tasks in `Expiring`
(1: its start is behind the cutoff, 2: its end is). `Crash` is the end of the
process at any step; `Restart` is `NewManager` on the same database: an
unreadable history is given up, a failed repair turns persistence off.

### ExportQueue

A statement is one atomic function of a row (`RenewBy`, `CompleteBy`, `FailBy`,
`ClaimBy`). An instance that gets no answer leaves its statement in `limbo`,
where it may be executed at any later time or never. An instance's `pc` follows
`runBatch` and `processClaim`. Leases and heartbeats count down in `Tick`;
instances in `Prompt` are those no tick overtakes, all others may stall
anywhere. `delivered` records what the target has accepted.

`ExportPromise` has neither leases nor instances nor statements. An export is open
under some claim until a report settles it. Its `reports` are, in the queue, the
outcomes that an instance has yet to settle and those whose statement was not
answered; a report counts only if its claim is the current one, and each is used
once.

Abstracted: the number of rows per batch and the order among due rows (left
open); the backoff before a retry (an event, `RetryFallsDue`); one target, always
enabled. `StopReturns` is either of the ends of `targetWorker.stop`: the last
operation has ended (`stopped` is "done"), or the deadline has passed, perhaps with
the cancelled delivery still under way ("late"). A batch that runs at that time may
claim further rows, until `beginClaimOperation` refuses and halts it; the process
starts no other.

### NotionTarget

In `ExportQueue` a delivery is one call; here it is its sequence of requests. An
action is a request with the code that follows its reply, so `at` in `call` is
the request that comes next: `list` or `refresh` (scan in the first and in the
second attempt), `lookup` (`reconcileExactContentPages`), `sweep`
(`archivePendingPages`), `archive`, `create`, `append`, `finalize`, `discard`
(`archivePage` after a failure). `pages` is the data source: a page is final or
pending and has some of its blocks. A request that fails has been executed, or
has not, or waits in `limbo`. A call whose context is cancelled is one whose
requests all fail from then on. `disturbed` is history: whether deliveries of a
content overlapped in time, counting a request that was executed late as a piece
of an earlier one (`overlap`), whether an instance acted on a pending ID that was
no longer there (`stale`), and whether a page was trashed while some instance had
it on its list as final (`withdrawn`). The properties that assume one attempt after the other say so with
it; that attempts follow each other is what `ExportQueue` shows of an instance
that keeps time (`PromptKeepsClaim`).

Abstracted: page properties and the Markdown conversion, of which only the number
of append requests remains; rate limit and HTTP retries, which end in the
request's success or failure (what may have been executed is not sent again,
`shouldRetry`); the pages of a paginated query, read in one step; `Initialize`,
whose failure is `ScanFails`. `RetryDelay` is positive (`env.go:112`), so there
is always a second attempt. Queries are assumed to see all earlier changes.

### ConfigManager

A digest stands for the content it was taken of. `scan` holds what a refresh in
progress has scanned; the files are read later (`disk` in `FinishRefresh`), and
may have changed since. `Candidate` is `buildCandidate`; `ResolveConflicts` is
`resolveDuplicateConflicts` with its bound on the passes, a recursive function of
the passes so far and the state between two of them (`Pass`). The version is the bag
of definitions `configHash` digests. Scanning fails as a whole (`ScanFails`).

Abstracted: the text of a definition except its ID and name, which is all that
conflicts depend on; whether it can be built is membership in `Unbuildable`.
Every definition is taken to be enabled.

### ContentStore, ContentCatalog, ContentListing

An instance's `pc` is where it is in `Initialize`, `RegisterTarget`, `Execute` or
`StoreContents`; `tx` is its open transaction, whose inserts nobody sees before
its commit. A row of the multi-row `INSERT` is a step (`InsertRow`), as another
transaction can take a key between two of them; `LinkedElsewhere` and `HolderOf`
are the transactions a statement waits for, and `AbortDeadlock` is PostgreSQL's
answer to a circle of waits. Statements that read and then insert, the backfill
and the export rows of a batch, are two steps, what they see (`sees`) and what
they insert. READ COMMITTED is the level the code gets by asking for none. `Init`
is an empty database, a current one, one of a later version, or one of version 1
with contents in any export state. `missed` is history: contents of which a
registration and a batch that overlapped have each seen too little. The export
queue's life of a row is one step, `Export`.

`ContentCatalog` has no transactions: a task asks, and then either all its
contents are there or nothing has changed. Its `catalog` is `rows`, its `asked`
the feed of the task an instance executes.

Abstracted: the columns of a content that nothing here reads; one target,
"notion"; the rows of the export `INSERT`, which are inserted together once no
other transaction holds one of them; a rollback on a cancelled context, which closes the connection and so ends the
transaction as any other rollback does.

### ScraperDefinition, ContentProcessing, ScrapeExecution

A value of a document is a kind with a value. A duration counts milliseconds in
`Width` bits, which keeps the overflow of the code's int64 nanoseconds. A text is
what the code measures of it: runes, words, the words of each sentence, the terms
it contains; a term is a word in a spelling, so that case-insensitive comparison
is equality of words. A content's ID is what its SHA-256 is computed from. A
processor's `ProcessOne` takes the content and what the page or the model has
replied.

`ScrapeExecution` does one job. `ContextEnds` may come between any two steps: a
done context fails the fetch, the lookup and the transaction, and lets a
processor go on with its fallback (`ReplyTo`). `stored` is the database as far as
this task is concerned; other tasks are in `ContentStore`. A task exists only of a
definition that has been accepted (`ExecInit`). Two of its values are looked at no
earlier than in `Fetch`: the route, which is parsed as a URL then (`FetchIsRefused`),
and `filter_time` of `direct_rss`, an integer, a float or text that reads as either
(`Numerals`), after the feed has been fetched.

Abstracted: prompts, the parsing of HTML, JSON, feeds and dates; the processors'
caches, whose keys include the content's ID and which no content of one task
therefore meets twice; retries within a request, which end in its result.

### ServiceRuntime

`main` is where `Run` is. `place` is where each request and the sync loop's
goroutine are; a request ends on its own, when its client leaves or when the
server's `Close` cancels its context (`ended`). What the exporter and the task
manager do inside their own locks is in `ExportQueue` and `TaskManager`; here
they are a batch in claims, renewals, deliveries and completions, and one task. A
statement or a delivery may take forever as long as its context lives. Between two
statements a process has no connection: a batch between its claim and its renewal
(`claimed`) or before its delivery (`renewed`), and the health report between its
ping and its counts (`pinged`). The pool's `Close` waits for statements only
(`Holding`) and refuses new ones as soon as it begins (`Accepts`), so it can pass
there, and what the process finds then is a closed pool. `LoopStarts` is the
goroutine that reads `s.done` only when it runs: if `Stop` has cleared the field,
the deferred `close` of a nil channel panics and the process ends (`crashed`).
That `Stop` reports its deadline although the worker ends within the five seconds
after it (`forced`) is why the store may stay open with nobody left to use it.

Abstracted: the administrative handlers, which read; the HTTP server's own
goroutines; a disabled sync service, which is the same process without the loop.

## 3. Model checking

| run | what it asks | instance |
|---|---|---|
| `task_safety` | do maps, heap, counters and wake-ups agree, is a settled result final, does the manager implement `TaskLifecycle` | 3 tasks, one of higher priority, 1 retry each, 2 workers, queue of 2 |
| `task_liveness` | does `Stop` return, do attempts settle, are retries honoured | 2 tasks, 1 retry, 2 workers, queue of 1 |
| `history_safety` | do memory and SQLite agree over a crash | 2 tasks, 1 retry, 1 worker, 1 crash, one task whose saves may fail and timestamps expire |
| `history_doc` | is any interrupted row finalised at start | 1 task; violated, see findings |
| `export` | leases, attempts, stop; does the queue implement `ExportPromise`, does every export settle | 2 instances, one may stall, one at a time is stopped, 1 content, 2 attempts, 2 faults, lease of 3 |
| `export_doc` | do two instances ever process the same export at once | as `export`; violated, see findings |
| `notion_safety` | is a final page complete, is there one page per content, is what was delivered there | 2 instances, 2 contents that meet while nothing is late or disturbed (`Confined`), 2 pages at a time, 1 append, 1 late request |
| `notion_doc` | do deliveries that follow each other leave one final page, whatever a cached list says | 2 instances, 2 contents, 3 pages; violated, see findings |
| `config` | are conflicts resolved, is what is served valid, does no file lose its definition, is a directory at rest applied | 3 files, definitions that collide in ID and name, one that is refused, 2 edits at any moment, any initial directory |
| `config_doc` | are the definitions of valid files the ones served | 2 files, 2 edits; violated, see findings |
| `content_store` | do batches implement `ContentCatalog`, do exports follow, does a migration lose or repeat anything, do deadlocks end, is a listing complete | 2 instances, 2 contents in both orders, one of them from version 1, 2 points in time, 1 fault, pages of 1 |
| `service` | are a task's results true, does what is stored obey the options, can every accepted scraper run, is the store closed last, does a stop end | 6 accepted documents with every reply, and 2 that are refused; 2 requests, 1 query at a time |

### Why the bounds are enough to be interesting

* `task_safety`: with three tasks and a queue of two, submissions and retries are
  refused; with two workers one can sleep while the other executes; the priority
  makes a later task overtake. One retry is enough to have a successor that is
  armed, fired, deferred, admitted and dropped; the second attempt covers an
  attempt without one. The workers are symmetric and so are permuted; tasks are
  not, as they differ in priority. The theorems of section 5 lift the bounds.
* `task_liveness`: a queue of one is full whenever the other task waits, so a
  retry meets a full queue repeatedly.
* `history_safety`: one restart is enough to have a row of every status and age
  to recover, and a second manager that works on them. One worker suffices, since
  persistence is per result and under the lock.
* `export`: two attempts distinguish a first failure from the last; a lease of
  three has a heartbeat interval of one, the ratio in the code; two faults allow
  a lost reply followed by a process end or by another lost reply. Rows of
  different contents do not interact except through an instance being busy.
  Four tokens are enough for a new one always to exist. One instance at a time is
  stopped (`MaxStopping`), as in a rolling restart; another one is there to settle
  what it leaves, so that the exception of `EveryExportSettles` never arises.
* `notion_safety`: two pages at a time are what it takes to have a duplicate; a
  third would only be more of the same violation. Deliveries, failures, process
  ends and cache expiries are unbounded. One append separates a page's creation
  from its completeness. Pages, instances and contents are interchangeable, hence
  the symmetry. A second content matters through the cache, as a scan on behalf of
  one content lists another in mid-delivery, which no undisturbed delivery of one
  content can bring about. `Confined` lets two contents meet while no request is
  late and neither is disturbed (`Undisturbed`), and one content alone, the other
  still `Untouched`, suffer everything: it keeps the run small and loses only what
  a second content does next to one that is already in trouble. The theorems of
  section 5 have no such bound.
* `config`: three files allow a fallback that collides with a fallback; the
  definitions collide in ID only, name only, and across both. The initial
  directory is arbitrary, so two edits act on every reachable kind of applied
  state. Files are interchangeable (the code sorts paths only for determinism of
  messages), hence the symmetry.

* `content_store`: two batches of the same two contents in opposite orders are
  the smallest deadlock; one content of the old database suffices to see its
  export state survive; two points in time give equal and inverted `created_at`;
  a page of one makes the cursor stand between any two contents. One fault is a
  crash, a failed statement or a lost reply at any step. The theorems of section 5
  lift the bounds.
* `service`: the documents use every fetcher, processor and policy, with options
  at their limits; of those that are accepted one has a route that is no URL and one
  a `filter_time` that is no number, and both fail in each run; the feed entries repeat, lack a link or a date; the replies
  include refusals, empty, excessive and contradictory ones. The life of the
  process is combined with the first job only (`Alone`): what `Run` does depends
  on a task being executed, not on which. Two requests are a batch that collides
  with the loop's, a second query at the limit, a handler that survives the
  shutdown beside one that does not. `Width` is 21 bits, so that a timeout of
  2000 s overflows as one of 300 years does in the code.

Deadlock is not checked: each system may stop (a closed manager with nothing
left, every export settled and every fault used up, all pages of the bound in
use, no more edits, a process that has returned, a database with an instance that
cannot start).

### Fairness

* `TaskManager`: the Go runtime schedules goroutines that can run, the mutex is
  not held for ever, timers fire and contexts expire. Nothing is assumed of
  clients. `Execute` returning is assumed only by `EveryAttemptSettles` and
  `RetryIsHonoured` (`ExecuteReturns`): each attempt runs under its task's
  timeout. `StopReturns` holds without it. The heap is not fair to low
  priorities; with finitely many tasks the higher ones run out.
* `ExportQueue`: goroutines run, a delivery returns (requests have timeouts),
  time passes, an ended process is started again. Nothing is assumed of late
  statements, and faults are bounded.
* `ConfigManager`: `Watch` polls for as long as the service runs, time passes,
  and a refresh that has begun comes to its end (`[]<>(scan = Nothing)`), since
  it is a sequential function over a directory of bounded size. Weak fairness of
  a successful poll amounts to scans of a readable directory succeeding.

* `ContentStore`: statements are executed, strongly fair, because PostgreSQL wakes
  a waiter when its wait is over, long before another transaction of an instance
  that has begun anew can overtake it for ever; deadlocks are detected. Nothing is
  assumed of tasks or of the processes' starts, and faults are bounded.
* `ServiceRuntime`: `Run` goes on once it has been told to stop, except out of
  `registering`: `RegisterTarget` runs on `context.Background()` without a timeout
  (`run.go:247`, `260`) and may wait for a row lock for ever. `ShutdownEnds` says so:
  the process ends unless it stays there. A statement ends once its context is done;
  a renewal and a completion have timeouts of their own. Nothing is assumed of tasks,
  deliveries, clients or statements whose context lives, and that is the point of
  `ShutdownEnds`.

## 4. Findings

Four sentences of the documentation say more than the code does. None is a
crash; each is what a violation run exhibits.

* `history_doc`: `docs/storage.md:48-50` says any persisted pending, running or
  retrying result of an interrupted process is finalised as failed at startup.
  `LoadRecent` (`result_store.go:119`) reads only rows inside the retention
  window, so one that started before it stays as it was; in the run it is a result
  that was pending when the process died. What holds instead is
  `InterruptedIsFinalized`.
* `export_doc`: `docs/storage.md:17-19` says that concurrent instances do not
  process the same export at the same time. The row lock lasts for the claiming
  statement only; an instance that stalls past its lease goes on. What holds is
  `PromptKeepsClaim`.
* `config_doc`: `README.md:103-104` says that the previous version of a file is
  used when its change is invalid. A valid edit that lost a conflict is also
  replaced by the earlier version, and stays so after the conflict is gone, with
  no error shown: its digest has been recorded (`manager.go:431`).
* `notion_doc`: `docs/storage.md:58-60` says that after an incomplete scan each
  candidate content ID is verified with an exact query before a page is created,
  and `client_test.go:182` demands it of a fresh cache that has missed another
  instance's write. A pending ID in the list skips that query
  (`client.go:230-238`): if the other instance has finished the page meanwhile,
  the sweep finds nothing and a second final page is created. This takes a scan
  while another instance has the page in the making, that instance ending before
  it records its success, and the lease (300 s after the last renewal) ending
  before the cache does (300 s after the scan). What holds is `OnePage`.

## 5. Proofs

### Task manager (`TaskManagerProofs`)

For every finite set of workers, every set of tasks with integer priorities,
every positive capacity and every number of retries (`TaskManagerAssumption`):

| theorem | states |
|---|---|
| `TypeCorrect` | `Spec => []TypeOK` |
| `CoreInvariant` | the inductive invariant below |
| `QueueIsPendingHolds` | the heap holds exactly the pending attempts, once each, within capacity |
| `RunningAgreesHolds` | running set, results, workers and cancellation flags agree |
| `OneLiveAttemptHolds` | a task has at most one live attempt |
| `StoppedIsQuietHolds` | nothing outlives `Stop`; the store closes with nobody left to write |
| `WakeupsCoverQueueHolds` | no wake-up is lost |
| `SettledIsFinalHolds` | outcomes are final (an action property) |
| `ConservationHolds` | the statistics add up |
| `KeepsPromiseHolds` | the manager implements `TaskLifecycle` |

The type invariant is inductive together with the heap being finite and a worker
having a job exactly while it executes. None of the three agreement invariants
is inductive alone: that a worker never takes an attempt which is also scheduled
needs `OneLiveAttempt`; that a retry does not meet a live successor needs that
successors of live attempts have not been born (`SuccessorsUnborn`: nothing is
known of any later attempt of a task while an earlier one is live); that a new
submission does not meet anything needs that nothing is known of tasks whose
UUID has not been drawn (`FreshIsUnused`). Their conjunction, `Core`, is
inductive relative to the types. `Quiet` adds what each phase of `Stop` has
already achieved; `WakeupsCoverQueue` and `Conservation` are then inductive
relative to `Core`, the latter by counting heap and running set as finite sets.

The counting arguments rest on lemmas about `Enqueue` (the heap grows by at most
the batch, and by exactly the batch if its IDs are new) and `Signal` (it wakes as
many as it should, and nobody else moves).

`KeepsPromiseHolds` maps each step to one of `TaskLifecycle` or to a stutter, one
lemma per operation. It needs `Core` (what a worker takes is pending, what is
forgotten has ended) and `Quiet` (nothing is admitted once stopping is visible).

### Task result history (`TaskHistoryProofs`)

For the same constants and every number of restarts, set of fragile saves and of
timestamps that expire: `RowsTrackResultsHolds`, `HistoryIsServedHolds`,
`InterruptedIsFinalizedHolds`, `NoPhantomWorkHolds`, and `OutcomeIsDurableHolds`,
an action property.

A step of the manager is a step of `TaskManager` with its saves, so the manager's
types and `Core` are taken over, and a restart, which begins with a result map
that the database has filled, must establish them again. `HInv` adds `History`:
besides three of the properties themselves, that an attempt which may still come
into being has no row (`UnbornHasNoHistory`), that an outcome on disk is the one in
memory unless memory has forgotten it (`OutcomesAgree`), and that what is old is
over and what is being purged is forgotten (`OldIsOver`). The first keeps a retry
after a restart from meeting a row of an earlier process, and with it gives
`OutcomeIsDurable`: no save is ever about an attempt whose outcome is on disk.

### Export queue (`ExportQueueProofs`)

For every set of instances, contents and tokens, every lease, limit of attempts
and number of faults (`ExportQueueAssumption`): `PromptKeepsClaimHolds`,
`FailedIffExhaustedHolds`, `SyncedWasDeliveredHolds`, `SettledIsFinalHolds`,
`StoppedIsQuietHolds`, and `ExportsAsPromisedHolds`, that `ExportQueue` implements
`ExportPromise`.

`Shape` (`QueueShape`) is the type invariant with two facts: a row has failed
exactly if its attempts are used up, and an instance past its claim has a token.
A statement is a function of a row, so most of the work is lemmas about where each
leads a sound row, the late ones included; that settled exports stay settled is
the same lemmas read as an action property. `Truthful` adds that what may be
marked as synced has been delivered. `PromptKeepsClaim` needs `OwnToken` (no two
instances have one token, and no statement with the token of a claim that is being
worked on is late) and `LeaseCovers`: what is left of the lease exceeds the time to
the next heartbeat by `Lease - HeartbeatInterval`, which is positive.

`StoppedIsQuiet` is inductive with one fact, that only a stopping instance's stop
returns (`Halting`): stopping takes a delivery out of
`delivering`, and `beginClaimOperation` lets none in while the instance stops, so
after a stop that has waited for the last operation there is none, and after one that
has not there is at most the cancelled one.

The refinement maps each action to one of `ExportPromise` or to a stutter: a claim
is `Take`, the end of a delivery `Deliver`, a statement that is executed, late or
not, `Settle` or `Drop`, and whatever ends an instance in the middle `Drop`. An
unanswered statement is a stutter, as the report only changes hands. That it does
is `OneReport`: the outcome of a claim is held by its instance or by one late
statement, never by both, so executing it uses the report up. This is where a new
token per claim, kept apart from every token still around, is needed. `OneReport`
is inductive together with `OwnToken` and with the fact that what is claimed has
been stored, which in turn follows from the step being one of the promise.
`SettledIsFinal` and `SyncedWasDelivered` are consequences of the promise that have
a shorter proof of their own.

### Configuration hot reload (`ConfigManagerProofs`)

For every finite set of files, every set of definitions, whatever their IDs and
names, and every number of edits (`ConfigManagerAssumption`): `ConfigTypeCorrect`,
`ServedIsVettedHolds`, `ConflictsAreResolvedHolds`, and `LastGoodIsKeptHolds`, an
action property. `Nothing \notin [Paths -> Contents]` in the assumption says that
the absence of a scan is not a scan.

The heart is that the bounded passes of `resolveDuplicateConflicts` are enough.
The last good definitions are free of conflicts, and a file that has its own never
loses to another; one that loses falls back to it or goes. So each file moves at
most once: `Open`, the files that differ from their last good definition, loses a
member in every pass that changes anything, and the number of passes exceeds the
number of files. A state that a pass leaves alone has no conflict. `SettleExists`
shows that the recursive function `settle` has the value its equation demands, by
well-founded induction over the passes (`EveryNumber`, for a set in place of an
operator). `ServedIsVetted` follows as the hash of a candidate is the bag of its
definitions, which decides whether they validate.

### Content store (`ContentStoreProofs`)

For every set of instances, contents, feeds without repetition and old databases
(`ContentStoreAssumption`): `TypeCorrect`, `StartupSucceedsHolds`,
`ExportStateIsKeptHolds`, `ExportsFollowHolds`, and `CatalogHolds`, that
`ContentStore` implements `ContentCatalog`.

`Migrations`: between the lock and the commit there is one instance, what it has
read is still the version, and with version 1 nobody has come past it. `Held`:
what transactions have inserted is disjoint and not committed yet, so a commit
overwrites nothing; this is what row locks are for. `LinksAreMade`: what a
statement has seen is linked when its transaction is about to commit. With these,
`ExportsFollow` is inductive. `BatchIsPlaced` follows a batch: each of its
contents is stored, inserted, or still to be inserted; at the commit nothing is
left, and the step is `Store` of the abstract specification. A failure is
`GiveUp`, a crash is `GiveUp` or, outside a task, an empty request; everything
else changes nothing that `ContentCatalog` shows.

### Content listing (in `ContentStoreProofs`)

`ListingIsCompleteHolds`, for every page size, set of instances and set of points
in time, and every finite old database. `Progress` says what a listing in progress
has done: what it has listed is stored, lies behind the cursor and was listed once,
and each content that was there when it began is still ahead of the cursor or
listed. A page is the first `PageSize` contents after
the cursor, and the order is total because the ID breaks ties of `created_at`; so
what a commit puts behind the cursor in the meantime is not among what was there,
and the last page, which is not full, leaves nothing of it ahead. `FiniteStore`,
that the database is finite at any time, is what makes pages countable.

### Notion target (`NotionTargetProofs`)

For every set of clients, contents and pages, every number of append requests and
of late ones: `NotionTypeCorrect`, `FinalIsCompleteHolds`, `OnePageHolds`,
`DeliveredIsThereHolds`.

`OneWriter`: besides archiving, a page is written by the call that has created it
or by one late request, after which that call does nothing but archive it.
`PageIsOrderly`: a page somebody may still append to is pending and lacks blocks,
and one that somebody may still finalize has all of them, unless it is gone. A late
append can therefore not meet a finalization.

`Traced` is the invariant of the other two. `OneContent`: a page belongs to one
content, for the data source, for every call and for every late request alike, so a
step on behalf of a content leaves all others as they are (`OthersTraced`).
`Single`: as long as a content is undisturbed, one client delivers it, it has one
page, and a call that is past its query has all pages of its content in view: it
will archive them before it creates one, or it has created the only one. `Kept`:
what is reported as delivered, or listed as final by any instance, is there, and a
call that fills a page of its content fills the first. Neither is inductive without
the other: a cached list ends a delivery.

The first attempt at this proof failed, and TLC found why with two contents: the
finalization of a page is executed without a reply, another instance scans and
lists the page as final, and its creator then archives it (`client.go:649-650`).
For as long as that list is fresh its owner reports deliveries of a page that is in
the trash. `DeliveredIsThere` makes that exception now, which it left out when only
one content was checked.

### Service runtime (`ServiceRuntimeProofs`)

`StoreOutlivesItsUsersHolds`, for every set of requests, limit of queries and
sequence of jobs, whatever their definitions, feeds and replies are. `Orderly`
says what `Run`'s order achieves: nothing runs before the select; once the sync
service's `Stop` has reported success the loop is over and no delivery can begin;
once the manager's has, no task is executing; only both together lead to `Close`,
after which no statement begins. What it does not achieve, and the theorem does not
claim, is that no handler is in a batch: one that has outlived the server's shutdown
may hold a claim, without a connection, when the pool closes. It then begins no
delivery, and the row waits for its lease.

### Scrape tasks (`ScrapeExecutionProofs`, theorems in `ServiceRuntimeProofs`)

`ResultIsTrueHolds`, `StoredIsNormalizedHolds`, `AcceptedRunsHolds`, for every list
of jobs, whatever their feeds, every set of replies, every width of a duration,
and every way in which `ServiceRuntime` may cancel the task. A task is of an
accepted definition, as the configuration serves no other (`ServedIsVetted`):
`ExecInit` chooses among those, and the invariant keeps it.

Assumed (`ScrapeExecutionAssumption`): the data have the types that the parsers give
them. `IsDocument`: a decoded value is of the kind it says, an
integer is one, a list is one; `IsFeed`: the feed parser's entries are a list of
texts; `IsReply`: a model's JSON has been unmarshalled into lists and numbers. What
they contain is open.

The invariant is `ExecInv`. Every content that a stage hands on is one of
`Candidates`, of its ID, and `Conforms` to the options of all the scraper's
processors; and `NothingIsLost`: each candidate is being processed, has been, or is
stored already. `AcceptedRuns` excepts the two values that nobody validates, the
route and `filter_time`; a definition with valid ones never returns "misconfigured",
because `PipelineIsCreatable`, which the validator has checked, is what
`CreatePipeline` asks again. A processor that fails hands its content on unprocessed, so
nothing is lost by it; the lookup takes away what is stored; the commit stores the
rest. `Conforms` holds of what a fetcher yields, since tags and keywords are empty
there and the summary is the feed's own, cut to the fetcher's length; a summary that
fails leaves it so. It is preserved by each of the four
processors (`TagsProcessed`, `KeywordsProcessed`, `SummaryProcessed`,
`HTMLProcessed`, joined in `ItemProcessed`): a processor writes one field within its
own options, by a reply or by its fallback, and leaves the fields of the others
alone. So the order of the pipeline, which priorities decide, does not matter.

Limits on *numbers* of tags and keywords are cardinalities of sets of words. They
rest on lemmas about selecting and sorting: `InOrder` places the elements of a
finite set by the number of those ahead of each, which is a bijection as the order
is total; a prefix of n has at most n elements; a selection has no element that was
not there. `AcceptedRuns` needs that a product which has passed the check
`TooLong` does not wrap (`NotWrapped`), for which one divides instead of multiplying,
as the code does, and that an option which is absent has its default, which passes
its own check.

What the proof asks of the definitions: sorting and summing are `InOrder` and a
recursive function, whose values have a description, rather than `SetToSortSeq` and
a fold; and `ProcessTags`, `ProcessKeywords` and `ProcessSummary` are chains of `IF`,
as in the code. Of a `CASE` whose guards overlap TLC takes the first that holds, but
its meaning is any of them, and a proof fails there. All `CASE` expressions have
disjoint guards.

### What stays with TLC

Every invariant that a run checks is proved, and so is every action property and
every refinement. What is left is `StopReturns`, `EveryAttemptSettles`,
`RetryIsHonoured`, `EveryExportSettles`, `DirectoryIsApplied`,
`EveryTransactionEnds` and `ShutdownEnds`, which depend on fairness: temporal
reasoning about `ENABLED` is out of the prover's reach. Late requests and disturbed
contents of the Notion target: what holds of them is `FinalIsComplete` and no more.
What a recursive function computes for every input, as `Sum` over the sentences of a
fallback, is bounded by cases (at most three sentences) instead of by induction.

## 6. What is not modelled

* **YAML syntax and environment**: anchors, nesting and duplicate keys, the
  service's environment variables: checks of data that the start refuses.
* **Feeds, HTML, Markdown, prompts, model replies as text**: parsing and
  formatting, one call in and one value out.
* **HTTP and MCP decoding, authorization, filters, the chunks of `get_content`**:
  no state. The health report is cached for 30 s, which no other part reads.
* **Observability and the changelog tool**: no state of the service.
* **Several export targets**: they share the claim statement and nothing else.
* **Retries in memory**: a crash loses the retries that wait for their timer,
  which is the design: `TaskHistory` shows that the outcome says so.
* **Priorities**: the heap is strict, and a stream of urgent tasks starves the
  others; no fairness of the code speaks against it.
* **Deliveries that kill the process**: an attempt is counted by `Fail`, so a
  content whose delivery ends the process each time is delivered again for ever.

## 7. Observations

Seen while modelling, contradicted by no document, and therefore not findings:

* `categorizeTags` runs after the tags were cut to `max_tags`; a tag in two
  categories is listed twice and the limit is exceeded
  (`StoredIsNormalized` counts words).
* Contents stored without processing, after a model was out of reach, are known
  from then on and are not processed again.
* An Atom entry whose published equals its updated date gets an empty published
  text, so that its ID changes with its first update.
* Two values of a definition are not validated when it is loaded: the route, which
  has only to be non-empty (`yaml_loader.go:303`), and `filter_time` of `direct_rss`.
  A scraper with an invalid one fails in each run. They are the exceptions that
  `AcceptedRuns` makes.
* The bullets of a fallback may together be longer than `max_summary_length`, and a
  summary that fails leaves the feed's own, whatever its length.
* A signal during the registration of the export targets does not end it: while
  another transaction keeps the target's row, the process cannot be stopped but by
  a kill.
* A registration and a batch that overlap may miss each other, and the content has no
  export until the next start (`missed` in `ContentStore`).
* One definition that cannot be built keeps the changes of all other files from
  being applied; `DirectoryIsApplied` excepts such a directory.
* A task that counts as cancelled or failed may have committed its contents.
* A delivery that relies on another instance's list may report a page that its
  creator has discarded (section 5, Notion target).

## 8. Plan

1. *Done*: all modules of section 2 and the proofs of section 5.
2. The cached health report of the HTTP API; several export targets in
   `ContentStore`.
3. Liveness proofs, should the prover come to handle `ENABLED`.
