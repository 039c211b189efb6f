# Manifeed: a TLA+ verification project

Manifeed collects RSS feeds. An administrator enqueues *scrape jobs*; the
backend writes them to PostgreSQL and publishes them to Redis streams; a worker
fetches the feeds and publishes one result per feed; `db_manager` persists the
results and recomputes the status of the job. Around that pipeline a git catalog
of feeds is synchronised into the database, administrators toggle feeds and
companies, sources are moved between partitions and migrations rewrite the
tables. This project models the pipeline and these parts in TLA+, checks them
with TLC on small instances and proves facts about them with TLAPS for all
instances.

## 1. The system

| Part | State it keeps | Operations | Talks to |
| --- | --- | --- | --- |
| backend, enqueueing (`rss_scrape_job_service.py`) | the requests being served | `POST /rss/feeds/check`, `POST /sources/ingest`: read feeds, commit the job, one XADD per batch, mark failed | PostgreSQL, Redis |
| backend, job reads | none | `GET /jobs/{id}`, `GET /jobs/{id}/feeds` | PostgreSQL |
| worker_rss_scrapper (`scrape_job_service.py`, queue and fetch clients) | running coroutines, Redis client, token cache, rate limiters | read requests, fetch feeds, publish results, acknowledge | Redis, RSS servers, backend |
| db_manager (`result_consumer_service.py`, `result_persistence_service.py`) | messages of the current read | create groups, read results, persist one in a transaction, acknowledge | Redis, PostgreSQL |
| Redis | four streams and two consumer groups, without a volume | XADD, XGROUP CREATE, XREADGROUP, XACK | |
| PostgreSQL | jobs, job feeds, results, scraping state, sources | transactions, cascades | |
| backend, catalog sync (`rss_sync_service.py`, `git_repository_utils.py`) | git clone, companies, feeds, tags, an ORM session | pull or clone, sync each changed file, commit or roll back | PostgreSQL, git |
| backend, toggles (`rss_toggle_service.py`) | `enabled` flags | enable or disable a feed or company | PostgreSQL |
| backend, job lock (`job_lock.py`) | local locks, advisory locks | acquire, refuse, release around sync, toggles, repartitioning | PostgreSQL |
| backend, source partitions | weekly partitions, id sequence | repartition the default partitions | PostgreSQL, against db_manager's upserts |
| db_manager, migrations | schema revision | upgrade with retries at startup; operator's `db-migrate`, `db-reset` | PostgreSQL |
| worker, rate limiter | a semaphore with timers per company | pace fetches; the HTTP client retries | RSS servers |
| worker, parsing | none | document to sources | |
| worker authentication | cached token, two clocks | issue, cache, refresh | backend |
| frontend-admin | page state | requests that overlap | backend |

What is hard about it: the three services share two stores and no transaction
spans both. Redis commands are repeated when their reply is lost, so messages
are duplicated; only new entries are read, so a message whose handling failed is
not redelivered; `asyncio.gather` lets coroutines outlive the loop iteration that
started them; the catalog sync deletes feeds under running jobs; each service
may die between any two of its steps. What makes the pipeline correct in spite
of that: acknowledgements never outrun the results they stand for, a job is
called completed only when all its feeds have a result, repeated results change
nothing, and without failures every job ends.

The other parts are hard for reasons of their own. The sync works on three
copies of the catalog (the remote, the clone, the tables), of which a failure
updates one and not the next, through a session with autoflush off; toggles
commit in the middle of it. Repartitioning deletes and inserts again every row
of the default partitions, statement by statement under READ COMMITTED, while
db_manager inserts. An advisory lock vanishes with its connection, or stays with
a pooled one; a lock's release can itself fail. A token lives on two clocks. Migrations must be undone on data that newer code wrote.

## 2. Modules

| Module | What it models |
| --- | --- |
| `RedisStreams` | One stream with its consumer group (external; from the calls the three `redis_queue_client.py` make) |
| `ScrapeState` | The tables and streams the services share, one operator per database client function; failures and their budget |
| `EnqueueService` | The backend's enqueue requests |
| `ScrapeWorker` | The worker: main loop, coroutines, fetch client, queue client |
| `ResultConsumer` | db_manager: group creation, read, transaction, acknowledgement |
| `ScrapePipeline` | Their composition with the catalog sync's effects and Redis' loss; the properties |
| `JobTracker` | The abstract specification: what the job endpoints promise, without queues |
| `ScrapeInvariants` | The parts of the inductive invariant |
| `JobReads` | The pipeline and a client that polls a job: both read endpoints, statement by statement |
| `CatalogSync` | Pushes, the pull or clone, the sync of each file through the ORM session, commit and rollback, both toggles |
| `JobLock` | `job_lock`: local lock, advisory lock, refusals, the release step by step with its failures, pooled and lost connections, crashes of backend processes |
| `SourcePartitions` | The statements of the repartitioning and of db_manager's upsert |
| `Migrations` | The six revisions up and down, the startup of db_manager, the operator's commands |
| `FetchLimiter` | The permits of a company, their timers, the retries of the HTTP client |
| `WorkerAuth` | Issuing, caching and expiry of the worker's token |
| `FeedParsing` | `parse_rss_feed_entries` and `normalize_feed_sources` on documents a publisher writes |
| `MC...` | For each of these, the model values, inputs and symmetry of its runs |
| `ScrapeSafetyProofs` | Lemmas on the stream operations; the type invariant; who writes what; acknowledgements; membership of messages |
| `ScrapeStatusProofs` | Status, error counter, validators, end-to-end completion; the pipeline implements `JobTracker`; the answers of the read endpoints |
| `CatalogSyncProofs` | The sync's session beside the toggles: foreign keys, flags; incremental syncs compose; lost feeds come back |
| `JobLockProofs` | The exclusion properties of `job_lock` |
| `SourcePartitionsProofs` | Repartitioning keeps the sources; the id sequence |
| `MigrationsProofs` | What migrations keep, undo and fail on |
| `FetchLimiterProofs` | Conservation of permits; the rate |
| `WorkerAuthProofs` | The worker's gate |

### State and actions

A *transaction* is one assignment to the tables by the action that commits it.
`jobs[j].feeds` holds the `rss_scrape_job_feeds` rows of a job, `results[j][f]`
the status column of `rss_scrape_job_results` (`"none"` when there is no row),
`scraping[f]` the `feeds_scraping` row, `sources` which content of which feed was
upserted. The content of a feed is a version number, and its two validators
(ETag, Last-Modified) are one value naming a version: that they can come from
different responses is abstracted away.

*Enqueueing.* `EnqueueRead` is the SELECT of the feeds, `EnqueueCreate` the
commit, `EnqueueReject` its failure (a feed deleted since the read violates a
foreign key), `EnqueuePublish` one `await publish_rss_scrape_job`,
`EnqueueMarkFailed` the write of `failed`, whose own failure the code swallows.
Requests interleave at these points with each other, with the sync (a threadpool
route) and with the other services. `_mix_feeds_by_company` decides which feeds
share a batch; the model lets any batch of the right size be next.

*Redis commands.* `CommandOutcomes(attempts)` lists what can become of a command
that the client sends up to `attempts` times (two in worker and db_manager, one
in the backend): how many attempts ended in a connection error or timeout, and
how many of those the server had executed. From it follow whether the call
raised (`Succeeded`) and how often it took effect (`Executions`). An XADD can
thus be in the stream twice, an XREADGROUP can have delivered messages nobody
received, an XACK can have worked although the call raised.

*Worker.* `batch` is what the main loop's gather waits for, `open` the messages
whose coroutine is alive, `todo` and `fetched` the feed coroutines before and
after their response. When a publish or an acknowledgement raises (`Abandon`)
the message will not be acknowledged and the loop goes on, while all the other
coroutines stay: exactly the effect of `gather` without `return_exceptions`.
`FetchResults` is `fetch_feed_result` by its outcomes. Authentication and the
rate limiter only delay steps.

*db_manager.* `ConsumerEnsureGroup` is one XGROUP CREATE, `ConsumerRead` the read
of three streams, then one of `ConsumerInvalid`, `ConsumerDuplicate`,
`ConsumerPersist`, `ConsumerRollback` per message and `ConsumerAck`.

*Failures.* `FaultKinds` says which may happen in a run, `MaxFaults` how many:
`redis_command`, `db_error`, `worker_crash`, `consumer_crash`, `backend_crash`,
`redis_lost` (the container is recreated), `foreign_entry` (another client wrote
to a stream), `feed_deleted` and `feed_upserted` (the catalog sync).

*Job reads.* `StatusAnswer` has the status and total of the first statement and
the counts of the second: any number of commits may lie between `ReadJobRow` and
`ReadAnswers`. The reader changes nothing, so one is enough.

*Catalog sync.* A revision of the repository gives each file a catalog, nothing,
or content that does not parse. `SyncRepository` is the pull or clone with the
list of files to process: all of them on a clone or with `force`, else those of
`git diff --name-only` whose line ends in `.json` (`ChangedFiles`). That list also
names files outside `json/`; it lacks the paths git prints between quotes
(`QuotedFiles`: those with characters outside ASCII), and the old path of what git
takes for a rename. `SyncFile` is one file in the session, `SyncCommit` the last
flush and the commit. `sync.session` keeps the identity map: objects loaded and
changed in memory, which SELECTs of the same session do not see until a flush
writes the changed columns. Columns nothing else reads (title, country, section,
host) are left out. The toggles are a read and a write each; a write waits for a
row the sync has flushed. Two pieces of state are for the properties only:
`sync.toggled`, the flag a toggle last answered for each url while the sync runs,
and `history`, with the catalogs that the pulls so far left unhandled (`missed`)
and the number of full syncs of the revision.

*Job lock.* One record per request thread: its phase, the name, `acquired_pg`, and
its lock connection: none, open, or lost without the thread knowing. A name
without an entry in `_PG_LOCK_IDS` skips the second lock. The `finally` clause is
three steps. `Unlock` releases the advisory lock; `UnlockFails` is a statement that
fails on a session that lives, which the code swallows. `Close` gives the
connection back to SQLAlchemy's pool, which ends its transaction and not its
session: what the session still holds stays held (`pooled`) until the pool hands
out that very connection (`AcquireKept`) or the session ends (`PooledEnds`).
`CloseRaises` is the rollback of `close()` meeting a lost session, in which case
`ReleaseLocal` is skipped. `unreleased` and `stuck` record, for the properties,
where either has happened.

*Source partitions.* A source is known by (url, published_at). Every statement of
the repartitioning is an action that reads what is committed then; its writes
become visible with `RepartCommits`, except `setval`, which takes effect at
once. `ParentLocked` and `RowLocked` are the locks that make a statement wait.

*Migrations.* A database is a record of what the revisions rewrite; a migration
maps it to the set of its results, empty when a constraint fails; `Upgraded` and
`Downgraded` chain them in one transaction. Releases that
wrote older revisions are not in the repository, so `StoreSource` and `StoreFeed`
store what the constraints of the current revision admit, and `StoreUnderSharedId`
a second source of an id in every revision but 4: the key is (id, published_at) in
all others.

*Fetch limiter.* Time is in ticks, `Second` of them in a second. `Read` starts the
coroutines of a message, which ask for a permit of their company in the order of
its feeds (`Ask`) and wait in the semaphore's queue. `Acquire` gives the first of
the queue a permit and starts its timer: `timers` are the fetches whose permit is
out, `age` the time since each began. `Release` is the callback of a timer, at its
time or later. A reply may come or never come; `Retry` takes no permit.

*Worker authentication.* A token is what is left of its life; `skew` is the
difference of the clocks and may change.

*Parsing.* Texts are sequences of words, dates and `<img>` tags; what the regular
expressions, `dateutil` and the query-string parser make of characters is given
by the tokens.

## 3. Runs

| Run | Instance | Properties |
| --- | --- | --- |
| `failures` (`MCJobReads`) | 1 job, 2 feeds in 2 batches, a polling client; any 2 of: failed command, crash of a service, database error, feed deleted | `TypeOK`, `AckedRequestsArePublished`, `AckedResultsArePersisted`, `AcknowledgedJobsComplete`, `StatusMatchesResults`, `CompletedJobsAreProcessed`, `StatusReadsAgree`, `AnswersAreConsistent`, `StatusNeverRegresses`, `TracksJobs` |
| `two_jobs` | 2 jobs of 1 feed with 2 versions, all replies; 1 failed command, catalog update, deletion, foreign entry or loss of Redis | `ErrorsCountedOnce`, `StoredVersionIsIngested`, `AcknowledgedJobsComplete` |
| `jobs_finish` | 2 jobs, 2 feeds, no failure, fairness | `JobsFinish` |
| `failed_overwritten` | 1 job, 2 feeds in 2 batches, 1 failed command | `FailedStaysFailed` is violated |
| `request_not_retried` | 1 job, 1 feed, 2 failed commands, fairness | `DeliveredRequestsAreAcked` is violated |
| `catalog` | 3 catalog files, one of them with a path git quotes, and one outside `json/`; 4 urls of which one moves, 16 revisions, 3 pushes, 1 failure, toggles of a feed and a company | `TypeOK`, `ClonedCatalogIsStored`, `SecondFullSyncRestores`, `SyncOrToggleSetsFlag` |
| `job_lock` | 3 threads in 2 processes, a name with and one without an advisory lock, 3 failures, fairness | `ExclusiveInProcess`, `ExclusiveAcrossProcesses`, `LocksHaveOwners`, `LocksAreFreed` |
| `partitions` | 2 undated and 2 dated sources, 4 upserts, 2 repartitionings | `TypeOK`, `NextIdIsFresh`, `RepartitionKeepsSources`, `OldSourcesSurvive` |
| `migrations` | 2 urls, 2 sources, 2 dates of which one is the time of the first downgrade, 3 downgrades, 5 failed attempts, fairness | `TypeOK`, `DowngradeIsUndone`, `OnlyTwinsBlockMigrations`, `ConsumesOnLatest`, `MigrationsKeepRows`, `StartupEnds` |
| `fetches` | 4 fetches of 2 messages, 2 permits, 2 ticks in a second, fairness | `TypeOK`, `FetchesAreLimited`, `EveryFetchBegins`, `FetchesAreIndependent` |
| `worker_auth` | lifetimes below, at and above the minimum, skews beyond the buffer on both sides, fairness | `GateIsCurrent`, `AuthenticatesAgain` |
| `feed_parsing` | 2 entries in 3 shapes of document; 32 ways to give an article its fields, every order of up to 3 of 6 images | `ImageIsLargest`, `ArticlesAreKept` |

Runs without a module in the table use `MCScrapePipeline` or the `MC` module of the
component. Deadlock is not an error where inputs are bounded (the last push, job
or entry has been used up); it is checked in `job_lock`.

*What they show.* `AnswersAreConsistent`: the order of the two statements (row
first, then counts) is what makes a `completed` answer reliable, since results
are only added. `StoredVersionIsIngested`: a feed whose next fetch answers
`not_modified` has the articles of that version, unless a recorded check or a
recorded error brought this very version (`CheckedOrFailed`): those store the
validator and no article. `ClonedCatalogIsStored`: incremental syncs compose; the
feeds of a company are those its file in the clone lists, but for the files that
the last pull changed and did not list, or whose sync was rolled back
(`history.missed`), until a sync handles them, and apart from urls that several
files list and companies that several files act for. `SecondFullSyncRestores`: what
one sync may lose when a url moves (below) a second full one brings back, unless
two files have the same company. `SyncOrToggleSetsFlag`: the session writes changed
columns only, so after a sync a feed has the flag the catalog gives it or exactly
the one the last toggle answered meanwhile, never the one that was loaded.
`OldSourcesSurvive`,
`RepartitionKeepsSources`: sources that exist when a repartitioning starts keep
id and link whatever overlaps it; alone, it changes nothing but the partition.
`LocksHaveOwners`, `LocksAreFreed`: a lock is held for a thread that will release it,
so a refused job can be repeated, with two exceptions: the local lock when
`close()` raised, the advisory lock when an unlock failed on a live session.
`DowngradeIsUndone`, `MigrationsKeepRows`, `OnlyTwinsBlockMigrations`: migrations
lose nothing in either direction and fail on the named rows and no others: up, on
shared ids in revisions 1 to 3 and on two undated sources of one url in 4; down, on
shared ids and on an undated source that cannot be dated.
`FetchesAreLimited`, `EveryFetchBegins`, `FetchesAreIndependent`: at most `MaxRps`
fetches of a company begin in any second, and servers that never answer hold up
no other feed. `GateIsCurrent`: the worker reads jobs only with a live token as
long as its clock is not behind by the buffer. `ImageIsLargest`,
`ArticlesAreKept`: merging candidates one by one gives the largest image over all
mentions, and an undated entry does not hide a dated one of the same url.

*Bounds.* Two feeds in batches of one are the least in which a job is partly
published, partly processed and partly failed; reads of two messages the least
in which one message of a read takes others down with it. Two failures cover
both attempts of one command, or a lost reply followed by a crash. The loss of
Redis and foreign entries multiply the states of the streams and are checked one
at a time in `two_jobs`; the theorems cover any mixture. Two jobs are
the least that overwrite each other's feed state; two versions the least in
which a validator can be stale. Three pushes are a first state, a change whose
sync fails, and a later change; two files the least between which a url moves, and
a third has the path that is quoted. Two threads of one process and one of another
exercise both locks against each other; three failures are a failed unlock, a lost
connection and a crash in one behaviour. Two repartitionings let the second find what the first left; four upserts
fill default and weekly partitions before, during and after. Five failed
attempts are one more than a start survives. Three images are the least in which
the order of equals and a merge interact. Symmetry over jobs and feeds is used
where the property is not a liveness property.

*The two violations.* (1) `doc/backend/backend.md` says that a job whose publish
fails is marked `failed`. The batches sent before are still processed, and
`refresh_rss_scrape_job_status` recomputes the status from the counts alone: the
job leaves `failed` again. (2) `doc/backend/worker_rss_scrapper.md` says that on a
queue failure the worker retries in its loop. The loop reads only new entries
(`>`), so a request whose publish or acknowledgement failed stays pending for
ever.

*Other behaviour a reader should know of.* The models also reach the following;
the properties above are stated around it, with the exception named in each.

- A url that moves to a file processed before its old one is deleted in that
  sync: `link_company_to_feed` changes the company in memory only, and the SELECT
  of `delete_company_feeds_not_in_urls` still finds it under the old one
  (`Undisturbed` in `ClonedCatalogIsStored`).
- Two catalog files that name the same company delete each other's feeds in every
  sync: each deletes what the company has and the file does not list (`Undisturbed`
  in `ClonedCatalogIsStored`, `OneFilePerCompany` in `SecondFullSyncRestores`).
- A forced sync walks the files that exist, so a deletion whose sync was rolled
  back is not applied; the feeds of that company stay.
- A changed file whose path git quotes is on no incremental list: its line ends in
  a quote, not in `.json`. Clone and tables differ until a forced sync (`missed` in
  `ClonedCatalogIsStored`).
- The old path of a renamed file is not on the list either: the company named after
  it keeps its feeds (`ClonedCatalogIsStored` is about files that exist).
- In the `finally` clause of `job_lock` `pg_lock_conn.close()` stands unguarded before
  `local_lock.release()`. When the session was lost after the unlock, or after a
  refusal, its rollback raises, the local lock stays taken, and the process answers
  409 for that job until it is restarted, although `JobAlreadyRunning` is
  documented as "Raised when a named job is already in progress." (`stuck` in
  `LocksHaveOwners` and `LocksAreFreed`).
- An unlock that fails on a live session is swallowed; the pooled session keeps the
  advisory lock, and the job is refused everywhere but on that connection
  (`unreleased` in `LocksHaveOwners` and `LocksAreFreed`).
- A check result, and an error of a feed that answered but could not be parsed,
  store the validators: a later ingest is answered `not_modified` for content whose
  articles were never stored (`CheckedOrFailed` in `StoredVersionIsIngested`).
- A `.json` file outside `json/` that changes is handled as a missing catalog of
  its name, and deletes the feeds of a company of that name (`Undisturbed`).
- A feed toggle that has checked its company may write after the company was
  disabled: the two toggles hold locks of different names.
- `sources_repartition_partitions` has no advisory lock id: two backend processes
  may repartition at once (`PgNames` in `ExclusiveAcrossProcesses`).
- A source committed between the copy of the default partition and its DELETE is
  lost (`repart.old` in `OldSourcesSurvive`).
- `setval` to the MAX(id) that is visible may take back an id an upsert in flight
  has drawn; the primary key (id, published_at) admits the second use (`mixed` in
  `NextIdIsFresh`).
- Retries of a request take no permit: the limit is one on fetches, not on
  requests.
- An article whose url has more than 1000 characters makes its feed an error
  (`Parsed` in `ArticlesAreKept`).

*Fairness.* The pipeline's `FairSpec`: weak fairness of each received request, of
the worker and of db_manager: their event loops run, their containers are
restarted (`restart: unless-stopped`), an RSS server answers or times out, and
the worker's token is issued. No fairness on failures, on the environment, on
feeds being updated, or on a request being made. `JobsFinish` also assumes that
all groups exist when the job is created, since groups start at `$`: a job
published before the worker's first start is skipped. `JobLock`: a thread inside
`job_lock` keeps running, nothing in it blocks, and bodies end. `Migrations`: the
process runs and Docker restarts it; nothing is assumed of the operator.
`FetchLimiter`: timers fire and sleeps end; nothing is assumed of servers, except
in `FetchesAreIndependent` of the one whose fetch is meant. `WorkerAuth`: the loop
runs, and a backend that is up again and again answers in time (strong fairness,
since an attempt may be interrupted by a timeout, without which no token could
ever be had).

## 4. Proofs

The theorems hold for the `Spec` of their module (`ReadSpec` for the reader) and
for every value of its constants that satisfies the named ASSUMEs of the module
that declares them.

- *Pipeline:* `Jobs` and `Feeds` are finite; `BatchSize`, `WorkerReadCount`,
  `ConsumerReadCount` and `MaxVersion` positive; `MaxFaults` a number; `Replies`
  among `WebReplies`; protections of the catalog within the check constraint.
- *CatalogSync:* finitely many files in an order, any of them with a quoted path; every content a revision gives
  a file is one the schema of a catalog admits (`IsContent`), absent or broken;
  what is toggled is among `Urls` and `Names`.
- *SourcePartitions:* finitely many sources, each with a week.
- *Migrations:* dates are later than the epoch.
- *FetchLimiter:* `MaxRps` and `Second` are positive.
- *WorkerAuth:* times are numbers; a request times out before the shortest token
  that is issued expires.

| Theorem | Statement |
| --- | --- |
| `TypeCorrect` | `Spec => []TypeOK` |
| `AckedRequestsPublished` | `Spec => []AckedRequestsArePublished` |
| `AckedResultsPersisted` | `Spec => []AckedResultsArePersisted` |
| `ReadsAgree` | `Spec => []StatusReadsAgree` |
| `ErrorsAreCountedOnce` | `Spec => []ErrorsCountedOnce` |
| `CompletedJobsProcessed` | `Spec => []CompletedJobsAreProcessed` |
| `StatusFitsResults` | `Spec => []StatusMatchesResults` |
| `AcknowledgedJobsAreComplete` | `Spec => []AcknowledgedJobsComplete` |
| `StatusAdvances` | `Spec => StatusNeverRegresses` |
| `StoredVersionsIngested` | `Spec => []StoredVersionIsIngested` |
| `PipelineTracksJobs` | `Spec => TracksJobs` |
| `AnswersConsistent` (JobReads) | `ReadSpec => []AnswersAreConsistent` |
| `CatalogTypeCorrect` (CatalogSync) | `Spec => []TypeOK` |
| `FlagsSerialisable` (CatalogSync) | `Spec => SyncOrToggleSetsFlag` |
| `CloneStored` (CatalogSync) | `Spec => []ClonedCatalogIsStored` |
| `FullSyncsRestore` (CatalogSync) | `Spec => []SecondFullSyncRestores` |
| `InProcessExclusion` (JobLock) | `Spec => []ExclusiveInProcess` |
| `CrossProcessExclusion` (JobLock) | `Spec => []ExclusiveAcrossProcesses` |
| `LocksAreOwned` (JobLock) | `Spec => []LocksHaveOwners` |
| `PartitionsTypeCorrect` (SourcePartitions) | `Spec => []TypeOK` |
| `NextIdFresh` (SourcePartitions) | `Spec => []NextIdIsFresh` |
| `OldSourcesKept` (SourcePartitions) | `Spec => OldSourcesSurvive` |
| `RepartitionKeeps` (SourcePartitions) | `Spec => RepartitionKeepsSources` |
| `MigrationsTypeCorrect` (Migrations) | `Spec => []TypeOK` |
| `BlockedByTwinsOnly` (Migrations) | `Spec => []OnlyTwinsBlockMigrations` |
| `DowngradeUndone` (Migrations) | `Spec => []DowngradeIsUndone` |
| `RowsKept` (Migrations) | `Spec => MigrationsKeepRows` |
| `ConsumerOnLatest` (Migrations) | `Spec => []ConsumesOnLatest` |
| `LimiterTypeCorrect` (FetchLimiter) | `Spec => []TypeOK` |
| `FetchesLimited` (FetchLimiter) | `Spec => []FetchesAreLimited` |
| `GateHolds` (WorkerAuth) | `Spec => GateIsCurrent` |

*The pipeline.* The inductive invariant is `JobInv` of `ScrapeInvariants`. None of
the properties is inductive alone, for three reasons.

1. An XACK of the worker says something about results that other coroutines
   published. `WorkInv` follows each feed of an open message from `todo` through
   `fetched` to a stream, and `FetchedInv` ties the result a coroutine holds to
   its own request.
2. db_manager writes a result row from the message alone; it never consults
   `rss_scrape_job_feeds`. That its rows stay within the job (without which the
   count of results could reach `feed_count` with a feed missing) rests on where
   messages come from: `MembersInv` says that whatever is still to be sent, in a
   request message or in a result message belongs to an existing job, unless its
   feed has been deleted meanwhile; `JobRowsInv` draws the consequence for the
   tables. `AckingInv` needs it too: a result is skipped as a duplicate also
   when its job does not exist, and then nothing would have been persisted.
3. The status is stored, not computed when read. `StatusInv` relates it to the
   rows, including after deletions; `CoverInv` follows each feed of a job from
   the request's remaining batches into a request message. Together with 1 and 2
   it gives the end-to-end theorem.

`StoredVersionsIngested` needs `VersionInv`: a validator travels from the table
through a request, a request message, a coroutine and a result message back into
the table, and whichever of these holds one, either its version has been ingested,
or the articles travel with it, or a recorded check or error brought that version.

*Layout.* `StepWriters` reduces every step to the writers of each piece of state;
`RequestsGrow` and `StreamsGrow` say that logs only grow, by entries of known
origin; `CreateFacts`, `MarkFailedFacts`, `PersistFacts` and `DeleteFacts` say
what each transaction does to the rows. Every part of the invariant is then kept
by a case per writer. The refinement maps the transactions to the tracker's
actions and everything else to stuttering. For the reader, `ReaderInv` says what
the row read first still says of its job however many transactions follow: the
total is the same, and a final status covers the feeds that are left.

*Catalog sync.* What is committed depends on what the session holds in memory, has
flushed and has locked. `SessionInv` says of each url what the row the transaction
sees and the object in memory may be: their tags and company exist; a row without
a company is that of an object whose next flush gives it one; the flag of the row
is the one that was loaded or the one the last toggle answered (`Answered`); a flag
in memory that differs from the loaded one, and so will be written, is one that an
entry handled so far gives it; and for a feed such an entry lists, the flag in
memory is the catalog's or that of the row the answered one. A lemma for each operation of the session
says that it keeps `SessionInv`; `EntriesKeep` carries it through the loop over the
entries, by a smallest counterexample on the sessions of its turns (`TurnsExist`:
those exist for every sequence of entries). A toggle may change a row the sync has
loaded but not written; `ToggledSession` shows why that is harmless: a flush writes
only the columns that changed in memory. `CatalogInv` adds the committed rows, and
that a row a toggle has read is there unless the sync's commit marked it gone.

The last two theorems are about the tables when no sync runs, and say nothing of
the session between two such states; `StoredInv` adds it. The difficulty is that a
feed has two companies at a time: `link_company_to_feed` sets the one in memory,
`delete_company_feeds_not_in_urls` looks for the one in the row. `Owner` is the
company a feed has once the session is flushed; `OwnerInv` says that a loaded feed
knows the company of its row, that a company in memory which differs from it is one
this sync has linked the url to, and that a row has no company but those some
revision could give it. `FileEffect` says what handling one file does to the owners:
what it lists has its company; anything else keeps its owner, or is deleted, the
latter only if a row of it may have that company. `StoredSession` then follows the
sync file by file: a file is stored once it has been handled, and before it if it is
not on the list and was not missed. For a rollback `StoredInv` also says of the
committed rows, while the sync runs, that they store every file that is neither
missed nor `Pending`, that is, handled by the sync in progress. A full sync's list
has every catalog
(`WalkCovers`), which is why it makes good what was missed. After a first full sync
with one file for each company, a row has a company whose file lists its url
(`Settled`), so that the second deletes nothing that is listed (`SettledSession`).
The proof failed for an
earlier form of both properties, which did not except companies named by two files;
the counterexample is the behaviour described above.

*The job lock.* Its theorems hold for any threads, processes, names and number of
failures. `LockInv` adds to `LocksHaveOwners` what the locks hold while a thread is
on its way in or out: a thread inside is the one holder of its local lock
(`LocalHeld`); in which phases it has a connection and the flag (`Connected`); a body whose name has an id has
the advisory lock until it loses its connection (`PgHeld`); and at most one session
has it, be it that of a thread or one of the pool (`OneHolder`), which is why
`AcquireKept` takes nothing away from anyone.

*Source partitions.* What is committed cannot tell whether a repartitioning in
progress will restore it. `PartitionsInv` ties the copies the transaction holds,
and what it has deleted, created and restored but not committed, to the rows that
were there when it began, phase by phase. That `MAX(id)` is an upper bound is an
induction over a finite set; it is proved by taking a smallest counterexample
(`Bounded`, from the well-foundedness of `<`), as the library's induction theorems
cannot be instantiated.

*Migrations.* `Good` is the constraints of a revision and two facts they do not
state: the rows are finitely many (so `setval` has a value), and no id is beyond the
sequence. That no two sources share an id is part of it for revision 4 only, whose
key says so; the invariant adds that the clock is past the epoch, else a downgrade
would date sources with what it takes for undated. A lemma for each of the twelve
migrations says that it keeps `Good`, what of the rows it keeps (`Kept`) and on
which rows it fails; `ThroughFacts` and `BackFacts` carry all three along the
chain of a command.

*Fetch limiter.* `LimiterInv` says that permits are conserved: those in the
semaphore and those out with a timer add up to `MaxRps`, and a fetch that began
less than a second ago still has its permit out. A company's fetches of the last
second are therefore among its timers.

*Worker authentication.* `AuthInv` relates what is left of a token on the backend's
clock to what the worker's clock says, also for an answer under way, whose age is
bounded by the timeout.

*Only model-checked.* All liveness properties: liveness under fairness is out of
the prover's reach. The properties of `FeedParsing`, which declares a RECURSIVE
operator (documents are trees), about which nothing can be proved here. Every other
invariant and action property of the passing runs is a theorem. The two violations
are TLC's counterexamples.

## 5. What is not modelled

Left out of the pipeline: `company.enabled` and `feed.enabled` (the selection of
feeds is arbitrary), the two validators as separate values, article contents,
timestamps, an ETag too long for its column; the effects of the repartitioning
on a running ingest are those of `SourcePartitions`.

Not modelled: the frontend's pages (React state and fetches without any logic of
their own, except that a late response for an earlier filter replaces a newer
one, which is listed as a hazard); the read endpoints for sources and feeds and
their pagination (single SELECTs without state); icons, health, error mapping and
application setup (plumbing); white space, country and host normalisation of the
catalog; the characters of XML, HTML, dates and query strings;
`rss_feed_validation.py`, which no service calls; DDL that moves no data.

## 6. Plan

1. *Pipeline* (done), with its reader (done).
2. *CatalogSync*, *JobLock*, *SourcePartitions*, *Migrations*, *FetchLimiter*,
   *WorkerAuth*, *FeedParsing* (done).
3. *Proofs* of the pipeline and its reader, of `JobLock`, `SourcePartitions`,
   `Migrations`, `FetchLimiter`, `WorkerAuth` and `CatalogSync` (done).
4. What is left: `FeedParsing` is checked by TLC only. A bounded depth of documents
   would do without the RECURSIVE operator, but what the parser's loops compute
   for every document would still be an induction over data.
