----------------------------- MODULE ScrapeState ------------------------------
(***************************************************************************)
(* The state the three services of the scrape pipeline share: the          *)
(* PostgreSQL tables they write and the Redis streams they talk through,   *)
(* with the operations on the tables as operators (one per function of     *)
(* the database clients).  A transaction is a single assignment to these   *)
(* variables, made by the action of the service that commits it.           *)
(*                                                                         *)
(* Abstractions.  The content of a feed is a version number; its two       *)
(* validators (ETag, Last-Modified) are one value, the version they name,  *)
(* or NoVersion.  The articles of a version are one element of sources.    *)
(***************************************************************************)
EXTENDS RedisStreams

CONSTANTS
  Jobs,          \* the job ids (uuid4) the enqueue requests draw
  Feeds,         \* the ids of rss_feeds rows; an id is never reused
  MaxVersion,    \* bound: versions of a feed's content during a behaviour
  CatalogProtections,  \* the fetchprotection values the RSS catalog gives its feeds
  FaultKinds,    \* which failures may happen in a run
  MaxFaults      \* bound: how many of them

ASSUME JobsAssumption == IsFiniteSet(Jobs)
ASSUME FeedsAssumption == IsFiniteSet(Feeds)
ASSUME MaxVersionAssumption == MaxVersion \in Nat \ {0}
ASSUME CatalogAssumption == CatalogProtections \subseteq 0..2
ASSUME MaxFaultsAssumption == MaxFaults \in Nat

NoVersion == 0
Versions == 1..MaxVersion

\* The check constraint of feeds_scraping.fetchprotection.
Protections == 0..2

\* rss_scrape_jobs.status; "none" stands for a row that does not exist.
JobStatuses ==
  {"none", "queued", "processing", "completed", "completed_with_errors", "failed"}

\* rss_scrape_job_results.status; "none" stands for a row that does not exist.
ResultStatuses == {"none", "success", "not_modified", "error"}

\* The result streams, by the queue_kind db_manager maps them to.
Kinds == {"check", "ingest", "error"}

VARIABLES
  feeds,      \* the ids in rss_feeds
  jobs,       \* rss_scrape_jobs, and rss_scrape_job_feeds as the field feeds
  results,    \* rss_scrape_job_results: the status column by (job_id, feed_id)
  scraping,   \* feeds_scraping
  sources,    \* rss_sources with rss_source_feeds: which content of which feed
  requests,   \* the stream rss_scrape_requests
  streams,    \* the streams rss_check_results, rss_ingest_results, error_feeds_parsing
  faults      \* failures so far

dbVars == <<feeds, jobs, results, scraping, sources>>
sharedVars == <<feeds, jobs, results, scraping, sources, requests, streams, faults>>

\* The rows of rss_scrape_job_feeds with one job_id.
JobFeedRows == SUBSET Feeds

JobRows ==
  [status : JobStatuses, ingest : BOOLEAN, feed_count : Nat, feeds : JobFeedRows]

ScrapingRows ==
  [fetchprotection : Protections, version : 0..MaxVersion, error_nbr : Nat, error_msg : BOOLEAN]

\* What a request carries about one feed (RssScrapeFeedPayloadSchema): the
\* protection and the validators read when the job was enqueued.
Snapshots == [fetchprotection : Protections, version : 0..MaxVersion]

\* An entry some other client of Redis wrote: JSON that fails the schema, bytes
\* that are not JSON, or no payload field.
ForeignEntries == [form : {"invalid", "garbled", "missing"}]

Request(j, ingest, snapshots) ==
  [form |-> "request", job |-> j, ingest |-> ingest, feeds |-> snapshots]

\* A request for no feed.
NoFeeds == [f \in {} |-> [fetchprotection |-> 1, version |-> NoVersion]]

NoJob == [status |-> "none", ingest |-> FALSE, feed_count |-> 0, feeds |-> {}]

\* The feeds_scraping row upsert_feed creates with a feed.
NewScraping(protection) ==
  [fetchprotection |-> protection, version |-> NoVersion, error_nbr |-> 0, error_msg |-> FALSE]

SharedInit ==
  /\ feeds = Feeds
  /\ jobs = [j \in Jobs |-> NoJob]
  /\ results = [j \in Jobs |-> [f \in Feeds |-> "none"]]
  /\ \E protection \in [Feeds -> CatalogProtections] :
       scraping = [f \in Feeds |-> NewScraping(protection[f])]
  /\ sources = {}
  /\ requests = EmptyStream
  /\ streams = [k \in Kinds |-> EmptyStream]
  /\ faults = 0

-------------------------------------------------------------------------------
(* Failures.  A step that needs n failures of a kind spends them.          *)

Spend(kind, n) ==
  /\ n > 0 => kind \in FaultKinds
  /\ faults + n <= MaxFaults
  /\ faults' = faults + n

\* A Redis command sent up to attempts times: failed of them ended in a
\* connection error or timeout, and lost of those had nevertheless been
\* executed by the server.
CommandOutcomes(attempts) ==
  {o \in [failed : 0..attempts, lost : 0..attempts] : o.lost <= o.failed}

\* The command returned to its caller; otherwise it raised.
Succeeded(o, attempts) == o.failed < attempts

\* How many times the server executed it.
Executions(o, attempts) == o.lost + IF Succeeded(o, attempts) THEN 1 ELSE 0

\* _REDIS_COMMAND_MAX_ATTEMPTS of the worker and of db_manager; the backend
\* sends its XADD once.
MaxAttempts == 2

-------------------------------------------------------------------------------
(* The tables.                                                             *)

ResultsOf(j) == {f \in Feeds : results[j][f] # "none"}
ErrorsOf(j) == {f \in Feeds : results[j][f] = "error"}

\* list_rss_feed_scrape_payloads for the selected feeds.
SnapshotOf(fs) ==
  [f \in fs |-> [fetchprotection |-> scraping[f].fetchprotection,
                 version |-> scraping[f].version]]

\* create_rss_scrape_job
CreateJob(j, ingest, fs) ==
  jobs' = [jobs EXCEPT ![j] =
             [status |-> IF fs = {} THEN "completed" ELSE "queued",
              ingest |-> ingest, feed_count |-> Cardinality(fs), feeds |-> fs]]

\* set_rss_scrape_job_status
SetStatus(j, status) == jobs' = [jobs EXCEPT ![j].status = status]

\* Variants: complete one result early; never complete; errors not looked at.
RefreshedStatus_Early(feed_count, processed, errors) ==
  IF feed_count = 0 THEN "completed"
  ELSE IF processed = 0 THEN "queued"
  ELSE IF processed + 1 < feed_count THEN "processing"
  ELSE IF errors > 0 THEN "completed_with_errors"
  ELSE "completed"

RefreshedStatus_Strict(feed_count, processed, errors) ==
  IF feed_count = 0 THEN "completed"
  ELSE IF processed = 0 THEN "queued"
  ELSE IF processed <= feed_count THEN "processing"
  ELSE IF errors > 0 THEN "completed_with_errors"
  ELSE "completed"

RefreshedStatus_NoErrors(feed_count, processed, errors) ==
  IF feed_count = 0 THEN "completed"
  ELSE IF processed = 0 THEN "queued"
  ELSE IF processed < feed_count THEN "processing"
  ELSE "completed"

\* The status refresh_rss_scrape_job_status computes from the two counts.
RefreshedStatus(feed_count, processed, errors) ==
  IF feed_count = 0 THEN "completed"
  ELSE IF processed = 0 THEN "queued"
  ELSE IF processed < feed_count THEN "processing"
  ELSE IF errors > 0 THEN "completed_with_errors"
  ELSE "completed"

\* insert_job_result_if_new inserts a row: the job exists and has none for the feed.
IsNew(result) ==
  /\ jobs[result.job].status # "none"
  /\ results[result.job][result.feed] = "none"

\* upsert_feed_scraping_state, as the new row of feed result.feed.
ScrapingAfter(row, result) ==
  [fetchprotection |-> result.fetchprotection,
   version |-> IF result.version # NoVersion THEN result.version ELSE row.version,
   error_nbr |-> IF result.status = "error" THEN row.error_nbr + 1 ELSE row.error_nbr,
   error_msg |-> result.status = "error"]

\* upsert_sources_for_feed
SourcesAfter(kind, result) ==
  IF kind = "ingest" /\ result.status = "success"
    THEN sources \cup {<<result.feed, result.content>>}
    ELSE sources

\* Variant: rss_scrape_job_results without ON DELETE CASCADE.
DeleteFeedRow_KeepsResults(f) ==
  /\ feeds' = feeds \ {f}
  /\ jobs' = [j \in Jobs |-> [jobs[j] EXCEPT !.feeds = @ \ {f}]]
  /\ results' = results
  /\ scraping' = [scraping EXCEPT ![f] = NewScraping(1)]
  /\ sources' = {s \in sources : s[1] # f}

\* DELETE FROM rss_feeds with its ON DELETE CASCADE foreign keys.
DeleteFeedRow(f) ==
  /\ feeds' = feeds \ {f}
  /\ jobs' = [j \in Jobs |-> [jobs[j] EXCEPT !.feeds = @ \ {f}]]
  /\ results' = [j \in Jobs |-> [results[j] EXCEPT ![f] = "none"]]
  /\ scraping' = [scraping EXCEPT ![f] = NewScraping(1)]
  /\ sources' = {s \in sources : s[1] # f}

-------------------------------------------------------------------------------
(* The read models of GET /jobs/{job_id} and GET /jobs/{job_id}/feeds.     *)

\* get_rss_scrape_job_status_read
StatusRead(j) ==
  [status |-> jobs[j].status,
   feeds_total |-> jobs[j].feed_count,
   feeds_processed |-> Cardinality(ResultsOf(j)),
   feeds_error |-> Cardinality(ErrorsOf(j))]

\* list_rss_scrape_job_feed_reads, for a feed with a rss_scrape_job_feeds row.
FeedRead(j, f) == IF results[j][f] = "none" THEN "pending" ELSE results[j][f]
===============================================================================
