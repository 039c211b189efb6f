---------------------------- MODULE ScrapePipeline -----------------------------
(***************************************************************************)
(* The scrape pipeline: backend, worker_rss_scrapper and db_manager around *)
(* PostgreSQL and Redis, with the catalog sync that deletes feeds under    *)
(* running jobs, and the loss of Redis' data set.                          *)
(***************************************************************************)
EXTENDS EnqueueService, ScrapeWorker, ResultConsumer

vars == <<sharedVars, enqueue, workerVars, consumerVars>>

Init ==
  /\ SharedInit
  /\ EnqueueInit
  /\ WorkerInit
  /\ ConsumerInit

-------------------------------------------------------------------------------
(* What happens around the three services.                                 *)

\* POST /rss/sync commits a catalog in which feed f is gone
\* (delete_company_feeds_not_in_urls).
SyncDeletesFeed(f) ==
  /\ f \in feeds
  /\ Spend("feed_deleted", 1)
  /\ DeleteFeedRow(f)
  /\ UNCHANGED <<requests, streams, enqueue, workerVars, consumerVars>>

\* POST /rss/sync commits a catalog that gives feed f a protection
\* (upsert_feed keeps the larger of the two).
SyncUpsertsFeed(f, protection) ==
  /\ f \in feeds
  /\ protection > scraping[f].fetchprotection
  /\ Spend("feed_upserted", 1)
  /\ scraping' = [scraping EXCEPT ![f].fetchprotection = protection]
  /\ UNCHANGED <<feeds, jobs, results, sources, requests, streams,
                 enqueue, workerVars, consumerVars>>

\* The Redis container is recreated; it has no volume.
RedisLost ==
  /\ Spend("redis_lost", 1)
  /\ requests' = XLost(requests)
  /\ streams' = [kind \in Kinds |-> XLost(streams[kind])]
  /\ UNCHANGED <<dbVars, enqueue, workerVars, consumerVars>>

\* Another client writes to a stream (the Redis port is published).
ForeignWrite(entry) ==
  /\ Spend("foreign_entry", 1)
  /\ \/ requests' = XAdd(requests, entry, 1) /\ streams' = streams
     \/ \E kind \in Kinds :
          streams' = [streams EXCEPT ![kind] = XAdd(@, entry, 1)] /\ requests' = requests
  /\ UNCHANGED <<dbVars, enqueue, workerVars, consumerVars>>

Environment ==
  \/ \E f \in Feeds : SyncDeletesFeed(f)
  \/ \E f \in Feeds, protection \in CatalogProtections : SyncUpsertsFeed(f, protection)
  \/ RedisLost
  \/ \E entry \in ForeignEntries : ForeignWrite(entry)

Next ==
  \/ EnqueueNext /\ UNCHANGED <<workerVars, consumerVars>>
  \/ WorkerNext /\ UNCHANGED <<enqueue, consumerVars>>
  \/ ConsumerNext /\ UNCHANGED <<enqueue, workerVars>>
  \/ Environment

Spec == Init /\ [][Next]_vars

\* The event loops and the container restarts of the services make progress;
\* a request, once received, runs to its end.  No fairness on failures, on
\* the environment, or on a request being made.
Fairness ==
  /\ \A j \in Jobs : WF_vars(EnqueueStep(j) /\ UNCHANGED <<workerVars, consumerVars>>)
  /\ WF_vars(WorkerStep /\ UNCHANGED <<enqueue, consumerVars>>)
  /\ WF_vars(ConsumerStep /\ UNCHANGED <<enqueue, workerVars>>)

FairSpec == Spec /\ Fairness

-------------------------------------------------------------------------------
(* Types.                                                                  *)

SnapshotSets == UNION {[fs -> Snapshots] : fs \in SUBSET Feeds}

RequestEntries ==
  [form : {"request"}, job : Jobs, ingest : BOOLEAN, feeds : SnapshotSets]

ResultEntries ==
  [form : {"result"}, job : Jobs, ingest : BOOLEAN, feed : Feeds,
   status : ResultStatuses \ {"none"}, fetchprotection : Protections,
   version : 0..MaxVersion, content : 0..MaxVersion]

RequestsTypeOK == requests \in Streams(RequestEntries \cup ForeignEntries) /\ WellFormed(requests)

StreamsTypeOK ==
  /\ streams \in [Kinds -> Streams(ResultEntries \cup ForeignEntries)]
  /\ \A kind \in Kinds : WellFormed(streams[kind])

TablesTypeOK ==
  /\ feeds \subseteq Feeds
  /\ jobs \in [Jobs -> JobRows]
  /\ results \in [Jobs -> [Feeds -> ResultStatuses]]
  /\ scraping \in [Feeds -> ScrapingRows]
  /\ sources \subseteq Feeds \X (0..MaxVersion)

EnqueueTypeOK ==
  /\ enqueue \in [Jobs -> [pc : EnqueuePCs, ingest : BOOLEAN,
                           feeds : SnapshotSets, left : SUBSET Feeds]]
  /\ \A j \in Jobs : enqueue[j].left \subseteq DOMAIN enqueue[j].feeds

WorkerTypeOK ==
  /\ worker \in {"down", "up"}
  /\ batch \subseteq open
  /\ open \subseteq 1..Len(requests.log)
  /\ \A task \in todo :
       /\ task \in (1..Len(requests.log)) \X Feeds
       /\ task[2] \in FeedsIn(task[1])
  /\ \A task \in fetched : task \in (1..Len(requests.log)) \X ResultEntries
  /\ site \in [Feeds -> Versions]

ConsumerTypeOK ==
  /\ consumer \in {"down", "boot", "up", "regroup"}
  /\ ensuring \in 0..2
  /\ \A m \in inbox : m[1] \in Kinds /\ m = <<m[1], m[2]>> /\ m[2] \in 1..Len(streams[m[1]].log)
  /\ acking \in BOOLEAN
  /\ acking => inbox # {}

\* Every table, stream and process keeps to its type: rows satisfy the check
\* constraints, message ids point into their stream, coroutines and the
\* consumer's inbox hold messages that exist.
TypeOK ==
  /\ TablesTypeOK
  /\ RequestsTypeOK
  /\ StreamsTypeOK
  /\ EnqueueTypeOK
  /\ WorkerTypeOK
  /\ ConsumerTypeOK
  /\ faults \in Nat

-------------------------------------------------------------------------------
(* Safety.                                                                 *)

Terminal == {"completed", "completed_with_errors"}

RequestsOf(j) == {i \in 1..Len(requests.log) :
                    requests.log[i].form = "request" /\ requests.log[i].job = j}
ResultsFor(kind, j) == {i \in 1..Len(streams[kind].log) :
                          streams[kind].log[i].form = "result" /\ streams[kind].log[i].job = j}

\* A result for feed f of job j has been written to a result stream.
Published(j, f) ==
  \E kind \in Kinds : \E i \in ResultsFor(kind, j) : streams[kind].log[i].feed = f

\* A job that refresh_rss_scrape_job_status calls completed has a result for
\* each of its feeds, however many of its messages were repeated, dropped or
\* late and whichever feeds were deleted meanwhile; and "completed" means none
\* of them is an error.
CompletedJobsAreProcessed ==
  \A j \in Jobs : jobs[j].status \in Terminal =>
    /\ \A f \in jobs[j].feeds : FeedRead(j, f) # "pending"
    /\ jobs[j].status = "completed" => StatusRead(j).feeds_error = 0

\* GET /jobs/{id} and GET /jobs/{id}/feeds agree: the aggregate counts exactly
\* the feeds the list does not show as pending, and never more than the total.
StatusReadsAgree ==
  \A j \in Jobs :
    /\ StatusRead(j).feeds_processed = Cardinality({f \in jobs[j].feeds : FeedRead(j, f) # "pending"})
    /\ StatusRead(j).feeds_processed <= StatusRead(j).feeds_total

\* As long as none of its feeds is deleted, the stored status of a job tells
\* how far it is: no result yet, some, all without an error, all with one; or the
\* backend declared it failed.
StatusMatchesResults ==
  \A j \in Jobs :
    (jobs[j].status # "none" /\ Cardinality(jobs[j].feeds) = jobs[j].feed_count) =>
      LET none == ResultsOf(j) = {}
          all == jobs[j].feeds \subseteq ResultsOf(j)
      IN  \/ jobs[j].status = "failed"
          \/ jobs[j].status = "queued" /\ none /\ ~ all
          \/ jobs[j].status = "processing" /\ ~ none /\ ~ all
          \/ jobs[j].status = "completed" /\ all /\ ErrorsOf(j) = {}
          \/ jobs[j].status = "completed_with_errors" /\ all /\ ErrorsOf(j) # {}

\* feeds_scraping.error_nbr counts each failed job of a feed once: repeated
\* result messages and redelivered transactions are not counted again.
ErrorsCountedOnce ==
  \A f \in feeds : scraping[f].error_nbr = Cardinality({j \in Jobs : results[j][f] = "error"})

\* The worker acknowledges a request only when a result of each of its feeds
\* is in a result stream, whatever its other coroutines did.
AckedRequestsArePublished ==
  \A i \in requests.acked : \A f \in FeedsIn(i) : Published(requests.log[i].job, f)

\* db_manager acknowledges a result only when its row is committed, or can no
\* longer be because the feed is gone.
AckedResultsArePersisted ==
  \A kind \in Kinds : \A i \in streams[kind].acked :
    LET entry == streams[kind].log[i]
    IN  (entry.form = "result" /\ entry.feed \in feeds) => results[entry.job][entry.feed] # "none"

\* End to end: a job whose request was answered 200, and of which every request
\* and every result message is acknowledged, has a final status unless one of
\* its feeds was deleted.
AcknowledgedJobsComplete ==
  \A j \in Jobs :
    (/\ enqueue[j].pc = "done"
     /\ Cardinality(jobs[j].feeds) = jobs[j].feed_count
     /\ RequestsOf(j) \subseteq requests.acked
     /\ \A kind \in Kinds : ResultsFor(kind, j) \subseteq streams[kind].acked)
      => jobs[j].status \in Terminal

\* A recorded result brought this very version without its articles: a result of
\* a check job, or of a feed that answered and could not be parsed.
CheckedOrFailed(f, version) ==
  \E kind \in Kinds : \E i \in 1..Len(streams[kind].log) :
    LET entry == streams[kind].log[i]
    IN  /\ entry.form = "result" /\ entry.feed = f /\ entry.version = version
        /\ results[entry.job][f] = entry.status
        /\ entry.status = "error" \/ ~ jobs[entry.job].ingest

\* A validator stored for a feed, which makes later fetches answer
\* not_modified, names content that was ingested; the only validators that do
\* not are those a recorded check, or a recorded error, brought with it.
StoredVersionIsIngested ==
  \A f \in feeds :
    \/ scraping[f].version = NoVersion
    \/ <<f, scraping[f].version>> \in sources
    \/ CheckedOrFailed(f, scraping[f].version)

-------------------------------------------------------------------------------
(* Action properties.                                                      *)

Progress(status) ==
  IF status = "none" THEN 0 ELSE IF status = "queued" THEN 1
  ELSE IF status = "processing" THEN 2 ELSE 3

\* The status a client polls never goes back, except that the backend may
\* declare a job failed; in particular late and repeated results never reopen
\* a completed job.
StatusNeverRegresses ==
  [][\A j \in Jobs :
       \/ jobs'[j].status = "failed"
       \/ jobs[j].status = "failed"
       \/ jobs'[j].status = jobs[j].status
       \/ Progress(jobs[j].status) < Progress(jobs'[j].status)]_vars

\* A job the backend reported as failed (502 to its client) stays failed.
FailedStaysFailed ==
  [][\A j \in Jobs : jobs[j].status = "failed" => jobs'[j].status = "failed"]_vars

-------------------------------------------------------------------------------
(* Refinement.                                                             *)

Tracker ==
  INSTANCE JobTracker WITH
    status <- [j \in Jobs |-> jobs[j].status],
    total <- [j \in Jobs |-> jobs[j].feed_count],
    pending <- [j \in Jobs |-> {f \in jobs[j].feeds : results[j][f] = "none"}],
    fine <- [j \in Jobs |-> {f \in Feeds : results[j][f] \in {"success", "not_modified"}}],
    bad <- [j \in Jobs |-> ErrorsOf(j)]

\* The tables the pipeline writes through messages that may be lost, repeated
\* or late are those of the abstract tracker: every transaction of db_manager
\* records a pending feed of an existing job, once, and leaves the status that
\* the recorded results call for.
TracksJobs == Tracker!TrackerSpec

-------------------------------------------------------------------------------
(* Liveness.                                                               *)

\* Every group exists, so nothing published from now on is skipped.
GroupsReady == requests.group /\ \A kind \in Kinds : streams[kind].group

\* Without failures, a job enqueued once the groups exist gets a final status.
JobsFinish ==
  \A j \in Jobs : (enqueue[j].pc = "create" /\ GroupsReady) ~> (jobs[j].status \in Terminal)

\* A request the worker has been given is eventually acknowledged: when Redis or
\* the network fails, run_scrape_worker's loop retries it until it succeeds.
DeliveredRequestsAreAcked ==
  \A i \in 1..(Cardinality(Jobs) * Cardinality(Feeds)) : (i \in requests.pending) ~> (i \in requests.acked)
===============================================================================
