---------------------------- MODULE EnqueueService -----------------------------
(***************************************************************************)
(* The backend's enqueue requests, POST /rss/feeds/check and POST          *)
(* /sources/ingest (rss_scrape_job_service.py).  A request is identified   *)
(* with the job id it draws.  Its steps are those other processes can see  *)
(* or get between: the read of the feeds, the commit of the job, one XADD  *)
(* per batch (each an await), and the write of "failed".                   *)
(***************************************************************************)
EXTENDS ScrapeState

CONSTANT BatchSize      \* RSS_SCRAPE_QUEUE_BATCH_SIZE

ASSUME BatchSizeAssumption == BatchSize \in Nat \ {0}

VARIABLE enqueue        \* the requests, by job id

EnqueuePCs ==
  {"idle", "create", "publish", "mark_failed",  \* under way
   "done", "rejected", "error", "crashed"}      \* 200, 500, 502, no answer

EnqueueInit ==
  enqueue = [j \in Jobs |->
               [pc |-> "idle", ingest |-> FALSE, feeds |-> NoFeeds, left |-> {}]]

\* The backend sends a batch once: an error leaves open whether Redis took it.
PublishAttempts == 1

\* The sets of feeds _iter_feed_batches can cut next; which of them it is
\* depends on the order _mix_feeds_by_company gives the feeds.
NextBatches(left) ==
  {b \in SUBSET left :
     Cardinality(b) = IF Cardinality(left) < BatchSize THEN Cardinality(left) ELSE BatchSize}

\* Variant: an error of publish_rss_scrape_job is swallowed.
PublishRaised_Never(o) == FALSE

\* publish_rss_scrape_job raised.
PublishRaised(o) == ~ Succeeded(o, PublishAttempts)

-------------------------------------------------------------------------------
\* list_rss_feed_scrape_payloads: any selection of the feeds (feed_ids,
\* enabled_only), with the scraping state they have now.
EnqueueRead(j, ingest, fs) ==
  /\ enqueue[j].pc = "idle"
  /\ fs \subseteq feeds
  /\ enqueue' = [enqueue EXCEPT ![j] =
                   [pc |-> "create", ingest |-> ingest, feeds |-> SnapshotOf(fs), left |-> fs]]
  /\ UNCHANGED sharedVars

\* create_rss_scrape_job and commit.  A feed deleted since the read fails the
\* foreign key of rss_scrape_job_feeds and with it the whole transaction.
EnqueueCreate(j) ==
  /\ enqueue[j].pc = "create"
  /\ enqueue[j].left \subseteq feeds
  /\ CreateJob(j, enqueue[j].ingest, enqueue[j].left)
  /\ enqueue' = [enqueue EXCEPT ![j].pc = IF enqueue[j].left = {} THEN "done" ELSE "publish"]
  /\ UNCHANGED <<feeds, results, scraping, sources, requests, streams, faults>>

EnqueueReject(j) ==
  /\ enqueue[j].pc = "create"
  /\ \/ ~ (enqueue[j].left \subseteq feeds) /\ faults' = faults
     \/ Spend("db_error", 1)
  /\ enqueue' = [enqueue EXCEPT ![j].pc = "rejected"]
  /\ UNCHANGED <<dbVars, requests, streams>>

\* publish_rss_scrape_job for the next batch: the request goes on, or it stops
\* at the first error, the remaining batches unsent.
EnqueuePublish(j, batch, o) ==
  /\ enqueue[j].pc = "publish"
  /\ batch \in NextBatches(enqueue[j].left)
  /\ Spend("redis_command", o.failed)
  /\ requests' =
       XAdd(requests,
            Request(j, enqueue[j].ingest, [f \in batch |-> enqueue[j].feeds[f]]),
            Executions(o, PublishAttempts))
  /\ enqueue' =
       IF PublishRaised(o)
         THEN [enqueue EXCEPT ![j].pc = "mark_failed"]
         ELSE [enqueue EXCEPT ![j].left = @ \ batch,
                              ![j].pc = IF enqueue[j].left = batch THEN "done" ELSE "publish"]
  /\ UNCHANGED <<dbVars, streams>>

\* _mark_job_as_failed_after_publish_error; an error of its own is swallowed.
EnqueueMarkFailed(j) ==
  /\ enqueue[j].pc = "mark_failed"
  /\ \/ SetStatus(j, "failed") /\ faults' = faults
     \/ Spend("db_error", 1) /\ jobs' = jobs
  /\ enqueue' = [enqueue EXCEPT ![j].pc = "error"]
  /\ UNCHANGED <<feeds, results, scraping, sources, requests, streams>>

\* The backend process dies: the requests it was serving are gone.
BackendCrash ==
  /\ Spend("backend_crash", 1)
  /\ enqueue' = [j \in Jobs |->
                   IF enqueue[j].pc \in {"create", "publish", "mark_failed"}
                     THEN [enqueue[j] EXCEPT !.pc = "crashed"]
                     ELSE enqueue[j]]
  /\ UNCHANGED <<dbVars, requests, streams>>

\* The steps a request takes once it has been received.
EnqueueStep(j) ==
  \/ EnqueueCreate(j)
  \/ EnqueueReject(j)
  \/ \E batch \in SUBSET Feeds, o \in CommandOutcomes(PublishAttempts) :
       EnqueuePublish(j, batch, o)
  \/ EnqueueMarkFailed(j)

EnqueueNext ==
  \/ \E j \in Jobs, ingest \in BOOLEAN, fs \in SUBSET Feeds : EnqueueRead(j, ingest, fs)
  \/ \E j \in Jobs : EnqueueStep(j)
  \/ BackendCrash
===============================================================================
