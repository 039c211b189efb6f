--------------------------- MODULE ScrapeInvariants ----------------------------
(***************************************************************************)
(* The inductive invariant behind the safety properties of the scrape      *)
(* pipeline.  A result row is written from a message alone: db_manager     *)
(* never looks into rss_scrape_job_feeds.  That its rows stay within the   *)
(* job therefore rests on where messages come from, and the invariant      *)
(* follows a feed through all the places where it can be on its way.       *)
(***************************************************************************)
EXTENDS ScrapePipeline

\* Job j exists and feed f belongs to it, unless f was deleted meanwhile.
Member(j, f) ==
  /\ jobs[j].status # "none"
  /\ f \in feeds => f \in jobs[j].feeds

\* The rows of a job: none before the commit of its request, then results only
\* for its feeds.
JobRowsOf(j) ==
  /\ enqueue[j].pc \in {"idle", "create"} => jobs[j].status = "none"
  /\ enqueue[j].pc \in {"publish", "mark_failed", "done"} => jobs[j].status # "none"
  /\ jobs[j].status = "none" => jobs[j].feeds = {}
  /\ jobs[j].feeds \subseteq feeds
  /\ Cardinality(jobs[j].feeds) <= jobs[j].feed_count
  /\ ResultsOf(j) \subseteq jobs[j].feeds

JobRowsInv == \A j \in Jobs : JobRowsOf(j)

\* A coroutine about to publish holds a result of its own request.
FetchedInv ==
  \A task \in fetched :
    /\ requests.log[task[1]].form = "request"
    /\ task[2].job = requests.log[task[1]].job
    /\ task[2].feed \in FeedsIn(task[1])

\* Whatever is on its way, in the request, in a stream or in a coroutine, is
\* about a feed of an existing job.
MembersInv ==
  /\ \A j \in Jobs : enqueue[j].pc = "publish" => \A f \in enqueue[j].left : Member(j, f)
  /\ \A i \in 1..Len(requests.log) : \A f \in FeedsIn(i) : Member(requests.log[i].job, f)
  /\ \A kind \in Kinds : \A i \in 1..Len(streams[kind].log) :
       streams[kind].log[i].form = "result" =>
         Member(streams[kind].log[i].job, streams[kind].log[i].feed)

\* The stored status and the rows it was computed from; and how far the job is,
\* as long as none of its feeds is deleted.
StatusOf(j) ==
  /\ jobs[j].status \in Terminal => jobs[j].feeds \subseteq ResultsOf(j)
  /\ jobs[j].status = "completed" => ErrorsOf(j) = {}
  /\ jobs[j].status = "failed" => enqueue[j].pc = "error"
  /\ jobs[j].status = "queued" => ResultsOf(j) = {}
  /\ Cardinality(jobs[j].feeds) = jobs[j].feed_count =>
       /\ jobs[j].status = "queued" => jobs[j].feeds # {}
       /\ jobs[j].status = "processing" =>
            ResultsOf(j) # {} /\ ~ (jobs[j].feeds \subseteq ResultsOf(j))
       /\ jobs[j].status = "completed_with_errors" => ErrorsOf(j) # {}

StatusInv == \A j \in Jobs : StatusOf(j)

\* Each feed of a message in work is still to fetch, to publish, or published.
WorkInv ==
  \A i \in open : \A f \in FeedsIn(i) :
    \/ <<i, f>> \in todo
    \/ \E task \in fetched : task[1] = i /\ task[2].feed = f
    \/ Published(requests.log[i].job, f)

\* The message whose XACK is due is persisted, or its feed is gone.
AckingInv ==
  acking => \A m \in inbox :
    (IsNext(m) /\ Entry(m).form = "result" /\ Entry(m).feed \in feeds) =>
      results[Entry(m).job][Entry(m).feed] # "none"

\* Each feed of a job whose request did not fail is still to be sent or in a
\* request message.
InRequest(j, f) == \E i \in RequestsOf(j) : f \in FeedsIn(i)

CoverOf(j) ==
  /\ enqueue[j].pc = "done" => enqueue[j].left = {}
  /\ enqueue[j].pc \in {"publish", "done"} =>
       \A f \in jobs[j].feeds : f \in enqueue[j].left \/ InRequest(j, f)

CoverInv == \A j \in Jobs : CoverOf(j)

\* The worker's part of the invariant.
WorkerInv ==
  TypeOK /\ FetchedInv /\ WorkInv /\ AckedRequestsArePublished

\* What is on its way and what is committed.
PipelineInv ==
  /\ WorkerInv
  /\ JobRowsInv
  /\ MembersInv
  /\ AckingInv
  /\ AckedResultsArePersisted

\* The whole of it.
JobInv == PipelineInv /\ StatusInv /\ CoverInv

-------------------------------------------------------------------------------
(* The validators.  A version is read with the feeds of a job, carried by  *)
(* the request, compared by the worker, carried back by the result and     *)
(* stored; the invariant follows it, with the ingest flag beside it.       *)

\* The version may be stored for feed f.
Vouched(f, version) ==
  f \in feeds => \/ version = NoVersion
                \/ <<f, version>> \in sources
                \/ CheckedOrFailed(f, version)

\* The version a result carries may be stored once the result is recorded.
ResultVouched(result) ==
  \/ result.version = NoVersion
  \/ result.status = "error"
  \/ ~ result.ingest
  \/ result.status = "success" /\ result.content = result.version
  \/ result.status = "not_modified" /\ Vouched(result.feed, result.version)

\* The job exists and has this flag.
IngestOf(j, ingest) == jobs[j].status # "none" /\ jobs[j].ingest = ingest

SnapshotsInv ==
  \A j \in Jobs :
    /\ enqueue[j].pc = "publish" => IngestOf(j, enqueue[j].ingest)
    /\ \A f \in DOMAIN enqueue[j].feeds : Vouched(f, enqueue[j].feeds[f].version)

RequestVersionsInv ==
  \A i \in 1..Len(requests.log) :
    requests.log[i].form = "request" =>
      /\ IngestOf(requests.log[i].job, requests.log[i].ingest)
      /\ \A f \in FeedsIn(i) : Vouched(f, requests.log[i].feeds[f].version)

FetchedVersionsInv ==
  \A task \in fetched :
    IngestOf(task[2].job, task[2].ingest) /\ ResultVouched(task[2])

ResultVersionsInv ==
  \A kind \in Kinds : \A i \in 1..Len(streams[kind].log) :
    streams[kind].log[i].form = "result" =>
      /\ kind = StreamOf(streams[kind].log[i])
      /\ IngestOf(streams[kind].log[i].job, streams[kind].log[i].ingest)
      /\ ResultVouched(streams[kind].log[i])

VersionInv ==
  /\ StoredVersionIsIngested
  /\ SnapshotsInv
  /\ RequestVersionsInv
  /\ FetchedVersionsInv
  /\ ResultVersionsInv
===============================================================================
