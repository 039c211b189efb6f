------------------------------- MODULE JobReads --------------------------------
(***************************************************************************)
(* The scrape pipeline with a client that polls a job while it is          *)
(* processed.  Both read endpoints send several statements, each of which  *)
(* sees what is committed when it runs (READ COMMITTED): first the row of  *)
(* the job, then the counts of its results and, for GET /jobs/{id}/feeds,  *)
(* the list of its feeds.  An answer mixes the states of the statements.   *)
(***************************************************************************)
EXTENDS ScrapePipeline

VARIABLE reader   \* the request being served

NoRead == [phase |-> "none"]

readVars == <<vars, reader>>

ReadInit == Init /\ reader = NoRead

\* db.get(RssScrapeJob, job_id); an unknown job is a 404.
ReadJobRow(j) ==
  /\ reader = NoRead
  /\ jobs[j].status # "none"
  /\ reader' = [phase |-> "row read", job |-> j, seen |-> StatusRead(j)]
  /\ UNCHANGED vars

\* Mutant: the counts are taken first, then the row.
StatusAnswer_CountsFirst ==
  [reader.seen EXCEPT !.status = StatusRead(reader.job).status,
                      !.feeds_total = StatusRead(reader.job).feeds_total]

\* get_rss_scrape_job_status_read once the row is read: the counts of now, the
\* status and the total of then.
StatusAnswer ==
  [StatusRead(reader.job) EXCEPT !.status = reader.seen.status,
                                 !.feeds_total = reader.seen.feeds_total]

\* list_rss_scrape_job_feeds throws the status away and reads the feeds.
FeedsAnswer == [f \in jobs[reader.job].feeds |-> FeedRead(reader.job, f)]

\* The last statement, and the answer.
ReadAnswers ==
  /\ reader # NoRead
  /\ reader' = NoRead
  /\ UNCHANGED vars

ReadNext ==
  \/ Next /\ UNCHANGED reader
  \/ \E j \in Jobs : ReadJobRow(j)
  \/ ReadAnswers

ReadSpec == ReadInit /\ [][ReadNext]_readVars

-------------------------------------------------------------------------------

\* An answer given at any time after its first statement is one a client can
\* rely on, whatever db_manager, the backend and the catalog sync committed in
\* between: it never counts more feeds than the total; a job it calls completed
\* has all its remaining feeds counted, none of them as an error when it says
\* so, and a list fetched after that answer shows no feed as pending.
AnswersAreConsistent ==
  reader # NoRead =>
    /\ StatusAnswer.feeds_processed <= StatusAnswer.feeds_total
    /\ StatusAnswer.status \in Terminal =>
         /\ StatusAnswer.feeds_processed = Cardinality(jobs[reader.job].feeds)
         /\ \A f \in DOMAIN FeedsAnswer : FeedsAnswer[f] # "pending"
         /\ StatusAnswer.status = "completed" => StatusAnswer.feeds_error = 0
===============================================================================
