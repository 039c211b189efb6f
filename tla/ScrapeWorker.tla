----------------------------- MODULE ScrapeWorker ------------------------------
(***************************************************************************)
(* worker_rss_scrapper (scrape_job_service.py, its Redis client and its    *)
(* RSS fetch client).  The main loop reads a batch of request messages and *)
(* gathers one coroutine per message, which gathers one per company, which *)
(* gathers one per feed.  None of the gathers collects exceptions: the     *)
(* first one that is raised resumes the main loop, while the coroutines    *)
(* beside it keep running.                                                 *)
(***************************************************************************)
EXTENDS ScrapeState

CONSTANTS
  WorkerReadCount,   \* WORKER_QUEUE_READ_COUNT
  Replies            \* what the RSS servers may do in a run, see WebReplies

ASSUME WorkerReadCountAssumption == WorkerReadCount \in Nat \ {0}

VARIABLES
  worker,    \* "down" or "up"
  batch,     \* the messages the main loop's gather is waiting for
  open,      \* the messages whose coroutine has neither finished nor raised
  todo,      \* the feed coroutines that have not got their response: <<id, feed>>
  fetched,   \* the feed coroutines about to publish: <<id, result>>
  site       \* the version each RSS server serves

workerVars == <<worker, batch, open, todo, fetched, site>>

\* The RSS server cannot be reached (after three attempts), answers with a
\* validator, answers without one, or answers with a body that does not parse.
WebReplies == {"unreachable", "tagged", "untagged", "malformed"}

ASSUME RepliesAssumption == Replies \subseteq WebReplies

WorkerInit ==
  /\ worker = "down"
  /\ batch = {}
  /\ open = {}
  /\ todo = {}
  /\ fetched = {}
  /\ site = [f \in Feeds |-> 1]

-------------------------------------------------------------------------------
(* Fetching.                                                               *)

\* A result message (ScrapeResultSchema).  content is the version whose
\* articles it carries.
Result(request, f, status, version, content) ==
  [form |-> "result", job |-> request.job, ingest |-> request.ingest, feed |-> f,
   status |-> status, fetchprotection |-> request.feeds[f].fetchprotection,
   version |-> version, content |-> content]

\* _is_same_version
IsSameVersion(snapshot, validator) ==
  snapshot.version # NoVersion /\ validator # NoVersion /\ snapshot.version = validator

\* fetch_feed_result: the results it can return for a reply of the server.
\* The server answers 304 only to a request that names its current version,
\* and a 304 may lack the validator as any other answer may.  A success without
\* one takes the date the parsed feed gives, if it gives one.
FetchResults(request, f, reply) ==
  LET snapshot == request.feeds[f]
      validator == IF reply = "untagged" THEN NoVersion ELSE site[f]
      unchanged == snapshot.version = site[f]
      error(version) == Result(request, f, "error", version, NoVersion)
      not_modified == Result(request, f, "not_modified", validator, NoVersion)
      success(version) == Result(request, f, "success", version, site[f])
  IN  IF snapshot.fetchprotection = 0 \/ reply = "unreachable" THEN {error(NoVersion)}
      ELSE IF IsSameVersion(snapshot, validator) THEN {not_modified}
      ELSE (IF unchanged THEN {not_modified} ELSE {})
             \cup (IF reply = "malformed" THEN {error(validator)}
                   ELSE {success(version) : version \in {validator, site[f]}})

\* Variant: the ingest flag of the job is not consulted.
StreamOf_IgnoresIngest(result) == IF result.status = "error" THEN "error" ELSE "check"

\* _process_feed: the stream a result is published to.
StreamOf(result) ==
  IF result.status = "error" THEN "error"
  ELSE IF result.ingest THEN "ingest" ELSE "check"

-------------------------------------------------------------------------------
(* The process and its main loop.                                          *)

\* The container starts and run_scrape_worker creates its group.  An error
\* leaves the process, which is restarted.
WorkerStart(o) ==
  /\ worker = "down"
  /\ Spend("redis_command", o.failed)
  /\ requests' = IF Executions(o, MaxAttempts) > 0 THEN XGroupCreate(requests) ELSE requests
  /\ worker' = IF Succeeded(o, MaxAttempts) THEN "up" ELSE "down"
  /\ UNCHANGED <<dbVars, streams, batch, open, todo, fetched, site>>

\* The messages of a read.  One that is not JSON makes read_scrape_jobs raise:
\* the others of the read are dropped with it.
Readable(ids) == \A i \in ids : requests.log[i].form # "garbled"

\* The feeds of message i, none when it fails the schema.
FeedsIn(i) ==
  IF requests.log[i].form = "request" THEN DOMAIN requests.log[i].feeds ELSE {}

\* read_scrape_jobs when the main loop waits for nothing.  A read whose reply
\* was lost has still moved its messages to the pending list.
WorkerRead(o) ==
  /\ worker = "up"
  /\ batch = {}
  /\ requests.group
  /\ requests.last < Len(requests.log)
  /\ Spend("redis_command", o.failed)
  /\ LET behind == XReadGroup(requests, o.lost * WorkerReadCount)
         ids == IF Succeeded(o, MaxAttempts) THEN Undelivered(behind, WorkerReadCount) ELSE {}
         messages == {i \in ids : requests.log[i].form # "missing"}
     IN  /\ requests' = IF Succeeded(o, MaxAttempts)
                          THEN XReadGroup(behind, WorkerReadCount) ELSE behind
         /\ IF Readable(ids)
              THEN /\ batch' = messages
                   /\ open' = open \cup messages
                   /\ todo' = todo \cup {task \in messages \X Feeds : task[2] \in FeedsIn(task[1])}
              ELSE UNCHANGED <<batch, open, todo>>
  /\ UNCHANGED <<dbVars, streams, worker, fetched, site>>

\* read_scrape_jobs answered NOGROUP: the group is created anew, at the end of
\* the stream.  An error here is caught by the main loop.
WorkerRegroup(o) ==
  /\ worker = "up"
  /\ batch = {}
  /\ ~ requests.group
  /\ Spend("redis_command", o.failed)
  /\ requests' = IF Executions(o, MaxAttempts) > 0 THEN XGroupCreate(requests) ELSE requests
  /\ UNCHANGED <<dbVars, streams, workerVars>>

\* Variant: the main loop keeps waiting for a message that raised.
Abandon_KeepsBatch(i) == open' = open \ {i} /\ batch' = batch

\* A coroutine of message i raised: the message will not be acknowledged and,
\* if the main loop was waiting for it, the loop goes on to its next read.
Abandon(i) ==
  /\ open' = open \ {i}
  /\ batch' = IF i \in batch THEN {} ELSE batch

-------------------------------------------------------------------------------
(* The coroutines.                                                         *)

\* fetch_feed_result for feed f of message i.
WorkerFetch(i, f, reply) ==
  /\ <<i, f>> \in todo
  /\ \E result \in FetchResults(requests.log[i], f, reply) :
       fetched' = fetched \cup {<<i, result>>}
  /\ todo' = todo \ {<<i, f>>}
  /\ UNCHANGED <<sharedVars, worker, batch, open, site>>

\* publish_error_result, publish_ingest_result or publish_check_result.
WorkerPublish(i, result, o) ==
  /\ <<i, result>> \in fetched
  /\ Spend("redis_command", o.failed)
  /\ streams' = [streams EXCEPT ![StreamOf(result)] =
                   XAdd(@, result, Executions(o, MaxAttempts))]
  /\ fetched' = fetched \ {<<i, result>>}
  /\ IF Succeeded(o, MaxAttempts) THEN UNCHANGED <<open, batch>> ELSE Abandon(i)
  /\ UNCHANGED <<dbVars, requests, worker, todo, site>>

\* Variant: results that are fetched but not yet published do not hold back the XACK.
Finished_WhenFetched(i) == \A task \in todo : task[1] # i

\* All feed coroutines of message i are through.
Finished(i) ==
  /\ \A task \in todo : task[1] # i
  /\ \A task \in fetched : task[1] # i

\* ack_scrape_job, after the gather of a valid message or for an invalid one.
WorkerAck(i, o) ==
  /\ i \in open
  /\ Finished(i)
  /\ Spend("redis_command", o.failed)
  /\ requests' = IF Executions(o, MaxAttempts) > 0 THEN XAck(requests, i) ELSE requests
  /\ IF Succeeded(o, MaxAttempts)
       THEN open' = open \ {i} /\ batch' = batch \ {i}
       ELSE Abandon(i)
  /\ UNCHANGED <<dbVars, streams, worker, todo, fetched, site>>

\* The process dies with all its coroutines.
WorkerCrash ==
  /\ worker = "up"
  /\ Spend("worker_crash", 1)
  /\ worker' = "down"
  /\ batch' = {}
  /\ open' = {}
  /\ todo' = {}
  /\ fetched' = {}
  /\ UNCHANGED <<dbVars, requests, streams, site>>

\* The publisher of feed f updates it.
SiteUpdate(f) ==
  /\ site[f] < MaxVersion
  /\ site' = [site EXCEPT ![f] = @ + 1]
  /\ UNCHANGED <<sharedVars, worker, batch, open, todo, fetched>>

-------------------------------------------------------------------------------
WorkerLoop(o) == WorkerStart(o) \/ WorkerRead(o) \/ WorkerRegroup(o)

WorkerFetches == \E task \in todo, reply \in Replies : WorkerFetch(task[1], task[2], reply)

WorkerPublishes(o) == \E task \in fetched : WorkerPublish(task[1], task[2], o)

WorkerAcks(o) == \E i \in open : WorkerAck(i, o)

\* The steps the worker takes by itself.
WorkerStep ==
  \/ WorkerFetches
  \/ \E o \in CommandOutcomes(MaxAttempts) : WorkerLoop(o) \/ WorkerPublishes(o) \/ WorkerAcks(o)

WorkerNext ==
  \/ WorkerStep
  \/ WorkerCrash
  \/ \E f \in Feeds : SiteUpdate(f)
===============================================================================
