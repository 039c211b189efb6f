---------------------------- MODULE ResultConsumer -----------------------------
(***************************************************************************)
(* db_manager's consumer loop (result_consumer_service.py), the            *)
(* transaction that persists one result (result_persistence_service.py)    *)
(* and its Redis client.  Messages of a read are handled one at a time,    *)
(* each in a transaction of its own, and acknowledged after its commit.    *)
(***************************************************************************)
EXTENDS ScrapeState

CONSTANT ConsumerReadCount     \* the count of read_worker_results, per stream

ASSUME ConsumerReadCountAssumption == ConsumerReadCount \in Nat \ {0}

VARIABLES
  consumer,   \* "down", "boot" (creating the groups), "up", "regroup"
  ensuring,   \* how many of the streams ensure_consumer_groups has been through
  inbox,      \* the messages of the current read still to handle: <<kind, id>>
  acking      \* the next of them is committed and its XACK is due

consumerVars == <<consumer, ensuring, inbox, acking>>

ConsumerInit ==
  /\ consumer = "down"
  /\ ensuring = 0
  /\ inbox = {}
  /\ acking = FALSE

\* The order in which ensure_consumer_groups creates the groups and in which
\* XREADGROUP returns the streams.
KindOrder == <<"check", "ingest", "error">>
Rank(kind) == IF kind = "check" THEN 1 ELSE IF kind = "ingest" THEN 2 ELSE 3

\* m is the next message of the read.
IsNext(m) ==
  /\ m \in inbox
  /\ \A n \in inbox : Rank(m[1]) < Rank(n[1]) \/ (m[1] = n[1] /\ m[2] <= n[2])

Entry(m) == streams[m[1]].log[m[2]]

-------------------------------------------------------------------------------
(* The process and its main loop.                                          *)

ConsumerStart ==
  /\ consumer = "down"
  /\ consumer' = "boot"
  /\ ensuring' = 0
  /\ UNCHANGED <<sharedVars, inbox, acking>>

\* ensure_consumer_groups, one stream.  After the last the loop (re)starts; an
\* error ends the process when it is booting, and is caught by the loop later.
ConsumerEnsureGroup(o) ==
  /\ consumer \in {"boot", "regroup"}
  /\ Spend("redis_command", o.failed)
  /\ LET kind == KindOrder[ensuring + 1]
     IN  streams' = IF Executions(o, MaxAttempts) > 0
                      THEN [streams EXCEPT ![kind] = XGroupCreate(@)] ELSE streams
  /\ IF Succeeded(o, MaxAttempts)
       THEN /\ ensuring' = IF ensuring = 2 THEN 0 ELSE ensuring + 1
            /\ consumer' = IF ensuring = 2 THEN "up" ELSE consumer
       ELSE /\ ensuring' = 0
            /\ consumer' = IF consumer = "boot" THEN "down" ELSE "up"
  /\ UNCHANGED <<dbVars, requests, inbox, acking>>

\* read_worker_results answered NOGROUP: a stream without the group suffices.
ConsumerNoGroup ==
  /\ consumer = "up"
  /\ inbox = {}
  /\ \E kind \in Kinds : ~ streams[kind].group
  /\ consumer' = "regroup"
  /\ ensuring' = 0
  /\ UNCHANGED <<sharedVars, inbox, acking>>

\* read_worker_results.  As in the worker, a lost reply leaves its messages
\* pending, and one message that is not JSON drops all of the read.
ConsumerRead(o) ==
  /\ consumer = "up"
  /\ inbox = {}
  /\ \A kind \in Kinds : streams[kind].group
  /\ \E kind \in Kinds : streams[kind].last < Len(streams[kind].log)
  /\ Spend("redis_command", o.failed)
  /\ LET behind == [kind \in Kinds |->
                      XReadGroup(streams[kind], o.lost * ConsumerReadCount)]
         ids(kind) == IF Succeeded(o, MaxAttempts)
                        THEN Undelivered(behind[kind], ConsumerReadCount) ELSE {}
         form(kind, i) == streams[kind].log[i].form
     IN  /\ streams' = IF Succeeded(o, MaxAttempts)
                         THEN [kind \in Kinds |-> XReadGroup(behind[kind], ConsumerReadCount)]
                         ELSE behind
         /\ inbox' = IF \A kind \in Kinds : \A i \in ids(kind) : form(kind, i) # "garbled"
                       THEN UNION {{<<kind, i>> : i \in {n \in ids(kind) : form(kind, n) # "missing"}}
                                     : kind \in Kinds}
                       ELSE {}
  /\ UNCHANGED <<dbVars, requests, consumer, ensuring, acking>>

-------------------------------------------------------------------------------
(* One message: _process_result_message.                                   *)

\* A message that fails the schema is acknowledged and otherwise ignored.
ConsumerInvalid(m) ==
  /\ IsNext(m) /\ ~ acking
  /\ Entry(m).form = "invalid"
  /\ acking' = TRUE
  /\ UNCHANGED <<sharedVars, consumer, ensuring, inbox>>

\* Variants: the duplicate still refreshes the job; it is counted as an error again.
ConsumerDuplicate_Refreshes(m) ==
  /\ IsNext(m) /\ ~ acking
  /\ Entry(m).form = "result"
  /\ ~ IsNew(Entry(m))
  /\ LET j == Entry(m).job
     IN  SetStatus(j, RefreshedStatus(jobs[j].feed_count, Cardinality(ResultsOf(j)),
                                      Cardinality(ErrorsOf(j))))
  /\ acking' = TRUE
  /\ UNCHANGED <<feeds, results, scraping, sources, requests, streams, faults,
                 consumer, ensuring, inbox>>

ConsumerDuplicate_CountsAgain(m) ==
  /\ IsNext(m) /\ ~ acking
  /\ Entry(m).form = "result"
  /\ ~ IsNew(Entry(m))
  /\ scraping' = [scraping EXCEPT ![Entry(m).feed] = ScrapingAfter(@, Entry(m))]
  /\ acking' = TRUE
  /\ UNCHANGED <<feeds, jobs, results, sources, requests, streams, faults,
                 consumer, ensuring, inbox>>

\* insert_job_result_if_new finds a row for this job and feed (or no job): the
\* transaction commits nothing.
ConsumerDuplicate(m) ==
  /\ IsNext(m) /\ ~ acking
  /\ Entry(m).form = "result"
  /\ ~ IsNew(Entry(m))
  /\ acking' = TRUE
  /\ UNCHANGED <<sharedVars, consumer, ensuring, inbox>>

\* persist_worker_result of the first result for this job and feed, committed.
ConsumerPersist(m) ==
  /\ IsNext(m) /\ ~ acking
  /\ Entry(m).form = "result"
  /\ LET result == Entry(m)
         j == result.job
         f == result.feed
     IN  /\ IsNew(result)
         /\ f \in feeds
         /\ results' = [results EXCEPT ![j][f] = result.status]
         /\ scraping' = [scraping EXCEPT ![f] = ScrapingAfter(@, result)]
         /\ sources' = SourcesAfter(m[1], result)
         /\ jobs' = [jobs EXCEPT ![j].status =
                       RefreshedStatus(jobs[j].feed_count,
                                       Cardinality(ResultsOf(j) \cup {f}),
                                       Cardinality(IF result.status = "error"
                                                     THEN ErrorsOf(j) \cup {f} ELSE ErrorsOf(j)))]
  /\ acking' = TRUE
  /\ UNCHANGED <<feeds, requests, streams, faults, consumer, ensuring, inbox>>

\* Variant: the message is acknowledged although the transaction was rolled back.
ConsumerRollback_Acks(m) ==
  /\ IsNext(m) /\ ~ acking
  /\ Entry(m).form = "result"
  /\ Spend("db_error", 1)
  /\ acking' = TRUE
  /\ UNCHANGED <<dbVars, requests, streams, consumer, ensuring, inbox>>

\* The transaction fails and is rolled back: always when the feed has been
\* deleted (foreign key), otherwise by an error of the database.  The message
\* is neither acknowledged nor kept.
ConsumerRollback(m) ==
  /\ IsNext(m) /\ ~ acking
  /\ Entry(m).form = "result"
  /\ \/ /\ IsNew(Entry(m))
        /\ Entry(m).feed \notin feeds
        /\ faults' = faults
     \/ Spend("db_error", 1)
  /\ inbox' = inbox \ {m}
  /\ UNCHANGED <<dbVars, requests, streams, consumer, ensuring, acking>>

\* Variant: the loop over the messages of a read ends with the first.
ConsumerAck_DropsRest(m, o) ==
  /\ IsNext(m) /\ acking
  /\ Spend("redis_command", o.failed)
  /\ streams' = [streams EXCEPT ![m[1]] = XAck(@, m[2])]
  /\ inbox' = {}
  /\ acking' = FALSE
  /\ UNCHANGED <<dbVars, requests, consumer, ensuring>>

\* ack_worker_result; an error drops the rest of the read.
ConsumerAck(m, o) ==
  /\ IsNext(m) /\ acking
  /\ Spend("redis_command", o.failed)
  /\ streams' = IF Executions(o, MaxAttempts) > 0
                  THEN [streams EXCEPT ![m[1]] = XAck(@, m[2])] ELSE streams
  /\ inbox' = IF Succeeded(o, MaxAttempts) THEN inbox \ {m} ELSE {}
  /\ acking' = FALSE
  /\ UNCHANGED <<dbVars, requests, consumer, ensuring>>

ConsumerCrash ==
  /\ consumer # "down"
  /\ Spend("consumer_crash", 1)
  /\ consumer' = "down"
  /\ ensuring' = 0
  /\ inbox' = {}
  /\ acking' = FALSE
  /\ UNCHANGED <<dbVars, requests, streams>>

-------------------------------------------------------------------------------
ConsumerHandles(m) ==
  \/ ConsumerInvalid(m)
  \/ ConsumerDuplicate(m)
  \/ ConsumerPersist(m)
  \/ ConsumerRollback(m)

\* The steps db_manager takes by itself.
ConsumerStep ==
  \/ ConsumerStart
  \/ ConsumerNoGroup
  \/ \E m \in inbox : ConsumerHandles(m)
  \/ \E o \in CommandOutcomes(MaxAttempts) :
       \/ ConsumerEnsureGroup(o)
       \/ ConsumerRead(o)
       \/ \E m \in inbox : ConsumerAck(m, o)

ConsumerNext == ConsumerStep \/ ConsumerCrash
===============================================================================
