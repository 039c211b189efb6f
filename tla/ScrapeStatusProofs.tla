-------------------------- MODULE ScrapeStatusProofs ---------------------------
(***************************************************************************)
(* What clients are told about their jobs: the status, the counts and the  *)
(* error counter of a feed, for any jobs, feeds, bounds and number of      *)
(* failures.  Everything here rests on PipelineInv, by which the rows      *)
(* db_manager writes stay within the job they are counted against.         *)
(***************************************************************************)
EXTENDS ScrapeSafetyProofs, JobReads

\* The transaction of a result counts it where it should: once in the rows of
\* its job, and within the feeds of the job.
LEMMA PersistCounts ==
  ASSUME PipelineInv, NEW m \in inbox, ConsumerPersist(m), NEW j \in Jobs, j = Entry(m).job
  PROVE  /\ Entry(m).feed \in ResultsOf(j)'
         /\ ResultsOf(j)' = ResultsOf(j) \cup {Entry(m).feed}
         /\ ErrorsOf(j)' =
              IF Entry(m).status = "error" THEN ErrorsOf(j) \cup {Entry(m).feed} ELSE ErrorsOf(j)
         /\ ResultsOf(j)' \subseteq jobs[j].feeds
         /\ ErrorsOf(j)' \subseteq ResultsOf(j)'
         /\ IsFiniteSet(jobs[j].feeds)
         /\ Cardinality(jobs[j].feeds) <= jobs[j].feed_count
         /\ jobs[j].feed_count \in Nat
         /\ jobs'[j].status = RefreshedStatus(jobs[j].feed_count, Cardinality(ResultsOf(j)'),
                                              Cardinality(ErrorsOf(j)'))
<1> DEFINE r == Entry(m)
<1>1. TypeOK /\ JobRowsInv /\ MembersInv BY DEF PipelineInv, WorkerInv
<1>2. r \in ResultEntries /\ r.form = "result" /\ r.feed \in feeds BY <1>1, PersistFacts
<1>3. r.feed \in Feeds /\ r.status # "none" BY <1>2 DEF ResultEntries
<1>4. \A f \in Feeds : results'[j][f] = IF f = r.feed THEN r.status ELSE results[j][f]
  BY <1>1, PersistFacts
<1>5. results[j][r.feed] = "none" BY <1>1, PersistFacts
<1>6. jobs'[j].status = RefreshedStatus(jobs[j].feed_count, Cardinality(ResultsOf(j) \cup {r.feed}),
                          Cardinality(IF r.status = "error" THEN ErrorsOf(j) \cup {r.feed} ELSE ErrorsOf(j)))
  BY <1>1, PersistFacts
<1>7. Member(j, r.feed) BY <1>1, <1>2, InboxFacts DEF MembersInv, Entry
<1> HIDE DEF r
<1>8. ResultsOf(j)' = ResultsOf(j) \cup {r.feed} BY <1>3, <1>4 DEF ResultsOf
<1>9. ErrorsOf(j)' = IF r.status = "error" THEN ErrorsOf(j) \cup {r.feed} ELSE ErrorsOf(j)
  BY <1>3, <1>4, <1>5 DEF ErrorsOf
<1>10. ErrorsOf(j)' \subseteq ResultsOf(j)' BY DEF ResultsOf, ErrorsOf
<1>11. ResultsOf(j)' \subseteq jobs[j].feeds
  BY <1>1, <1>2, <1>7, <1>8 DEF JobRowsInv, JobRowsOf, Member
<1>12. IsFiniteSet(jobs[j].feeds) /\ jobs[j].feed_count \in Nat
  BY <1>1, FeedsAssumption, FS_Subset DEF TypeOK, TablesTypeOK, JobRows, JobFeedRows
<1>13. Cardinality(jobs[j].feeds) <= jobs[j].feed_count BY <1>1 DEF JobRowsInv, JobRowsOf
<1>14. jobs'[j].status = RefreshedStatus(jobs[j].feed_count, Cardinality(ResultsOf(j)'),
                                         Cardinality(ErrorsOf(j)'))
  BY <1>6, <1>8, <1>9
<1> QED BY <1>8, <1>9, <1>10, <1>11, <1>12, <1>13, <1>14 DEF r

\* The transaction of a result leaves the other jobs alone.
LEMMA PersistOthers ==
  ASSUME PipelineInv, NEW m \in inbox, ConsumerPersist(m), NEW j \in Jobs, j # Entry(m).job
  PROVE  ResultsOf(j)' = ResultsOf(j) /\ ErrorsOf(j)' = ErrorsOf(j) /\ jobs'[j] = jobs[j]
<1>1. TypeOK BY DEF PipelineInv, WorkerInv
<1>2. jobs'[j] = jobs[j] /\ \A f \in Feeds : results'[j][f] = results[j][f] BY <1>1, PersistFacts
<1> QED BY <1>2 DEF ResultsOf, ErrorsOf

-------------------------------------------------------------------------------
(* The error counter of a feed.                                            *)

FailedJobs(f) == {j \in Jobs : results[j][f] = "error"}

\* Only the first error of a job for a feed is counted.
LEMMA ErrorsStep ==
  ASSUME PipelineInv, ErrorsCountedOnce, Writers
  PROVE  ErrorsCountedOnce'
<1>1. TypeOK BY DEF PipelineInv, WorkerInv
<1>2. TablesStep /\ ScrapingStep BY DEF Writers
<1>3. scraping \in [Feeds -> ScrapingRows] /\ feeds \subseteq Feeds
  BY <1>1 DEF TypeOK, TablesTypeOK
<1> SUFFICES ASSUME NEW f \in feeds'
             PROVE  scraping'[f].error_nbr = Cardinality(FailedJobs(f)')
  BY DEF ErrorsCountedOnce, FailedJobs
<1>4. f \in feeds /\ f \in Feeds BY <1>1, <1>2, <1>3, FeedsShrink
<1>5. scraping[f].error_nbr = Cardinality(FailedJobs(f)) BY <1>4 DEF ErrorsCountedOnce, FailedJobs
<1>6. IsFiniteSet(FailedJobs(f)) BY JobsAssumption, FS_Subset DEF FailedJobs
<1>7. ASSUME NEW m \in inbox, ConsumerPersist(m)
      PROVE  scraping'[f].error_nbr = Cardinality(FailedJobs(f)')
  <2> DEFINE r == Entry(m)
  <2>1. /\ r \in ResultEntries /\ results[r.job][r.feed] = "none"
        /\ \A j \in Jobs, g \in Feeds :
             results'[j][g] = IF j = r.job /\ g = r.feed THEN r.status ELSE results[j][g]
    BY <1>1, <1>7, PersistFacts
  <2>2. r.job \in Jobs /\ r.feed \in Feeds BY <2>1 DEF ResultEntries
  <2>3. scraping' = [scraping EXCEPT ![r.feed] = ScrapingAfter(scraping[r.feed], r)]
    BY <1>7 DEF ConsumerPersist
  <2> HIDE DEF r
  <2>4. CASE f # r.feed
    <3>1. scraping'[f] = scraping[f] BY <1>3, <1>4, <2>3, <2>4
    <3>2. FailedJobs(f)' = FailedJobs(f) BY <1>4, <2>1, <2>4 DEF FailedJobs
    <3> QED BY <1>5, <3>1, <3>2
  <2>5. CASE f = r.feed
    <3>1. scraping'[f] = ScrapingAfter(scraping[f], r) BY <1>3, <1>4, <2>3, <2>5
    <3>2. CASE r.status = "error"
      <4>1. FailedJobs(f)' = FailedJobs(f) \cup {r.job} /\ r.job \notin FailedJobs(f)
        BY <1>4, <2>1, <2>2, <2>5, <3>2 DEF FailedJobs
      <4>2. Cardinality(FailedJobs(f)') = Cardinality(FailedJobs(f)) + 1
        BY <1>6, <4>1, FS_AddElement
      <4>3. scraping'[f].error_nbr = scraping[f].error_nbr + 1
        BY <3>1, <3>2 DEF ScrapingAfter
      <4> QED BY <1>5, <4>2, <4>3
    <3>3. CASE r.status # "error"
      <4>1. FailedJobs(f)' = FailedJobs(f) BY <1>4, <2>1, <2>2, <2>5, <3>3 DEF FailedJobs
      <4>2. scraping'[f].error_nbr = scraping[f].error_nbr BY <3>1, <3>3 DEF ScrapingAfter
      <4> QED BY <1>5, <4>1, <4>2
    <3> QED BY <3>2, <3>3
  <2> QED BY <2>4, <2>5
<1>8. ASSUME NEW g \in Feeds, SyncDeletesFeed(g)
      PROVE  scraping'[f].error_nbr = Cardinality(FailedJobs(f)')
  <2>1. f # g BY <1>1, <1>8, DeleteFacts
  <2>2. FailedJobs(f)' = FailedJobs(f) BY <1>1, <1>4, <1>8, <2>1, DeleteFacts DEF FailedJobs
  <2>3. scraping'[f] = scraping[f]
    BY <1>3, <1>4, <1>8, <2>1 DEF SyncDeletesFeed, DeleteFeedRow
  <2> QED BY <1>5, <2>2, <2>3
<1>9. CASE /\ \A m \in inbox : ~ ConsumerPersist(m)
           /\ \A g \in Feeds : ~ SyncDeletesFeed(g)
  <2>1. results' = results BY <1>1, <1>2, <1>9, CreateFacts, MarkFailedFacts DEF TablesStep
  <2>2. scraping'[f].error_nbr = scraping[f].error_nbr
    <3>1. ASSUME NEW g \in Feeds, NEW p \in CatalogProtections, SyncUpsertsFeed(g, p)
          PROVE  scraping'[f].error_nbr = scraping[f].error_nbr
      <4>1. scraping' = [scraping EXCEPT ![g].fetchprotection = p] BY <3>1 DEF SyncUpsertsFeed
      <4>2. scraping[f] \in ScrapingRows BY <1>3, <1>4
      <4> QED BY <1>3, <1>4, <4>1, <4>2 DEF ScrapingRows
    <3> QED BY <1>2, <1>9, <3>1 DEF ScrapingStep
  <2>3. FailedJobs(f)' = FailedJobs(f) BY <2>1 DEF FailedJobs
  <2> QED BY <1>5, <2>2, <2>3
<1> QED BY <1>7, <1>8, <1>9

\* upsert_feed_scraping_state: error_nbr counts each job that failed for a feed
\* once, whatever is redelivered, repeated or rolled back.
THEOREM ErrorsAreCountedOnce == Spec => []ErrorsCountedOnce
<1>1. Init => ErrorsCountedOnce
  <2> SUFFICES ASSUME Init, NEW f \in feeds
               PROVE  scraping[f].error_nbr = Cardinality(FailedJobs(f))
    BY DEF ErrorsCountedOnce, FailedJobs
  <2>1. feeds = Feeds /\ results = [j \in Jobs |-> [g \in Feeds |-> "none"]]
    BY DEF Init, SharedInit
  <2>2. FailedJobs(f) = {} BY <2>1 DEF FailedJobs
  <2>3. PICK protection \in [Feeds -> CatalogProtections] :
          scraping = [g \in Feeds |-> NewScraping(protection[g])]
    BY DEF Init, SharedInit
  <2>4. scraping[f].error_nbr = 0 BY <2>1, <2>3 DEF NewScraping
  <2> QED BY <2>2, <2>4, FS_EmptySet
<1>2. PipelineInv /\ ErrorsCountedOnce /\ [Next]_vars => PipelineInv' /\ ErrorsCountedOnce'
  BY PipelineStep, ErrorsStep, StepWriters
<1> QED BY <1>1, <1>2, PipelineInit, PTL DEF Spec

-------------------------------------------------------------------------------
(* The validators.                                                         *)

\* The ingest flag of a job is set with its row and never changed.
LEMMA IngestStable ==
  ASSUME PipelineInv, TablesStep, NEW j \in Jobs, NEW ingest, IngestOf(j, ingest)
  PROVE  IngestOf(j, ingest)'
<1>1. TypeOK /\ JobRowsInv BY DEF PipelineInv, WorkerInv
<1>2. jobs \in [Jobs -> JobRows] BY <1>1 DEF TypeOK, TablesTypeOK
<1>3. CASE UNCHANGED <<feeds, jobs, results>> BY <1>3 DEF IngestOf
<1>4. ASSUME NEW k \in Jobs, EnqueueCreate(k) PROVE IngestOf(j, ingest)'
  <2>1. jobs[k].status = "none" BY <1>1, <1>4, CreateFacts DEF JobRowsInv, JobRowsOf
  <2>2. jobs'[j] = jobs[j] BY <1>1, <1>4, <2>1, CreateFacts DEF IngestOf
  <2> QED BY <2>2 DEF IngestOf
<1>5. ASSUME NEW k \in Jobs, EnqueueMarkFailed(k) PROVE IngestOf(j, ingest)'
  <2>1. jobs' = jobs \/ jobs' = [jobs EXCEPT ![k].status = "failed"]
    BY <1>5 DEF EnqueueMarkFailed, SetStatus
  <2> QED BY <1>2, <2>1 DEF IngestOf, JobRows
<1>6. ASSUME NEW m \in inbox, ConsumerPersist(m) PROVE IngestOf(j, ingest)'
  <2>1. PICK k, status : jobs' = [jobs EXCEPT ![k].status = status] BY <1>6 DEF ConsumerPersist
  <2>2. jobs'[j].ingest = jobs[j].ingest BY <1>2, <2>1 DEF JobRows
  <2>3. jobs'[j].status # "none"
    <3>1. CASE j # Entry(m).job BY <1>1, <1>6, <3>1, PersistFacts DEF IngestOf
    <3>2. CASE j = Entry(m).job
      <4>1. jobs'[j].status \in {"queued", "processing"} \cup Terminal
        BY <1>1, <1>6, <3>2, PersistFacts
      <4> QED BY <4>1 DEF Terminal
    <3> QED BY <3>1, <3>2
  <2> QED BY <2>2, <2>3 DEF IngestOf
<1>7. ASSUME NEW f \in Feeds, SyncDeletesFeed(f) PROVE IngestOf(j, ingest)'
  <2>1. jobs' = [k \in Jobs |-> [jobs[k] EXCEPT !.feeds = @ \ {f}]]
    BY <1>7 DEF SyncDeletesFeed, DeleteFeedRow
  <2> QED BY <1>2, <2>1 DEF IngestOf, JobRows
<1> QED BY <1>3, <1>4, <1>5, <1>6, <1>7 DEF TablesStep

\* A recorded result stays recorded, and in its stream, while the feed exists.
LEMMA CheckedStable ==
  ASSUME PipelineInv, TablesStep, StreamsStep, NEW f \in Feeds, f \in feeds', NEW version,
         CheckedOrFailed(f, version)
  PROVE  CheckedOrFailed(f, version)'
<1>1. TypeOK /\ JobRowsInv BY DEF PipelineInv, WorkerInv
<1> DEFINE Explains(entry) ==
             /\ entry.form = "result" /\ entry.feed = f /\ entry.version = version
             /\ results[entry.job][f] = entry.status
             /\ entry.status = "error" \/ ~ jobs[entry.job].ingest
<1>0. PICK kind \in Kinds : \E i \in 1..Len(streams[kind].log) : Explains(streams[kind].log[i])
  BY DEF CheckedOrFailed
<1>2. PICK i \in 1..Len(streams[kind].log) : Explains(streams[kind].log[i])
  BY <1>0
<1>3. PICK r \in ResultEntries : r = streams[kind].log[i]
  <2>1. streams[kind].log[i] \in ResultEntries \cup ForeignEntries
    BY <1>1 DEF TypeOK, StreamsTypeOK, Streams
  <2> QED BY <1>2, <2>1 DEF ForeignEntries
<1>4. PICK j \in Jobs : j = r.job BY DEF ResultEntries
<1>5. /\ r.form = "result" /\ r.feed = f /\ r.version = version /\ results[j][f] = r.status
      /\ r.status = "error" \/ ~ jobs[j].ingest
  BY <1>2, <1>3, <1>4
<1>6. results[j][f] # "none" BY <1>5 DEF ResultEntries
<1>7. jobs[j].status # "none" BY <1>1, <1>6 DEF JobRowsInv, JobRowsOf, ResultsOf
<1>8. PICK ingest : ingest = jobs[j].ingest /\ IngestOf(j, ingest) BY <1>7 DEF IngestOf
<1>9. jobs'[j].ingest = jobs[j].ingest
  <2>1. IngestOf(j, ingest)' BY <1>8, IngestStable
  <2> QED BY <1>8, <2>1 DEF IngestOf
<1>10. results'[j][f] = results[j][f]
  <2>1. ASSUME NEW m \in inbox, ConsumerPersist(m) PROVE results'[j][f] = results[j][f]
    BY <1>1, <1>6, <2>1, PersistFacts
  <2>2. ASSUME NEW g \in Feeds, SyncDeletesFeed(g) PROVE results'[j][f] = results[j][f]
    BY <1>1, <2>2, DeleteFacts
  <2> QED BY <1>1, <2>1, <2>2, CreateFacts, MarkFailedFacts DEF TablesStep
<1>11. streams'[kind].log[i] = r /\ i \in 1..Len(streams'[kind].log)
  <2>1. Extends(streams[kind].log, streams'[kind].log) BY <1>1, StreamsGrow
  <2> QED BY <1>3, <2>1 DEF Extends
<1> QED BY <1>4, <1>5, <1>9, <1>10, <1>11 DEF CheckedOrFailed

\* A version that may be stored for a feed may still be stored later.
LEMMA VouchedStable ==
  ASSUME PipelineInv, Writers, NEW f \in Feeds, NEW version, Vouched(f, version)
  PROVE  Vouched(f, version)'
<1> SUFFICES ASSUME f \in feeds', version # NoVersion
             PROVE  <<f, version>> \in sources' \/ CheckedOrFailed(f, version)'
  BY DEF Vouched
<1>1. TypeOK /\ TablesStep /\ SourcesStep /\ StreamsStep BY DEF PipelineInv, WorkerInv, Writers
<1>2. f \in feeds BY <1>1, FeedsShrink
<1>3. CASE CheckedOrFailed(f, version) BY <1>1, <1>3, CheckedStable
<1>4. CASE <<f, version>> \in sources
  <2>1. ASSUME NEW m \in inbox, ConsumerPersist(m) PROVE <<f, version>> \in sources'
    BY <1>4, <2>1 DEF ConsumerPersist, SourcesAfter
  <2>2. ASSUME NEW g \in Feeds, SyncDeletesFeed(g) PROVE <<f, version>> \in sources'
    <3>1. g # f BY <1>1, <2>2, DeleteFacts
    <3> QED BY <1>4, <2>2, <3>1 DEF SyncDeletesFeed, DeleteFeedRow
  <2> QED BY <1>1, <1>4, <2>1, <2>2 DEF SourcesStep
<1> QED BY <1>2, <1>3, <1>4 DEF Vouched

\* The same of the version a result carries.
LEMMA ResultVouchedStable ==
  ASSUME PipelineInv, Writers, NEW r \in ResultEntries, ResultVouched(r)
  PROVE  ResultVouched(r)'
<1>1. r.feed \in Feeds BY DEF ResultEntries
<1>2. CASE Vouched(r.feed, r.version)
  <2>1. Vouched(r.feed, r.version)' BY <1>1, <1>2, VouchedStable
  <2> QED BY <2>1 DEF ResultVouched
<1>3. CASE ~ Vouched(r.feed, r.version) BY <1>3 DEF ResultVouched
<1> QED BY <1>2, <1>3

\* fetch_feed_result: the validator a result carries is the one of the articles
\* it carries, or the one of the snapshot the server confirmed.
LEMMA ReplyVouched ==
  ASSUME TypeOK, NEW request \in RequestEntries, NEW f \in DOMAIN request.feeds,
         NEW reply, NEW r \in FetchResults(request, f, reply),
         Vouched(f, request.feeds[f].version)
  PROVE  ResultVouched(r)
<1> DEFINE snapshot == request.feeds[f]
           validator == IF reply = "untagged" THEN NoVersion ELSE site[f]
<1>1. \/ \E version : r = Result(request, f, "error", version, NoVersion)
      \/ /\ r = Result(request, f, "not_modified", validator, NoVersion)
         /\ snapshot.version = validator \/ snapshot.version = site[f]
      \/ \E version \in {validator, site[f]} : r = Result(request, f, "success", version, site[f])
  BY DEF FetchResults, IsSameVersion
<1>2. r.feed = f BY FetchFacts
<1>3. validator = NoVersion \/ validator = site[f] OBVIOUS
<1> HIDE DEF validator, snapshot
<1>4. CASE \E version : r = Result(request, f, "error", version, NoVersion)
  BY <1>4 DEF Result, ResultVouched
<1>5. CASE /\ r = Result(request, f, "not_modified", validator, NoVersion)
           /\ snapshot.version = validator \/ snapshot.version = site[f]
  <2>1. r.status = "not_modified" /\ r.version = validator BY <1>5 DEF Result
  <2>2. r.version = NoVersion \/ r.version = snapshot.version BY <1>3, <1>5, <2>1
  <2> QED BY <1>2, <2>1, <2>2 DEF ResultVouched, snapshot
<1>6. CASE \E version \in {validator, site[f]} : r = Result(request, f, "success", version, site[f])
  <2>1. r.status = "success" /\ r.content = site[f] /\ r.version \in {validator, site[f]}
    BY <1>6 DEF Result
  <2> QED BY <1>3, <2>1 DEF ResultVouched
<1> QED BY <1>1, <1>4, <1>5, <1>6

\* persist_worker_result: once a result is recorded its version may be stored.
LEMMA RecordedVouched ==
  ASSUME PipelineInv, Writers, ResultVersionsInv, NEW m \in inbox, ConsumerPersist(m),
         NEW f \in Feeds, f = Entry(m).feed, NEW version, version = Entry(m).version
  PROVE  Vouched(f, version)'
<1>1. TypeOK BY DEF PipelineInv, WorkerInv
<1>2. Entry(m) \in ResultEntries /\ Entry(m).form = "result" BY <1>1, PersistFacts
<1>3. PICK r \in ResultEntries, kind \in Kinds : r = Entry(m) /\ kind = m[1]
  BY <1>1, <1>2, InboxFacts
<1>4. kind = StreamOf(r) /\ IngestOf(r.job, r.ingest) /\ ResultVouched(r)
  BY <1>1, <1>2, <1>3, InboxFacts DEF ResultVersionsInv, Entry
<1>5. /\ r.job \in Jobs /\ r.status \in ResultStatuses \ {"none"} /\ f = r.feed /\ version = r.version
      /\ r.ingest \in BOOLEAN
  BY <1>3 DEF ResultEntries
<1>6. results'[r.job][f] = r.status
  <2>1. \A j \in Jobs, g \in Feeds :
          results'[j][g] = IF j = Entry(m).job /\ g = Entry(m).feed THEN Entry(m).status ELSE results[j][g]
    BY <1>1, PersistFacts
  <2> QED BY <1>3, <1>5, <2>1
<1>7. sources' = SourcesAfter(kind, r) BY <1>3 DEF ConsumerPersist
<1>8. IngestOf(r.job, r.ingest)'
  <2>1. TablesStep BY DEF Writers
  <2> QED BY <1>4, <1>5, <2>1, IngestStable
<1>9. CASE r.version = NoVersion BY <1>5, <1>9 DEF Vouched
<1>10. CASE r.status = "error" \/ ~ r.ingest
  <2>1. m[1] \in Kinds /\ m[2] \in 1..Len(streams[m[1]].log) BY <1>1, InboxFacts
  <2>2. streams' = streams BY DEF ConsumerPersist
  <2>3. PICK i : i = m[2] OBVIOUS
  <2>4. i \in 1..Len(streams'[kind].log) /\ streams'[kind].log[i] = r
    BY <1>3, <2>1, <2>2, <2>3 DEF Entry
  <2>5. r.status = "error" \/ ~ jobs'[r.job].ingest
    BY <1>2, <1>3, <1>8, <1>10 DEF IngestOf
  <2>6. CheckedOrFailed(f, version)' BY <1>2, <1>3, <1>5, <1>6, <2>4, <2>5 DEF CheckedOrFailed
  <2> QED BY <2>6 DEF Vouched
<1>11. CASE r.status = "success" /\ r.content = r.version /\ r.ingest
  <2>1. kind = "ingest" BY <1>4, <1>11 DEF StreamOf
  <2>2. <<f, version>> \in sources' BY <1>5, <1>7, <1>11, <2>1 DEF SourcesAfter
  <2> QED BY <2>2 DEF Vouched
<1>12. CASE Vouched(r.feed, r.version) BY <1>5, <1>12, VouchedStable
<1> QED BY <1>4, <1>5, <1>9, <1>10, <1>11, <1>12 DEF ResultVouched

\* upsert_feed_scraping_state stores what may be stored.
LEMMA StoredStep ==
  ASSUME PipelineInv, Writers, ResultVersionsInv, StoredVersionIsIngested
  PROVE  StoredVersionIsIngested'
<1>1. TypeOK /\ TablesStep /\ ScrapingStep BY DEF PipelineInv, WorkerInv, Writers
<1>2. scraping \in [Feeds -> ScrapingRows] /\ feeds \subseteq Feeds BY <1>1 DEF TypeOK, TablesTypeOK
<1>3. \A g \in feeds : Vouched(g, scraping[g].version)
  BY DEF StoredVersionIsIngested, Vouched
<1> SUFFICES ASSUME NEW f \in Feeds, f \in feeds' PROVE Vouched(f, scraping[f].version)'
  <2>1. feeds' \subseteq Feeds BY <1>1, <1>2, FeedsShrink
  <2> QED BY <2>1 DEF StoredVersionIsIngested, Vouched, CheckedOrFailed
<1>4. f \in feeds BY <1>1, FeedsShrink
<1>5. PICK old : old = scraping[f].version /\ Vouched(f, old) BY <1>3, <1>4
<1>6. Vouched(f, old)' BY <1>5, VouchedStable
<1>7. CASE scraping'[f].version = scraping[f].version
  <2>1. scraping'[f].version = old BY <1>5, <1>7
  <2> QED BY <1>6, <2>1 DEF Vouched
<1>8. ASSUME NEW m \in inbox, ConsumerPersist(m), scraping'[f].version # scraping[f].version
      PROVE  Vouched(f, scraping[f].version)'
  <2>1. scraping' = [scraping EXCEPT ![Entry(m).feed] = ScrapingAfter(scraping[Entry(m).feed], Entry(m))]
    BY <1>8 DEF ConsumerPersist
  <2>2. f = Entry(m).feed /\ scraping'[f].version = Entry(m).version
    BY <1>2, <1>8, <2>1 DEF ScrapingAfter
  <2>3. PICK version : version = Entry(m).version OBVIOUS
  <2>4. Vouched(f, version)' BY <1>8, <2>2, <2>3, RecordedVouched
  <2> QED BY <2>2, <2>3, <2>4 DEF Vouched
<1>9. ASSUME NEW g \in Feeds, SyncDeletesFeed(g)
      PROVE  scraping'[f].version = scraping[f].version
  <2>1. g # f BY <1>1, <1>9, DeleteFacts
  <2> QED BY <1>2, <1>9, <2>1 DEF SyncDeletesFeed, DeleteFeedRow
<1>10. ASSUME NEW g \in Feeds, NEW p \in CatalogProtections, SyncUpsertsFeed(g, p)
       PROVE  scraping'[f].version = scraping[f].version
  BY <1>2, <1>10 DEF SyncUpsertsFeed, ScrapingRows
<1> QED BY <1>1, <1>7, <1>8, <1>9, <1>10 DEF ScrapingStep

\* list_rss_feed_scrape_payloads reads versions that may be stored, and the
\* request keeps them.
LEMMA SnapshotsStep ==
  ASSUME PipelineInv, Writers, StoredVersionIsIngested, SnapshotsInv
  PROVE  SnapshotsInv'
<1>1. TypeOK /\ TablesStep /\ RequestStep BY DEF PipelineInv, WorkerInv, Writers
<1>2. \A k \in Jobs : enqueue[k].feeds \in SnapshotSets BY <1>1 DEF TypeOK, EnqueueTypeOK
<1>3. \A k \in Jobs : /\ enqueue[k].pc = "publish" => IngestOf(k, enqueue[k].ingest)
                      /\ \A f \in DOMAIN enqueue[k].feeds : Vouched(f, enqueue[k].feeds[f].version)
  BY DEF SnapshotsInv
<1>4. ASSUME NEW j \in Jobs, enqueue'[j].feeds = enqueue[j].feeds,
             NEW f \in DOMAIN enqueue'[j].feeds
      PROVE  Vouched(f, enqueue[j].feeds[f].version)'
  <2>1. f \in Feeds /\ Vouched(f, enqueue[j].feeds[f].version)
    BY <1>2, <1>3, <1>4, SnapshotSetFacts
  <2>2. PICK version : version = enqueue[j].feeds[f].version /\ Vouched(f, version) BY <2>1
  <2>3. Vouched(f, version)' BY <2>1, <2>2, VouchedStable
  <2> QED BY <1>4, <2>2, <2>3 DEF Vouched
<1>5. ASSUME NEW j \in Jobs, enqueue[j].pc = "publish", enqueue'[j].ingest = enqueue[j].ingest
      PROVE  IngestOf(j, enqueue[j].ingest)'
  <2>1. PICK ingest : ingest = enqueue[j].ingest /\ IngestOf(j, ingest) BY <1>3, <1>5
  <2>2. IngestOf(j, ingest)' BY <1>1, <2>1, IngestStable
  <2> QED BY <1>5, <2>1, <2>2 DEF IngestOf
<1> SUFFICES ASSUME NEW j \in Jobs
             PROVE  /\ enqueue'[j].pc = "publish" => IngestOf(j, enqueue[j].ingest)'
                    /\ \A f \in DOMAIN enqueue'[j].feeds : Vouched(f, enqueue[j].feeds[f].version)'
  BY DEF SnapshotsInv
<1>6. enqueue \in [Jobs -> [pc : EnqueuePCs, ingest : BOOLEAN, feeds : SnapshotSets, left : SUBSET Feeds]]
  BY <1>1 DEF TypeOK, EnqueueTypeOK
<1>7. ASSUME NEW k \in Jobs, NEW ingest \in BOOLEAN, NEW fs \in SUBSET Feeds, EnqueueRead(k, ingest, fs)
      PROVE  /\ enqueue'[j].pc = "publish" => IngestOf(j, enqueue[j].ingest)'
             /\ \A f \in DOMAIN enqueue'[j].feeds : Vouched(f, enqueue[j].feeds[f].version)'
  <2>1. /\ UNCHANGED <<feeds, sources, scraping, jobs, results>> /\ fs \subseteq feeds
        /\ enqueue' = [enqueue EXCEPT ![k] =
             [pc |-> "create", ingest |-> ingest, feeds |-> SnapshotOf(fs), left |-> fs]]
    BY <1>7 DEF EnqueueRead, sharedVars
  <2>2. CASE j # k
    <3>1. enqueue'[j] = enqueue[j] BY <1>6, <2>1, <2>2
    <3> QED BY <1>4, <1>5, <3>1
  <2>3. CASE j = k
    <3>1. enqueue'[j].pc = "create" /\ enqueue'[j].feeds = SnapshotOf(fs) BY <1>6, <2>1, <2>3
    <3>2. ASSUME NEW f \in DOMAIN enqueue'[j].feeds
          PROVE  Vouched(f, enqueue[j].feeds[f].version)'
      <4>1. f \in feeds /\ enqueue'[j].feeds[f].version = scraping[f].version
        BY <2>1, <3>1 DEF SnapshotOf
      <4>2. PICK version : version = scraping[f].version OBVIOUS
      <4>3. f \in Feeds /\ Vouched(f, version)
        BY <1>1, <4>1, <4>2 DEF TypeOK, TablesTypeOK, Vouched, StoredVersionIsIngested
      <4>4. Vouched(f, version)' BY <4>3, VouchedStable
      <4> QED BY <4>1, <4>2, <4>4 DEF Vouched
    <3> QED BY <3>1, <3>2
  <2> QED BY <2>2, <2>3
<1>8. ASSUME NEW k \in Jobs, EnqueueCreate(k)
      PROVE  /\ enqueue'[j].feeds = enqueue[j].feeds
             /\ enqueue'[j].pc = "publish" => IngestOf(j, enqueue[j].ingest)'
  <2>1. /\ enqueue' = [enqueue EXCEPT ![k].pc = IF enqueue[k].left = {} THEN "done" ELSE "publish"]
        /\ CreateJob(k, enqueue[k].ingest, enqueue[k].left)
    BY <1>8 DEF EnqueueCreate
  <2>2. enqueue'[j].feeds = enqueue[j].feeds /\ enqueue'[j].ingest = enqueue[j].ingest BY <1>6, <2>1
  <2>3. CASE j # k
    <3>1. enqueue'[j] = enqueue[j] BY <1>6, <2>1, <2>3
    <3> QED BY <1>5, <2>2, <3>1
  <2>4. CASE j = k
    <3>1. jobs \in [Jobs -> JobRows] BY <1>1 DEF TypeOK, TablesTypeOK
    <3>2. jobs'[j].ingest = enqueue[j].ingest /\ jobs'[j].status # "none"
      BY <2>1, <2>4, <3>1 DEF CreateJob
    <3> QED BY <2>2, <3>2 DEF IngestOf
  <2> QED BY <2>3, <2>4
<1>9. ASSUME NEW k \in Jobs, EnqueueReject(k) \/ EnqueueMarkFailed(k)
      PROVE  /\ enqueue'[j].feeds = enqueue[j].feeds /\ enqueue'[j].ingest = enqueue[j].ingest
             /\ enqueue'[j].pc = "publish" => enqueue[j].pc = "publish"
  BY <1>6, <1>9 DEF EnqueueReject, EnqueueMarkFailed
<1>10. ASSUME NEW k \in Jobs, NEW b \in SUBSET Feeds, NEW o \in CommandOutcomes(PublishAttempts),
              EnqueuePublish(k, b, o)
       PROVE  /\ enqueue'[j].feeds = enqueue[j].feeds /\ enqueue'[j].ingest = enqueue[j].ingest
              /\ enqueue'[j].pc = "publish" => enqueue[j].pc = "publish"
  BY <1>6, <1>10 DEF EnqueuePublish
<1>11. CASE BackendCrash
  BY <1>4, <1>5, <1>6, <1>11 DEF BackendCrash
<1>12. CASE enqueue' = enqueue BY <1>4, <1>5, <1>12
<1> QED BY <1>1, <1>4, <1>5, <1>7, <1>8, <1>9, <1>10, <1>11, <1>12 DEF RequestStep

\* A request carries what the backend read for its job.
LEMMA RequestVersionsStep ==
  ASSUME PipelineInv, Writers, SnapshotsInv, RequestVersionsInv
  PROVE  RequestVersionsInv'
<1>1. TypeOK /\ TablesStep /\ RequestsStep BY DEF PipelineInv, WorkerInv, Writers
<1> SUFFICES ASSUME NEW i \in 1..Len(requests'.log), requests'.log[i].form = "request"
             PROVE  /\ IngestOf(requests.log[i].job, requests.log[i].ingest)'
                    /\ \A f \in FeedsIn(i)' : Vouched(f, requests.log[i].feeds[f].version)'
  BY DEF RequestVersionsInv
<1>2. RequestOrigin(i) /\ Extends(requests.log, requests'.log) BY <1>1, RequestsGrow
<1>3. ASSUME NEW e \in RequestEntries, requests'.log[i] = e, IngestOf(e.job, e.ingest),
             \A f \in DOMAIN e.feeds : Vouched(f, e.feeds[f].version)
      PROVE  /\ IngestOf(requests.log[i].job, requests.log[i].ingest)'
             /\ \A f \in FeedsIn(i)' : Vouched(f, requests.log[i].feeds[f].version)'
  <2>1. e.job \in Jobs /\ e.feeds \in SnapshotSets BY DEF RequestEntries
  <2>2. IngestOf(e.job, e.ingest)' BY <1>1, <1>3, <2>1, IngestStable
  <2>3. FeedsIn(i)' = DOMAIN e.feeds BY <1>3 DEF FeedsIn
  <2>4. ASSUME NEW f \in DOMAIN e.feeds PROVE Vouched(f, e.feeds[f].version)'
    <3>1. f \in Feeds BY <2>1, SnapshotSetFacts
    <3> QED BY <1>3, <3>1, VouchedStable
  <2>5. ASSUME NEW f \in FeedsIn(i)' PROVE Vouched(f, requests.log[i].feeds[f].version)'
    BY <1>3, <2>3, <2>4 DEF Vouched
  <2> QED BY <1>3, <2>2, <2>5 DEF IngestOf
<1>4. CASE i \in 1..Len(requests.log) /\ requests'.log[i] = requests.log[i]
  <2>1. PICK e : e = requests.log[i] OBVIOUS
  <2>2. e.form = "request" /\ e = requests'.log[i] BY <1>4, <2>1
  <2>3. e \in RequestEntries BY <1>1, <1>4, <2>1, <2>2, RequestEntryFacts
  <2>4. IngestOf(e.job, e.ingest) /\ \A f \in DOMAIN e.feeds : Vouched(f, e.feeds[f].version)
    BY <1>4, <2>1, <2>2 DEF RequestVersionsInv, FeedsIn
  <2> QED BY <1>3, <2>2, <2>3, <2>4
<1>5. CASE requests'.log[i] \in ForeignEntries BY <1>5 DEF ForeignEntries
<1>6. ASSUME NEW j \in Jobs, NEW b \in SUBSET Feeds, NEW o \in CommandOutcomes(PublishAttempts),
             EnqueuePublish(j, b, o), requests'.log[i] = Message(j, b)
      PROVE  /\ IngestOf(requests.log[i].job, requests.log[i].ingest)'
             /\ \A f \in FeedsIn(i)' : Vouched(f, requests.log[i].feeds[f].version)'
  <2>1. enqueue[j].pc = "publish" /\ b \subseteq enqueue[j].left BY <1>1, <1>6, PublishStepFacts
  <2>2. b \subseteq DOMAIN enqueue[j].feeds BY <1>1, <2>1 DEF TypeOK, EnqueueTypeOK
  <2>3. PICK e : e = Message(j, b) OBVIOUS
  <2>4. e \in RequestEntries BY <1>1, <2>1, <2>3, BatchFacts DEF Message
  <2>5. /\ e.job = j /\ e.ingest = enqueue[j].ingest
        /\ e.feeds = [f \in b |-> enqueue[j].feeds[f]]
    BY <2>3 DEF Message, Request
  <2>6. IngestOf(e.job, e.ingest) /\ \A f \in DOMAIN e.feeds : Vouched(f, e.feeds[f].version)
    BY <2>1, <2>2, <2>5 DEF SnapshotsInv
  <2> QED BY <1>3, <1>6, <2>3, <2>4, <2>6
<1> QED BY <1>2, <1>4, <1>5, <1>6 DEF RequestOrigin

\* A coroutine holds what its request and the server make of it.
LEMMA FetchedVersionsStep ==
  ASSUME PipelineInv, Writers, RequestVersionsInv, FetchedVersionsInv
  PROVE  FetchedVersionsInv'
<1>1. TypeOK /\ TablesStep /\ CoroutineStep BY DEF PipelineInv, WorkerInv, Writers
<1> SUFFICES ASSUME NEW task \in fetched'
             PROVE  IngestOf(task[2].job, task[2].ingest)' /\ ResultVouched(task[2])'
  BY DEF FetchedVersionsInv
<1>2. ASSUME NEW r \in ResultEntries, r = task[2], IngestOf(r.job, r.ingest), ResultVouched(r)
      PROVE  IngestOf(task[2].job, task[2].ingest)' /\ ResultVouched(task[2])'
  <2>1. r.job \in Jobs BY DEF ResultEntries
  <2> QED BY <1>1, <1>2, <2>1, IngestStable, ResultVouchedStable
<1>3. CASE task \in fetched
  <2>1. task[2] \in ResultEntries BY <1>1, <1>3 DEF TypeOK, WorkerTypeOK
  <2> QED BY <1>2, <1>3, <2>1 DEF FetchedVersionsInv
<1>4. CASE task \notin fetched
  <2>1. PICK old \in todo, reply \in Replies : WorkerFetch(old[1], old[2], reply)
    BY <1>1, <1>4 DEF CoroutineStep, WorkerRead, WorkerPublish, WorkerAck, WorkerCrash
  <2>2. PICK r \in FetchResults(requests.log[old[1]], old[2], reply) :
          fetched' = fetched \cup {<<old[1], r>>}
    BY <2>1 DEF WorkerFetch
  <2>3. task[2] = r BY <1>4, <2>2
  <2>4. old[1] \in 1..Len(requests.log) /\ old[2] \in FeedsIn(old[1])
    BY <1>1 DEF TypeOK, WorkerTypeOK
  <2>5. requests.log[old[1]].form = "request" /\ old[2] \in DOMAIN requests.log[old[1]].feeds
    BY <2>4 DEF FeedsIn
  <2>6. PICK request \in RequestEntries : request = requests.log[old[1]]
    BY <1>1, <2>4, <2>5, RequestEntryFacts
  <2>7. PICK f \in DOMAIN request.feeds : f = old[2] BY <2>5, <2>6
  <2>8. IngestOf(request.job, request.ingest) /\ Vouched(f, request.feeds[f].version)
    BY <2>4, <2>5, <2>6, <2>7 DEF RequestVersionsInv
  <2>9. r \in FetchResults(request, f, reply) BY <2>2, <2>6, <2>7
  <2>10. r \in ResultEntries /\ r.job = request.job /\ r.ingest = request.ingest
    BY <1>1, <2>9, FetchFacts
  <2>11. ResultVouched(r) BY <1>1, <2>8, <2>9, ReplyVouched
  <2> QED BY <1>2, <2>3, <2>8, <2>10, <2>11
<1> QED BY <1>3, <1>4

\* A result keeps its version and its flag in the stream its worker chose.
LEMMA ResultVersionsStep ==
  ASSUME PipelineInv, Writers, FetchedVersionsInv, ResultVersionsInv
  PROVE  ResultVersionsInv'
<1>1. TypeOK /\ TablesStep /\ StreamsStep BY DEF PipelineInv, WorkerInv, Writers
<1> SUFFICES ASSUME NEW kind \in Kinds, NEW i \in 1..Len(streams'[kind].log),
                    streams'[kind].log[i].form = "result"
             PROVE  /\ (kind = StreamOf(streams[kind].log[i]))'
                    /\ IngestOf(streams[kind].log[i].job, streams[kind].log[i].ingest)'
                    /\ ResultVouched(streams[kind].log[i])'
  BY DEF ResultVersionsInv
<1> SUFFICES ASSUME NEW r, r = streams'[kind].log[i], r.form = "result"
             PROVE  kind = StreamOf(r) /\ IngestOf(r.job, r.ingest)' /\ ResultVouched(r)'
  <2>1. PICK r : r = streams'[kind].log[i] OBVIOUS
  <2>2. kind = StreamOf(r) /\ IngestOf(r.job, r.ingest)' /\ ResultVouched(r)' BY <2>1
  <2>3. (kind = StreamOf(streams[kind].log[i]))' BY <2>1, <2>2 DEF StreamOf
  <2>4. IngestOf(streams[kind].log[i].job, streams[kind].log[i].ingest)'
    BY <2>1, <2>2 DEF IngestOf
  <2>5. ResultVouched(streams[kind].log[i])'
    BY <2>1, <2>2 DEF ResultVouched, Vouched, CheckedOrFailed
  <2> QED BY <2>3, <2>4, <2>5
<1>2. ResultOrigin(kind, i) BY <1>1, StreamsGrow
<1>3. ASSUME r \in ResultEntries, IngestOf(r.job, r.ingest), ResultVouched(r)
      PROVE  IngestOf(r.job, r.ingest)' /\ ResultVouched(r)'
  <2>1. r.job \in Jobs BY <1>3 DEF ResultEntries
  <2> QED BY <1>1, <1>3, <2>1, IngestStable, ResultVouchedStable
<1>4. CASE i \in 1..Len(streams[kind].log) /\ streams'[kind].log[i] = streams[kind].log[i]
  <2>1. r \in ResultEntries \cup ForeignEntries
    BY <1>1, <1>4 DEF TypeOK, StreamsTypeOK, Streams
  <2>2. r \in ResultEntries BY <2>1 DEF ForeignEntries
  <2>3. kind = StreamOf(r) /\ IngestOf(r.job, r.ingest) /\ ResultVouched(r)
    BY <1>4 DEF ResultVersionsInv
  <2> QED BY <1>3, <2>2, <2>3
<1>5. CASE streams'[kind].log[i] \in ForeignEntries BY <1>5 DEF ForeignEntries
<1>6. ASSUME NEW task \in fetched, NEW o \in CommandOutcomes(MaxAttempts),
             WorkerPublish(task[1], task[2], o), streams'[kind].log[i] = task[2],
             ~ (i \in 1..Len(streams[kind].log) /\ streams'[kind].log[i] = streams[kind].log[i])
      PROVE  kind = StreamOf(r) /\ IngestOf(r.job, r.ingest)' /\ ResultVouched(r)'
  <2>1. r = task[2] /\ r \in ResultEntries BY <1>1, <1>6 DEF TypeOK, WorkerTypeOK
  <2>2. IngestOf(r.job, r.ingest) /\ ResultVouched(r) BY <2>1 DEF FetchedVersionsInv
  <2>3. kind = StreamOf(r)
    <3>1. streams' = [streams EXCEPT ![StreamOf(r)] =
                        XAdd(streams[StreamOf(r)], r, Executions(o, MaxAttempts))]
      BY <1>6, <2>1 DEF WorkerPublish
    <3>2. streams \in [Kinds -> Streams(ResultEntries \cup ForeignEntries)]
      BY <1>1 DEF TypeOK, StreamsTypeOK
    <3>3. kind # StreamOf(r) => streams'[kind] = streams[kind] BY <3>1, <3>2
    <3> QED BY <1>6, <3>3
  <2> QED BY <1>3, <2>1, <2>2, <2>3
<1> QED BY <1>2, <1>4, <1>5, <1>6 DEF ResultOrigin

\* A feed's stored validator, which makes later fetches answer not_modified,
\* names content that was ingested, or a recorded check or error result brought
\* that validator: through snapshots that are stale when used, repeated and late
\* results.
THEOREM StoredVersionsIngested == Spec => []StoredVersionIsIngested
<1>1. Init => VersionInv
  <2> SUFFICES ASSUME Init PROVE VersionInv OBVIOUS
  <2>1. PICK protection \in [Feeds -> CatalogProtections] :
          scraping = [g \in Feeds |-> NewScraping(protection[g])]
    BY DEF Init, SharedInit
  <2>2. /\ feeds = Feeds /\ requests = EmptyStream /\ streams = [k \in Kinds |-> EmptyStream]
        /\ fetched = {}
        /\ enqueue = [j \in Jobs |-> [pc |-> "idle", ingest |-> FALSE, feeds |-> NoFeeds, left |-> {}]]
    BY DEF Init, SharedInit, EnqueueInit, WorkerInit
  <2>3. StoredVersionIsIngested BY <2>1, <2>2 DEF StoredVersionIsIngested, NewScraping
  <2>4. SnapshotsInv BY <2>2 DEF SnapshotsInv, NoFeeds
  <2>5. Len(requests.log) = 0 /\ \A kind \in Kinds : Len(streams[kind].log) = 0
    BY <2>2, EmptyStreamFacts
  <2> QED BY <2>2, <2>3, <2>4, <2>5 DEF VersionInv, RequestVersionsInv, FetchedVersionsInv, ResultVersionsInv
<1>2. PipelineInv /\ VersionInv /\ [Next]_vars => PipelineInv' /\ VersionInv'
  BY PipelineStep, StepWriters, StoredStep, SnapshotsStep, RequestVersionsStep,
     FetchedVersionsStep, ResultVersionsStep DEF VersionInv
<1>3. VersionInv => StoredVersionIsIngested BY DEF VersionInv
<1> QED BY <1>1, <1>2, <1>3, PipelineInit, PTL DEF Spec

-------------------------------------------------------------------------------
(* The status of a job.                                                    *)

\* refresh_rss_scrape_job_status computes the status that fits the rows.
LEMMA RefreshFits ==
  ASSUME NEW F, NEW R, NEW E, IsFiniteSet(F), R \subseteq F, E \subseteq R, R # {},
         NEW n \in Nat, Cardinality(F) <= n
  PROVE  LET status == RefreshedStatus(n, Cardinality(R), Cardinality(E))
         IN  /\ status \notin {"queued", "failed", "none"}
             /\ status \in Terminal => F \subseteq R
             /\ status = "completed" => E = {}
             /\ status = "completed_with_errors" => E # {}
             /\ (status = "processing" /\ Cardinality(F) = n) => ~ (F \subseteq R)
<1>1. IsFiniteSet(R) /\ Cardinality(R) <= Cardinality(F) /\ (Cardinality(F) = Cardinality(R) => F = R)
  BY FS_Subset
<1>2. IsFiniteSet(E) BY <1>1, FS_Subset
<1>3. Cardinality(F) \in Nat /\ Cardinality(R) \in Nat /\ Cardinality(E) \in Nat
  BY <1>1, <1>2, FS_CardinalityType
<1>4. (Cardinality(R) = 0 <=> R = {}) /\ (Cardinality(E) = 0 <=> E = {})
  BY <1>1, <1>2, FS_EmptySet
<1>5. F \subseteq R => F = R OBVIOUS
<1> DEFINE f == Cardinality(F)
           r == Cardinality(R)
           e == Cardinality(E)
           status == RefreshedStatus(n, r, e)
<1>6. /\ f \in Nat /\ r \in Nat /\ e \in Nat /\ r <= f /\ f <= n /\ r > 0
      /\ F = R => f = r
  BY <1>1, <1>3, <1>4
<1> HIDE DEF f, r, e
<1>7. /\ status \notin {"queued", "failed", "none"}
      /\ status \in Terminal => f = r
      /\ status = "completed" => e = 0
      /\ status = "completed_with_errors" => e # 0
      /\ (status = "processing" /\ f = n) => f # r
  BY <1>6 DEF RefreshedStatus, Terminal
<1> HIDE DEF status
<1>8. /\ status \notin {"queued", "failed", "none"}
      /\ status \in Terminal => F \subseteq R
      /\ status = "completed" => E = {}
      /\ status = "completed_with_errors" => E # {}
      /\ (status = "processing" /\ Cardinality(F) = n) => ~ (F \subseteq R)
  BY <1>1, <1>4, <1>5, <1>6, <1>7 DEF f, r, e
<1> QED BY <1>8 DEF status, f, r, e

\* The status of a job keeps fitting its rows.
LEMMA StatusStep ==
  ASSUME PipelineInv, Writers, NEW j \in Jobs, StatusOf(j)
  PROVE  StatusOf(j)'
<1>1. TypeOK /\ JobRowsOf(j) BY DEF PipelineInv, WorkerInv, JobRowsInv, JobRowsOf
<1>2. TablesStep /\ RequestStep BY DEF Writers
<1>3. ErrorsOf(j) \subseteq ResultsOf(j) BY DEF ErrorsOf, ResultsOf
<1>4. ASSUME UNCHANGED <<feeds, jobs, results>>,
             \A k \in Jobs : ~ EnqueueCreate(k) /\ ~ EnqueueMarkFailed(k)
      PROVE  StatusOf(j)'
  <2>1. ResultsOf(j)' = ResultsOf(j) /\ ErrorsOf(j)' = ErrorsOf(j)
    BY <1>4 DEF ResultsOf, ErrorsOf
  <2>2. enqueue[j].pc = "error" => enqueue'[j].pc = "error" BY <1>1, <1>2, <1>4, RequestMoves
  <2> QED BY <1>4, <2>1, <2>2 DEF StatusOf
<1>5. ASSUME NEW k \in Jobs, EnqueueCreate(k) PROVE StatusOf(j)'
  <2>1. ResultsOf(j)' = ResultsOf(j) /\ ErrorsOf(j)' = ErrorsOf(j)
    BY <1>1, <1>5, CreateFacts DEF ResultsOf, ErrorsOf
  <2>2. CASE j # k BY <1>1, <1>5, <2>1, <2>2, CreateFacts DEF StatusOf
  <2>3. CASE j = k
    <3>1. ResultsOf(j) = {} BY <1>1, <1>5, <2>3, CreateFacts DEF JobRowsOf
    <3>2. /\ jobs'[j].feeds = enqueue[j].left
          /\ jobs'[j].status = IF enqueue[j].left = {} THEN "completed" ELSE "queued"
      BY <1>1, <1>5, <2>3, CreateFacts
    <3> QED BY <1>3, <2>1, <3>1, <3>2 DEF StatusOf, Terminal
  <2> QED BY <2>2, <2>3
<1>6. ASSUME NEW k \in Jobs, EnqueueMarkFailed(k) PROVE StatusOf(j)'
  <2>1. ResultsOf(j)' = ResultsOf(j) /\ ErrorsOf(j)' = ErrorsOf(j)
    BY <1>1, <1>6, MarkFailedFacts DEF ResultsOf, ErrorsOf
  <2>2. CASE j # k BY <1>1, <1>6, <2>1, <2>2, MarkFailedFacts DEF StatusOf
  <2>3. CASE j = k
    BY <1>1, <1>6, <2>1, <2>3, MarkFailedFacts DEF StatusOf, Terminal
  <2> QED BY <2>2, <2>3
<1>7. ASSUME enqueue' = enqueue, NEW m \in inbox, ConsumerPersist(m) PROVE StatusOf(j)'
  <2>1. CASE j # Entry(m).job BY <1>7, <2>1, PersistOthers DEF StatusOf
  <2>2. CASE j = Entry(m).job
    <3> DEFINE F == jobs[j].feeds
               R == ResultsOf(j)'
               E == ErrorsOf(j)'
               n == jobs[j].feed_count
    <3>1. /\ IsFiniteSet(F) /\ R \subseteq F /\ E \subseteq R /\ R # {}
          /\ n \in Nat /\ Cardinality(F) <= n
          /\ jobs'[j].status = RefreshedStatus(n, Cardinality(R), Cardinality(E))
      BY <1>7, <2>2, PersistCounts
    <3>2. jobs'[j].feeds = F /\ jobs'[j].feed_count = n BY <1>1, <1>7, PersistFacts
    <3>3. StatusOf(j)' =
            (/\ jobs'[j].status \in Terminal => jobs'[j].feeds \subseteq R
             /\ jobs'[j].status = "completed" => E = {}
             /\ jobs'[j].status = "failed" => enqueue'[j].pc = "error"
             /\ jobs'[j].status = "queued" => R = {}
             /\ Cardinality(jobs'[j].feeds) = jobs'[j].feed_count =>
                  /\ jobs'[j].status = "queued" => jobs'[j].feeds # {}
                  /\ jobs'[j].status = "processing" =>
                       R # {} /\ ~ (jobs'[j].feeds \subseteq R)
                  /\ jobs'[j].status = "completed_with_errors" => E # {})
      BY DEF StatusOf
    <3> HIDE DEF F, R, E, n
    <3>4. /\ jobs'[j].status \notin {"queued", "failed", "none"}
          /\ jobs'[j].status \in Terminal => F \subseteq R
          /\ jobs'[j].status = "completed" => E = {}
          /\ jobs'[j].status = "completed_with_errors" => E # {}
          /\ (jobs'[j].status = "processing" /\ Cardinality(F) = n) => ~ (F \subseteq R)
      BY <3>1, RefreshFits
    <3> QED BY <3>1, <3>2, <3>3, <3>4
  <2> QED BY <2>1, <2>2
<1>8. ASSUME enqueue' = enqueue, NEW f \in Feeds, SyncDeletesFeed(f) PROVE StatusOf(j)'
  <2>1. /\ jobs'[j].feeds = jobs[j].feeds \ {f}
        /\ jobs'[j].feed_count = jobs[j].feed_count /\ jobs'[j].status = jobs[j].status
        /\ \A g \in Feeds : results'[j][g] = IF g = f THEN "none" ELSE results[j][g]
    BY <1>1, <1>8, DeleteFacts
  <2>2. ResultsOf(j)' = ResultsOf(j) \ {f} /\ ErrorsOf(j)' = ErrorsOf(j) \ {f}
    BY <2>1 DEF ResultsOf, ErrorsOf
  <2>3. CASE f \notin jobs[j].feeds
    <3>1. jobs'[j].feeds = jobs[j].feeds /\ ResultsOf(j)' = ResultsOf(j) /\ ErrorsOf(j)' = ErrorsOf(j)
      BY <1>1, <1>3, <2>1, <2>2, <2>3 DEF JobRowsOf
    <3> QED BY <1>8, <2>1, <3>1 DEF StatusOf
  <2>4. CASE f \in jobs[j].feeds
    <3>1. IsFiniteSet(jobs[j].feeds) /\ jobs[j].feed_count \in Nat
      BY <1>1, FeedsAssumption, FS_Subset DEF TypeOK, TablesTypeOK, JobRows, JobFeedRows
    <3>2. /\ Cardinality(jobs[j].feeds \ {f}) <= Cardinality(jobs[j].feeds)
          /\ Cardinality(jobs[j].feeds \ {f}) # Cardinality(jobs[j].feeds)
          /\ Cardinality(jobs[j].feeds \ {f}) \in Nat /\ Cardinality(jobs[j].feeds) \in Nat
      BY <2>4, <3>1, FS_Subset, FS_CardinalityType
    <3>3. Cardinality(jobs[j].feeds) <= jobs[j].feed_count BY <1>1 DEF JobRowsOf
    <3>4. Cardinality(jobs[j].feeds \ {f}) # jobs[j].feed_count BY <3>1, <3>2, <3>3
    <3> QED BY <1>8, <2>1, <2>2, <3>4 DEF StatusOf
  <2> QED BY <2>3, <2>4
<1> QED BY <1>2, <1>4, <1>5, <1>6, <1>7, <1>8 DEF TablesStep

-------------------------------------------------------------------------------
(* Where the feeds of a job are.                                           *)

\* A feed in a request message stays in it.
LEMMA InRequestStable ==
  ASSUME Extends(requests.log, requests'.log), NEW j, NEW f, InRequest(j, f)
  PROVE  InRequest(j, f)'
<1>1. PICK i \in RequestsOf(j) : f \in FeedsIn(i) BY DEF InRequest
<1>2. i \in 1..Len(requests.log) BY DEF RequestsOf
<1>3. /\ requests'.log[i] = requests.log[i] /\ f \in FeedsIn(i)'
      /\ i \in 1..Len(requests'.log)
  BY <1>1, <1>2, RequestStable
<1>4. i \in RequestsOf(j)' BY <1>3 DEF RequestsOf
<1> QED BY <1>3, <1>4 DEF InRequest

\* A batch that was sent is in the request stream.
LEMMA BatchIsSent ==
  ASSUME TypeOK, NEW j \in Jobs, NEW b \in SUBSET Feeds,
         NEW o \in CommandOutcomes(PublishAttempts), EnqueuePublish(j, b, o),
         Executions(o, PublishAttempts) > 0
  PROVE  \A f \in b : InRequest(j, f)'
<1> DEFINE E == RequestEntries \cup ForeignEntries
           e == Message(j, b)
           n == Executions(o, PublishAttempts)
<1>1. requests \in Streams(E) /\ WellFormed(requests) BY DEF TypeOK, RequestsTypeOK
<1>2. b \subseteq enqueue[j].left /\ requests' = XAdd(requests, e, n)
  BY DEF EnqueuePublish, NextBatches, Message
<1>3. e \in E BY <1>2, BatchFacts DEF Message
<1>4. n \in Nat BY OutcomeFacts DEF PublishAttempts
<1>5. e.form = "request" /\ e.job = j /\ DOMAIN e.feeds = b BY DEF Message, Request
<1> HIDE DEF E, e, n
<1>6. LET l == requests'.log IN Len(l) \in 1..Len(l) /\ l[Len(l)] = e
  BY <1>1, <1>2, <1>3, <1>4, XAddLast DEF n
<1>7. PICK i \in 1..Len(requests'.log) : requests'.log[i] = e BY <1>6
<1>8. i \in RequestsOf(j)' BY <1>5, <1>7 DEF RequestsOf
<1>9. \A f \in b : f \in FeedsIn(i)' BY <1>5, <1>7 DEF FeedsIn
<1> QED BY <1>8, <1>9 DEF InRequest

\* No feed of a job is left out between its batches.
LEMMA CoverStep ==
  ASSUME TypeOK, Writers, NEW j \in Jobs, CoverOf(j)
  PROVE  CoverOf(j)'
<1>1. TablesStep /\ RequestStep /\ RequestsStep BY DEF Writers
<1>2. Extends(requests.log, requests'.log) BY <1>1, RequestsGrow
<1>3. CASE EnqueueCreate(j)
  BY <1>3, CreateFacts DEF CoverOf
<1>4. ASSUME ~ EnqueueCreate(j) PROVE CoverOf(j)'
  <2>1. jobs'[j].feeds \subseteq jobs[j].feeds
    BY <1>1, <1>4, CreateFacts, MarkFailedFacts, PersistFacts, DeleteFacts DEF TablesStep
  <2>2. ASSUME enqueue'[j].pc = enqueue[j].pc, enqueue'[j].left = enqueue[j].left PROVE CoverOf(j)'
    BY <1>2, <2>1, <2>2, InRequestStable DEF CoverOf
  <2>3. ASSUME enqueue'[j].pc \notin {"publish", "done"} PROVE CoverOf(j)'
    BY <2>3 DEF CoverOf
  <2>4. ASSUME NEW b \in SUBSET Feeds, NEW o \in CommandOutcomes(PublishAttempts),
               EnqueuePublish(j, b, o), enqueue'[j].pc \in {"publish", "done"}
        PROVE  CoverOf(j)'
    <3>1. /\ enqueue[j].pc = "publish" /\ enqueue'[j].left = enqueue[j].left \ b
          /\ enqueue'[j].pc = "done" => enqueue[j].left = b
          /\ Executions(o, PublishAttempts) > 0
      BY <2>4, PublishStepFacts
    <3>2. \A f \in b : InRequest(j, f)' BY <2>4, <3>1, BatchIsSent
    <3>3. \A f \in jobs[j].feeds : f \in enqueue[j].left \/ InRequest(j, f)
      BY <3>1 DEF CoverOf
    <3> QED BY <1>2, <2>1, <3>1, <3>2, <3>3, InRequestStable DEF CoverOf
  <2>5. CASE \E k \in Jobs, b \in SUBSET Feeds, o \in CommandOutcomes(PublishAttempts) :
               EnqueuePublish(k, b, o)
    <3>1. PICK k \in Jobs, b \in SUBSET Feeds, o \in CommandOutcomes(PublishAttempts) :
            EnqueuePublish(k, b, o)
      BY <2>5
    <3>2. CASE k # j BY <2>2, <3>1, <3>2, PublishStepFacts
    <3>3. CASE k = j BY <2>3, <2>4, <3>1, <3>3
    <3> QED BY <3>2, <3>3
  <2>6. CASE \E k \in Jobs : EnqueueCreate(k) \/ EnqueueMarkFailed(k)
    <3>1. PICK k \in Jobs : EnqueueCreate(k) \/ EnqueueMarkFailed(k) BY <2>6
    <3>2. CASE k # j BY <2>2, <3>1, <3>2, CreateFacts, MarkFailedFacts
    <3>3. CASE k = j BY <1>4, <2>3, <3>1, <3>3, MarkFailedFacts
    <3> QED BY <3>2, <3>3
  <2>7. CASE /\ \A k \in Jobs : ~ EnqueueCreate(k) /\ ~ EnqueueMarkFailed(k)
             /\ ~ \E k \in Jobs, b \in SUBSET Feeds, o \in CommandOutcomes(PublishAttempts) :
                    EnqueuePublish(k, b, o)
    <3>1. \/ enqueue'[j] = enqueue[j]
          \/ enqueue'[j].pc \in {"create", "rejected", "crashed"}
      <4>1. enqueue \in [Jobs -> [pc : EnqueuePCs, ingest : BOOLEAN,
                                  feeds : SnapshotSets, left : SUBSET Feeds]]
        BY DEF TypeOK, EnqueueTypeOK
      <4> QED BY <1>1, <2>7, <4>1 DEF RequestStep, EnqueueRead, EnqueueReject, BackendCrash
    <3> QED BY <2>2, <2>3, <3>1
  <2> QED BY <2>5, <2>6, <2>7
<1> QED BY <1>3, <1>4

-------------------------------------------------------------------------------
(* The theorems.                                                           *)

\* The whole inductive invariant holds at the start.
LEMMA JobInit == Init => JobInv
<1> SUFFICES ASSUME Init PROVE JobInv OBVIOUS
<1>1. PipelineInv BY PipelineInit
<1>2. ASSUME NEW j \in Jobs PROVE StatusOf(j) /\ CoverOf(j)
  <2>1. jobs[j] = NoJob /\ enqueue[j].pc = "idle"
    BY DEF Init, SharedInit, EnqueueInit
  <2> QED BY <2>1 DEF StatusOf, CoverOf, NoJob, Terminal
<1> QED BY <1>1, <1>2 DEF JobInv, StatusInv, CoverInv

\* Every step keeps it.
LEMMA JobStep ==
  ASSUME JobInv, [Next]_vars
  PROVE  JobInv'
<1>1. PipelineInv /\ TypeOK BY DEF JobInv, StatusInv, CoverInv, PipelineInv, WorkerInv
<1>2. PipelineInv' BY <1>1, PipelineStep
<1>3. Writers BY StepWriters
<1>4. ASSUME NEW j \in Jobs PROVE StatusOf(j)' /\ CoverOf(j)'
  BY <1>1, <1>3, StatusStep, CoverStep DEF JobInv, StatusInv, CoverInv
<1> QED BY <1>2, <1>4 DEF JobInv, StatusInv, CoverInv

\* refresh_rss_scrape_job_status calls a job completed only when each of its
\* feeds has a result, and "completed" only when none of them is an error.
THEOREM CompletedJobsProcessed == Spec => []CompletedJobsAreProcessed
<1>1. JobInv => CompletedJobsAreProcessed
  <2> SUFFICES ASSUME JobInv, NEW j \in Jobs, jobs[j].status \in Terminal
               PROVE  /\ \A f \in jobs[j].feeds : FeedRead(j, f) # "pending"
                      /\ jobs[j].status = "completed" => StatusRead(j).feeds_error = 0
    BY DEF CompletedJobsAreProcessed
  <2>1. TypeOK /\ StatusOf(j) BY DEF JobInv, StatusInv, CoverInv, PipelineInv, WorkerInv
  <2>2. jobs[j].feeds \subseteq Feeds /\ \A f \in Feeds : results[j][f] \in ResultStatuses
    BY <2>1 DEF TypeOK, TablesTypeOK, JobRows, JobFeedRows
  <2>3. \A f \in jobs[j].feeds : FeedRead(j, f) # "pending"
    BY <2>1, <2>2 DEF StatusOf, ResultsOf, FeedRead, ResultStatuses
  <2>4. jobs[j].status = "completed" => StatusRead(j).feeds_error = 0
    BY <2>1, FS_EmptySet DEF StatusOf, StatusRead
  <2> QED BY <2>3, <2>4
<1>2. JobInv /\ [Next]_vars => JobInv' BY JobStep
<1> QED BY <1>1, <1>2, JobInit, PTL DEF Spec

\* The status of a job, read at any time, fits what is recorded of its feeds as
\* long as none of them is deleted.
THEOREM StatusFitsResults == Spec => []StatusMatchesResults
<1>1. JobInv => StatusMatchesResults
  <2> SUFFICES ASSUME JobInv, NEW j \in Jobs, jobs[j].status # "none",
                      Cardinality(jobs[j].feeds) = jobs[j].feed_count
               PROVE  \/ jobs[j].status = "failed"
                      \/ /\ jobs[j].status = "queued" /\ ResultsOf(j) = {}
                         /\ ~ (jobs[j].feeds \subseteq ResultsOf(j))
                      \/ /\ jobs[j].status = "processing" /\ ResultsOf(j) # {}
                         /\ ~ (jobs[j].feeds \subseteq ResultsOf(j))
                      \/ /\ jobs[j].status = "completed" /\ jobs[j].feeds \subseteq ResultsOf(j)
                         /\ ErrorsOf(j) = {}
                      \/ /\ jobs[j].status = "completed_with_errors"
                         /\ jobs[j].feeds \subseteq ResultsOf(j) /\ ErrorsOf(j) # {}
    BY DEF StatusMatchesResults
  <2>1. StatusOf(j) BY DEF JobInv, StatusInv, CoverInv
  <2>2. jobs[j].status \in JobStatuses
    BY DEF JobInv, StatusInv, CoverInv, PipelineInv, WorkerInv, TypeOK, TablesTypeOK, JobRows
  <2> QED BY <2>1, <2>2 DEF StatusOf, JobStatuses, Terminal
<1>2. JobInv /\ [Next]_vars => JobInv' BY JobStep
<1> QED BY <1>1, <1>2, JobInit, PTL DEF Spec

\* From the answer to the client to the last XACK: a job whose messages are all
\* sent and acknowledged has its final status, unless a feed was deleted.
THEOREM AcknowledgedJobsAreComplete == Spec => []AcknowledgedJobsComplete
<1>1. JobInv => AcknowledgedJobsComplete
  <2> SUFFICES ASSUME JobInv, NEW j \in Jobs, enqueue[j].pc = "done",
                      Cardinality(jobs[j].feeds) = jobs[j].feed_count,
                      RequestsOf(j) \subseteq requests.acked,
                      \A kind \in Kinds : ResultsFor(kind, j) \subseteq streams[kind].acked
               PROVE  jobs[j].status \in Terminal
    BY DEF AcknowledgedJobsComplete
  <2>1. /\ TypeOK /\ JobRowsOf(j) /\ StatusOf(j) /\ CoverOf(j)
        /\ AckedRequestsArePublished /\ AckedResultsArePersisted
    BY DEF JobInv, StatusInv, CoverInv, PipelineInv, WorkerInv, JobRowsInv, JobRowsOf
  <2>2. ASSUME NEW f \in jobs[j].feeds PROVE f \in ResultsOf(j)
    <3>1. f \in feeds /\ f \in Feeds BY <2>1 DEF JobRowsOf, TypeOK, TablesTypeOK
    <3>2. PICK i \in RequestsOf(j) : f \in FeedsIn(i) BY <2>1, <2>2 DEF CoverOf, InRequest
    <3>3. i \in requests.acked /\ requests.log[i].job = j BY DEF RequestsOf
    <3>4. Published(j, f) BY <2>1, <3>2, <3>3 DEF AckedRequestsArePublished
    <3>5. PICK kind \in Kinds : \E k \in ResultsFor(kind, j) : streams[kind].log[k].feed = f
      BY <3>4 DEF Published
    <3>6. PICK k \in ResultsFor(kind, j) : streams[kind].log[k].feed = f BY <3>5
    <3>7. /\ k \in streams[kind].acked /\ streams[kind].log[k].form = "result"
          /\ streams[kind].log[k].job = j
      BY DEF ResultsFor
    <3>8. results[j][f] # "none" BY <2>1, <3>1, <3>6, <3>7 DEF AckedResultsArePersisted
    <3> QED BY <3>1, <3>8 DEF ResultsOf
  <2>3. jobs[j].status \in JobStatuses BY <2>1 DEF TypeOK, TablesTypeOK, JobRows
  <2>4. jobs[j].status # "none" BY <2>1 DEF JobRowsOf
  <2>5. jobs[j].feeds \subseteq ResultsOf(j) BY <2>2
  <2> QED BY <2>1, <2>3, <2>4, <2>5 DEF StatusOf, JobStatuses, Terminal
<1>2. JobInv /\ [Next]_vars => JobInv' BY JobStep
<1> QED BY <1>1, <1>2, JobInit, PTL DEF Spec

\* refresh_rss_scrape_job_status never takes a status back: what a client
\* polls only advances, but for the backend's "failed".
THEOREM StatusAdvances == Spec => StatusNeverRegresses
<1> DEFINE Step(j) ==
      \/ jobs'[j].status = "failed"
      \/ jobs[j].status = "failed"
      \/ jobs'[j].status = jobs[j].status
      \/ Progress(jobs[j].status) < Progress(jobs'[j].status)
<1>1. ASSUME JobInv, [Next]_vars, NEW j \in Jobs PROVE Step(j)
  <2>1. /\ PipelineInv /\ TypeOK /\ JobRowsOf(j) /\ StatusOf(j)
        /\ jobs[j].status \in JobStatuses
    BY <1>1 DEF JobInv, StatusInv, CoverInv, PipelineInv, WorkerInv, JobRowsInv, JobRowsOf, TypeOK, TablesTypeOK, JobRows
  <2>2. TablesStep BY <1>1, StepWriters DEF Writers
  <2>3. ASSUME NEW k \in Jobs, EnqueueCreate(k) PROVE Step(j)
    <3>1. CASE k # j BY <2>1, <2>3, <3>1, CreateFacts
    <3>2. CASE k = j
      <4>1. jobs[j].status = "none" BY <2>1, <2>3, <3>2, CreateFacts DEF JobRowsOf
      <4>2. jobs'[j].status \in {"completed", "queued"} BY <2>1, <2>3, <3>2, CreateFacts
      <4> QED BY <4>1, <4>2 DEF Progress
    <3> QED BY <3>1, <3>2
  <2>4. ASSUME NEW k \in Jobs, EnqueueMarkFailed(k) PROVE Step(j)
    BY <2>1, <2>4, MarkFailedFacts
  <2>5. ASSUME NEW m \in inbox, ConsumerPersist(m) PROVE Step(j)
    <3>1. CASE j # Entry(m).job BY <2>5, <2>1, <3>1, PersistOthers
    <3>2. CASE j = Entry(m).job
      <4> DEFINE F == jobs[j].feeds
                 R == ResultsOf(j)'
                 E == ErrorsOf(j)'
                 n == jobs[j].feed_count
                 f == Entry(m).feed
      <4>1. /\ IsFiniteSet(F) /\ R \subseteq F /\ E \subseteq R /\ f \in R
            /\ n \in Nat /\ Cardinality(F) <= n
            /\ jobs'[j].status = RefreshedStatus(n, Cardinality(R), Cardinality(E))
        BY <2>1, <2>5, <3>2, PersistCounts
      <4>2. f \notin ResultsOf(j) BY <2>1, <2>5, <3>2, PersistFacts DEF ResultsOf
      <4>3. jobs[j].status # "none" BY <2>1, <2>5, <3>2, PersistFacts
      <4>4. jobs[j].status \notin Terminal BY <2>1, <4>1, <4>2 DEF StatusOf
      <4> HIDE DEF F, R, E, n
      <4>5. R # {} BY <4>1
      <4>6. jobs'[j].status \notin {"queued", "failed", "none"} BY <4>1, <4>5, RefreshFits
      <4>7. jobs'[j].status \in {"queued", "processing"} \cup Terminal
        BY <2>1, <2>5, <3>2, PersistFacts
      <4> QED BY <2>1, <4>3, <4>4, <4>6, <4>7 DEF Progress, JobStatuses, Terminal
    <3> QED BY <3>1, <3>2
  <2>6. ASSUME NEW f \in Feeds, SyncDeletesFeed(f) PROVE Step(j) BY <2>1, <2>6, DeleteFacts
  <2> QED BY <2>2, <2>3, <2>4, <2>5, <2>6 DEF TablesStep
<1>2. JobInv /\ [Next]_vars => [\A j \in Jobs : Step(j)]_vars BY <1>1
<1>3. JobInv /\ [Next]_vars => JobInv' BY JobStep
<1> QED BY <1>2, <1>3, JobInit, PTL DEF Spec, StatusNeverRegresses
-------------------------------------------------------------------------------
(* The pipeline implements JobTracker: seen through the tables alone, no   *)
(* queue, retry, crash or repeated message exists.                         *)

\* The rows of a job as the tracker sees them.
PendingOf(j) == {f \in jobs[j].feeds : results[j][f] = "none"}
FineOf(j) == {f \in Feeds : results[j][f] \in {"success", "not_modified"}}

\* The tracker counts as the pipeline does.
LEMMA SameCardinality ==
  ASSUME NEW S
  PROVE  Tracker!Cardinality(S) = Cardinality(S)
BY Zenon DEF Tracker!Cardinality, Cardinality

\* The initial tables are those of a tracker without jobs.
LEMMA TrackerInitial == Init => Tracker!TrackerInit
<1> SUFFICES ASSUME Init PROVE Tracker!TrackerInit OBVIOUS
<1>1. jobs = [j \in Jobs |-> NoJob] /\ results = [j \in Jobs |-> [f \in Feeds |-> "none"]]
  BY DEF Init, SharedInit
<1>2. \A j \in Jobs : /\ jobs[j].status = "none" /\ jobs[j].feed_count = 0 /\ jobs[j].feeds = {}
                      /\ \A f \in Feeds : results[j][f] = "none"
  BY <1>1 DEF NoJob
<1> QED BY <1>2 DEF Tracker!TrackerInit, ErrorsOf

\* A step that leaves the rows alone is a stutter of the tracker.
LEMMA TrackerStutter ==
  ASSUME UNCHANGED <<jobs, results>>
  PROVE  UNCHANGED Tracker!trackerVars
BY DEF Tracker!trackerVars, ErrorsOf

\* The commit of a job creates it in the tracker.
LEMMA TrackerCreates ==
  ASSUME PipelineInv, NEW j \in Jobs, EnqueueCreate(j), NEW fs, fs = enqueue[j].left
  PROVE  Tracker!Create(j, fs)
<1>1. TypeOK /\ JobRowsOf(j) BY DEF PipelineInv, WorkerInv, JobRowsInv, JobRowsOf
<1>2. /\ results' = results
      /\ jobs'[j].feeds = enqueue[j].left
      /\ jobs'[j].feed_count = Cardinality(enqueue[j].left)
      /\ jobs'[j].status = IF enqueue[j].left = {} THEN "completed" ELSE "queued"
      /\ \A k \in Jobs : k # j => jobs'[k] = jobs[k]
      /\ enqueue[j].pc = "create" /\ enqueue[j].left \subseteq Feeds
  BY <1>1, CreateFacts DEF TypeOK, EnqueueTypeOK
<1>3. jobs[j].status = "none" /\ jobs[j].feeds = {} /\ ResultsOf(j) = {}
  BY <1>1, <1>2 DEF JobRowsOf
<1>4. PendingOf(j)' = fs BY <1>2, <1>3 DEF ResultsOf, PendingOf
<1>5. \A k \in Jobs : k # j => PendingOf(k)' = PendingOf(k) BY <1>2 DEF PendingOf
<1>6. \A k \in Jobs : FineOf(k)' = FineOf(k) /\ ErrorsOf(k)' = ErrorsOf(k)
  BY <1>2 DEF FineOf, ErrorsOf
<1>7. [k \in Jobs |-> jobs'[k].status]
        = [[k \in Jobs |-> jobs[k].status] EXCEPT ![j] = IF fs = {} THEN "completed" ELSE "queued"]
  BY <1>2
<1>8. [k \in Jobs |-> jobs'[k].feed_count]
        = [[k \in Jobs |-> jobs[k].feed_count] EXCEPT ![j] = Cardinality(fs)]
  BY <1>2
<1>9. [k \in Jobs |-> PendingOf(k)'] = [[k \in Jobs |-> PendingOf(k)] EXCEPT ![j] = fs]
  BY <1>4, <1>5
<1>10. /\ [k \in Jobs |-> FineOf(k)'] = [k \in Jobs |-> FineOf(k)]
       /\ [k \in Jobs |-> ErrorsOf(k)'] = [k \in Jobs |-> ErrorsOf(k)]
  BY <1>6
<1>11. [k \in Jobs |-> jobs[k].status][j] = "none" BY <1>3
<1> QED
  BY <1>7, <1>8, <1>9, <1>10, <1>11, SameCardinality DEF Tracker!Create, PendingOf, FineOf

\* The write of "failed" declares the job failed, or is a stutter.
LEMMA TrackerFails ==
  ASSUME PipelineInv, NEW j \in Jobs, EnqueueMarkFailed(j)
  PROVE  Tracker!DeclareFailed(j) \/ UNCHANGED Tracker!trackerVars
<1>1. TypeOK /\ JobRowsOf(j) BY DEF PipelineInv, WorkerInv, JobRowsInv, JobRowsOf
<1>2. jobs[j].status # "none" BY <1>1, MarkFailedFacts DEF JobRowsOf
<1>3. results' = results /\ (jobs' = jobs \/ jobs' = [jobs EXCEPT ![j].status = "failed"])
  BY DEF EnqueueMarkFailed, SetStatus
<1>4. CASE jobs' = jobs BY <1>3, <1>4, TrackerStutter
<1>5. CASE jobs' = [jobs EXCEPT ![j].status = "failed"]
  <2>1. jobs \in [Jobs -> JobRows] BY <1>1 DEF TypeOK, TablesTypeOK
  <2>2. /\ jobs'[j].status = "failed"
        /\ \A k \in Jobs : /\ k # j => jobs'[k] = jobs[k]
                           /\ jobs'[k].feeds = jobs[k].feeds
                           /\ jobs'[k].feed_count = jobs[k].feed_count
    BY <1>5, <2>1 DEF JobRows
  <2> QED BY <1>2, <1>3, <2>2 DEF Tracker!DeclareFailed, ErrorsOf
<1> QED BY <1>3, <1>4, <1>5

\* The deletion of a feed makes the tracker forget it.
LEMMA TrackerForgets ==
  ASSUME PipelineInv, NEW f \in Feeds, SyncDeletesFeed(f)
  PROVE  Tracker!Forget(f)
<1>1. TypeOK BY DEF PipelineInv, WorkerInv
<1>2. \A j \in Jobs : /\ jobs'[j].feeds = jobs[j].feeds \ {f}
                      /\ jobs'[j].feed_count = jobs[j].feed_count
                      /\ jobs'[j].status = jobs[j].status
                      /\ \A g \in Feeds : results'[j][g] = IF g = f THEN "none" ELSE results[j][g]
                      /\ jobs[j].feeds \subseteq Feeds
  BY <1>1, DeleteFacts DEF TypeOK, TablesTypeOK, JobRows, JobFeedRows
<1>3. ASSUME NEW j \in Jobs
      PROVE  /\ PendingOf(j)' = PendingOf(j) \ {f}
             /\ FineOf(j)' = FineOf(j) \ {f}
             /\ ErrorsOf(j)' = ErrorsOf(j) \ {f}
  BY <1>2 DEF PendingOf, FineOf, ErrorsOf
<1> QED BY <1>2, <1>3 DEF Tracker!Forget, PendingOf, FineOf

\* The transaction of a result records it, and the status it computes from two
\* counts is the verdict over what is recorded.
LEMMA TrackerRecords ==
  ASSUME PipelineInv, NEW m \in inbox, ConsumerPersist(m)
  PROVE  \E j \in Jobs, f \in Feeds : Tracker!RecordFine(j, f) \/ Tracker!RecordBad(j, f)
<1>1. TypeOK /\ JobRowsInv BY DEF PipelineInv, WorkerInv
<1>2. Entry(m) \in ResultEntries BY <1>1, PersistFacts
<1>3. Entry(m).job \in Jobs /\ Entry(m).feed \in Feeds /\ Entry(m).status \in ResultStatuses \ {"none"}
  BY <1>2 DEF ResultEntries
<1>4. PICK j \in Jobs, f \in Feeds, status \in ResultStatuses \ {"none"} :
        j = Entry(m).job /\ f = Entry(m).feed /\ status = Entry(m).status
  BY <1>3
<1>5. /\ \A k \in Jobs : /\ jobs'[k].feeds = jobs[k].feeds
                         /\ jobs'[k].feed_count = jobs[k].feed_count
                         /\ k # j => jobs'[k] = jobs[k]
      /\ \A k \in Jobs, g \in Feeds :
           results'[k][g] = IF k = j /\ g = f THEN status ELSE results[k][g]
      /\ results[j][f] = "none"
  <2> DEFINE r == Entry(m)
  <2>1. /\ \A k \in Jobs : /\ jobs'[k].feeds = jobs[k].feeds
                           /\ jobs'[k].feed_count = jobs[k].feed_count
                           /\ k # r.job => jobs'[k] = jobs[k]
        /\ \A k \in Jobs, g \in Feeds :
             results'[k][g] = IF k = r.job /\ g = r.feed THEN r.status ELSE results[k][g]
        /\ results[r.job][r.feed] = "none"
    BY <1>1, PersistFacts
  <2>2. r.job = j /\ r.feed = f /\ r.status = status BY <1>4
  <2> HIDE DEF r
  <2> QED BY <2>1, <2>2
<1>6. /\ f \in ResultsOf(j)' /\ ResultsOf(j)' = ResultsOf(j) \cup {f}
      /\ ErrorsOf(j)' = IF status = "error" THEN ErrorsOf(j) \cup {f} ELSE ErrorsOf(j)
      /\ ResultsOf(j)' \subseteq jobs[j].feeds
      /\ IsFiniteSet(jobs[j].feeds) /\ Cardinality(jobs[j].feeds) <= jobs[j].feed_count
      /\ jobs[j].feed_count \in Nat
      /\ jobs'[j].status = RefreshedStatus(jobs[j].feed_count, Cardinality(ResultsOf(j)'),
                                           Cardinality(ErrorsOf(j)'))
  BY <1>4, PersistCounts
<1>7. \A k \in Jobs : jobs[k].feeds \subseteq Feeds /\ \A g \in Feeds : results[k][g] \in ResultStatuses
  BY <1>1 DEF TypeOK, TablesTypeOK, JobRows, JobFeedRows
<1>8. f \in PendingOf(j) BY <1>5, <1>6 DEF PendingOf
<1>9. \A k \in Jobs : k # j => /\ PendingOf(k)' = PendingOf(k) /\ FineOf(k)' = FineOf(k)
                               /\ ErrorsOf(k)' = ErrorsOf(k)
  BY <1>5, <1>7 DEF PendingOf, FineOf, ErrorsOf
<1>10. /\ PendingOf(j)' = PendingOf(j) \ {f}
       /\ FineOf(j)' = IF status = "error" THEN FineOf(j) ELSE FineOf(j) \cup {f}
  BY <1>4, <1>5, <1>7 DEF PendingOf, FineOf, ResultStatuses
<1>11. /\ ResultsOf(j)' = FineOf(j)' \cup ErrorsOf(j)'
       /\ FineOf(j)' \cap ErrorsOf(j)' = {}
  <2>1. \A g \in Feeds : results'[j][g] \in ResultStatuses BY <1>5, <1>7
  <2> QED BY <2>1 DEF ResultsOf, FineOf, ErrorsOf, ResultStatuses
<1>12. jobs'[j].status = Tracker!Verdict(jobs[j].feed_count, FineOf(j)', ErrorsOf(j)')
  <2> DEFINE R == ResultsOf(j)'
             F == FineOf(j)'
             E == ErrorsOf(j)'
             n == jobs[j].feed_count
  <2>1. IsFiniteSet(R) /\ R # {} /\ Cardinality(R) <= Cardinality(jobs[j].feeds)
    BY <1>6, FS_Subset
  <2>2. R = F \cup E /\ F \cap E = {} BY <1>11
  <2>3. /\ jobs'[j].status = RefreshedStatus(n, Cardinality(R), Cardinality(E))
        /\ n \in Nat /\ Cardinality(jobs[j].feeds) <= n /\ IsFiniteSet(jobs[j].feeds)
    BY <1>6
  <2> HIDE DEF R, F, E, n
  <2>4. IsFiniteSet(F) /\ IsFiniteSet(E) BY <2>1, <2>2, FS_Subset
  <2>5. /\ Cardinality(R) \in Nat /\ Cardinality(F) \in Nat /\ Cardinality(E) \in Nat
        /\ Cardinality(jobs[j].feeds) \in Nat
    BY <2>1, <2>3, <2>4, FS_CardinalityType
  <2>6. Cardinality(F \cup E) = Cardinality(F) + Cardinality(E) - Cardinality(F \cap E)
    BY <2>4, FS_Union
  <2>7. Cardinality(R) = Cardinality(F) + Cardinality(E)
    <3>1. Cardinality(F \cap E) = 0 BY <2>2, FS_EmptySet
    <3> QED BY <2>2, <2>5, <2>6, <3>1
  <2>8. (Cardinality(R) = 0 <=> R = {}) /\ (Cardinality(E) = 0 <=> E = {})
    BY <2>1, <2>4, FS_EmptySet
  <2> QED
    <3>1. n > 0 /\ Cardinality(R) > 0 BY <2>1, <2>3, <2>5, <2>8
    <3>2. jobs'[j].status =
            IF Cardinality(F) + Cardinality(E) < n THEN "processing"
            ELSE IF E = {} THEN "completed" ELSE "completed_with_errors"
      BY <2>3, <2>5, <2>7, <2>8, <3>1 DEF RefreshedStatus
    <3>3. jobs'[j].status = Tracker!Verdict(n, F, E)
      BY <3>2, SameCardinality DEF Tracker!Verdict
    <3> QED BY <3>3 DEF F, E, n
<1>13. /\ [k \in Jobs |-> PendingOf(k)']
            = [[k \in Jobs |-> PendingOf(k)] EXCEPT ![j] = [k \in Jobs |-> PendingOf(k)][j] \ {f}]
       /\ f \in [k \in Jobs |-> PendingOf(k)][j]
  BY <1>8, <1>9, <1>10
<1>14. [k \in Jobs |-> jobs'[k].feed_count] = [k \in Jobs |-> jobs[k].feed_count] BY <1>5
<1>15. CASE status = "error"
  <2>1. FineOf(j)' = FineOf(j) /\ ErrorsOf(j)' = ErrorsOf(j) \cup {f} BY <1>6, <1>10, <1>15
  <2>2. jobs'[j].status = Tracker!Verdict(jobs[j].feed_count, FineOf(j), ErrorsOf(j) \cup {f})
    BY <1>12, <2>1
  <2>3. [k \in Jobs |-> jobs'[k].status]
          = [[k \in Jobs |-> jobs[k].status] EXCEPT ![j] =
               Tracker!Verdict([k \in Jobs |-> jobs[k].feed_count][j],
                               [k \in Jobs |-> FineOf(k)][j],
                               [k \in Jobs |-> ErrorsOf(k)][j] \cup {f})]
    BY <1>5, <2>2
  <2>4. /\ [k \in Jobs |-> ErrorsOf(k)']
             = [[k \in Jobs |-> ErrorsOf(k)] EXCEPT ![j] = [k \in Jobs |-> ErrorsOf(k)][j] \cup {f}]
        /\ [k \in Jobs |-> FineOf(k)'] = [k \in Jobs |-> FineOf(k)]
    BY <1>9, <2>1
  <2>5. Tracker!RecordBad(j, f)
    BY <1>13, <1>14, <2>3, <2>4 DEF Tracker!RecordBad, PendingOf, FineOf
  <2> QED BY <2>5
<1>16. CASE status # "error"
  <2>1. FineOf(j)' = FineOf(j) \cup {f} /\ ErrorsOf(j)' = ErrorsOf(j) BY <1>6, <1>10, <1>16
  <2>2. jobs'[j].status = Tracker!Verdict(jobs[j].feed_count, FineOf(j) \cup {f}, ErrorsOf(j))
    BY <1>12, <2>1
  <2>3. [k \in Jobs |-> jobs'[k].status]
          = [[k \in Jobs |-> jobs[k].status] EXCEPT ![j] =
               Tracker!Verdict([k \in Jobs |-> jobs[k].feed_count][j],
                               [k \in Jobs |-> FineOf(k)][j] \cup {f},
                               [k \in Jobs |-> ErrorsOf(k)][j])]
    BY <1>5, <2>2
  <2>4. /\ [k \in Jobs |-> FineOf(k)']
             = [[k \in Jobs |-> FineOf(k)] EXCEPT ![j] = [k \in Jobs |-> FineOf(k)][j] \cup {f}]
        /\ [k \in Jobs |-> ErrorsOf(k)'] = [k \in Jobs |-> ErrorsOf(k)]
    BY <1>9, <2>1
  <2>5. Tracker!RecordFine(j, f)
    BY <1>13, <1>14, <2>3, <2>4 DEF Tracker!RecordFine, PendingOf, FineOf
  <2> QED BY <2>5
<1> QED BY <1>15, <1>16

\* The tables the pipeline writes through messages that may be lost, repeated
\* or late are those of the abstract tracker.
THEOREM PipelineTracksJobs == Spec => TracksJobs
<1>1. Init => Tracker!TrackerInit BY TrackerInitial
<1>2. PipelineInv /\ [Next]_vars => [Tracker!TrackerNext]_(Tracker!trackerVars)
  <2> SUFFICES ASSUME PipelineInv, [Next]_vars
               PROVE  Tracker!TrackerNext \/ UNCHANGED Tracker!trackerVars
    OBVIOUS
  <2>1. TablesStep /\ TypeOK BY StepWriters DEF Writers, PipelineInv, WorkerInv
  <2>2. CASE UNCHANGED <<feeds, jobs, results>> BY <2>2, TrackerStutter
  <2>3. ASSUME NEW j \in Jobs, EnqueueCreate(j) PROVE Tracker!TrackerNext
    <3>1. enqueue[j].left \in SUBSET Feeds BY <2>1 DEF TypeOK, EnqueueTypeOK
    <3> QED BY <2>3, <3>1, TrackerCreates DEF Tracker!TrackerNext
  <2>4. ASSUME NEW j \in Jobs, EnqueueMarkFailed(j)
        PROVE  Tracker!TrackerNext \/ UNCHANGED Tracker!trackerVars
    BY <2>4, TrackerFails DEF Tracker!TrackerNext
  <2>5. ASSUME NEW m \in inbox, ConsumerPersist(m) PROVE Tracker!TrackerNext
    BY <2>5, TrackerRecords DEF Tracker!TrackerNext
  <2>6. ASSUME NEW f \in Feeds, SyncDeletesFeed(f) PROVE Tracker!TrackerNext
    BY <2>6, TrackerForgets DEF Tracker!TrackerNext
  <2> QED BY <2>1, <2>2, <2>3, <2>4, <2>5, <2>6 DEF TablesStep
<1>3. PipelineInv /\ [Next]_vars => PipelineInv' BY PipelineStep
<1> QED BY <1>1, <1>2, <1>3, PipelineInit, PTL DEF Spec, TracksJobs, Tracker!TrackerSpec

-------------------------------------------------------------------------------
(* What a client that polls a job is told.                                 *)

\* What the row read first still says of job j when the counts are read: its
\* total is the same, a final status covers the feeds that are left, and a job
\* seen as completed has not got an error since.
StillHolds(j, seen) ==
  /\ jobs[j].status # "none"
  /\ seen.feeds_total = jobs[j].feed_count
  /\ seen.status \in Terminal => jobs[j].feeds \subseteq ResultsOf(j)
  /\ seen.status = "completed" => ErrorsOf(j) = {}

ReaderInv == reader # NoRead => reader.job \in Jobs /\ StillHolds(reader.job, reader.seen)

\* A job all of whose feeds have a result takes no further one.
LEMMA NoMoreResults ==
  ASSUME PipelineInv, NEW m \in inbox, ConsumerPersist(m), NEW j \in Jobs,
         jobs[j].feeds \subseteq ResultsOf(j)
  PROVE  j # Entry(m).job
<1> SUFFICES ASSUME j = Entry(m).job PROVE FALSE OBVIOUS
<1>1. TypeOK BY DEF PipelineInv, WorkerInv
<1>2. Entry(m).feed \in jobs[j].feeds BY PersistCounts
<1>3. results[j][Entry(m).feed] = "none" BY <1>1, PersistFacts
<1> QED BY <1>2, <1>3 DEF ResultsOf

\* No transaction of the pipeline takes back what a served request has seen.
LEMMA SeenStep ==
  ASSUME PipelineInv, Writers, NEW j \in Jobs, NEW seen, StillHolds(j, seen)
  PROVE  StillHolds(j, seen)'
<1>1. /\ jobs[j].status # "none" /\ seen.feeds_total = jobs[j].feed_count
      /\ seen.status \in Terminal => jobs[j].feeds \subseteq ResultsOf(j)
      /\ seen.status = "completed" => ErrorsOf(j) = {}
  BY DEF StillHolds
<1>2. TypeOK /\ JobRowsInv /\ TablesStep BY DEF PipelineInv, WorkerInv, Writers
<1> SUFFICES /\ jobs'[j].status # "none" /\ jobs'[j].feed_count = jobs[j].feed_count
             /\ seen.status \in Terminal => jobs'[j].feeds \subseteq ResultsOf(j)'
             /\ seen.status = "completed" => ErrorsOf(j)' = {}
  BY <1>1 DEF StillHolds
<1>3. CASE UNCHANGED <<feeds, jobs, results>> BY <1>1, <1>3 DEF ResultsOf, ErrorsOf
<1>4. ASSUME NEW k \in Jobs, EnqueueCreate(k)
      PROVE  UNCHANGED <<jobs[j], ResultsOf(j), ErrorsOf(j)>>
  <2>1. jobs[k].status = "none" BY <1>2, <1>4, CreateFacts DEF JobRowsInv, JobRowsOf
  <2> QED BY <1>1, <1>2, <1>4, <2>1, CreateFacts DEF ResultsOf, ErrorsOf
<1>5. ASSUME NEW k \in Jobs, EnqueueMarkFailed(k)
      PROVE  /\ UNCHANGED <<jobs[j].feeds, jobs[j].feed_count, ResultsOf(j), ErrorsOf(j)>>
             /\ jobs'[j].status # "none"
  BY <1>1, <1>2, <1>5, MarkFailedFacts DEF ResultsOf, ErrorsOf
<1>6. ASSUME NEW m \in inbox, ConsumerPersist(m)
      PROVE  /\ UNCHANGED <<jobs[j].feeds, jobs[j].feed_count>>
             /\ jobs'[j].status # "none"
             /\ jobs[j].feeds \subseteq ResultsOf(j) => UNCHANGED <<ResultsOf(j), ErrorsOf(j)>>
  <2>1. UNCHANGED <<jobs[j].feeds, jobs[j].feed_count>> BY <1>1, <1>2, <1>6, PersistFacts
  <2>2. jobs'[j].status # "none"
    <3>1. CASE j # Entry(m).job BY <1>1, <1>6, <3>1, PersistOthers
    <3>2. CASE j = Entry(m).job
      <4>1. jobs'[j].status \in {"queued", "processing"} \cup Terminal
        BY <1>1, <1>2, <1>6, <3>2, PersistFacts
      <4> QED BY <4>1 DEF Terminal
    <3> QED BY <3>1, <3>2
  <2>3. jobs[j].feeds \subseteq ResultsOf(j) => UNCHANGED <<ResultsOf(j), ErrorsOf(j)>>
    BY <1>1, <1>6, NoMoreResults, PersistOthers
  <2> QED BY <2>1, <2>2, <2>3
<1>7. ASSUME NEW f \in Feeds, SyncDeletesFeed(f)
      PROVE  /\ UNCHANGED <<jobs[j].status, jobs[j].feed_count>>
             /\ jobs'[j].feeds = jobs[j].feeds \ {f}
             /\ ResultsOf(j)' = ResultsOf(j) \ {f} /\ ErrorsOf(j)' = ErrorsOf(j) \ {f}
  BY <1>1, <1>2, <1>7, DeleteFacts DEF ResultsOf, ErrorsOf
<1>8. seen.status = "completed" => seen.status \in Terminal BY DEF Terminal
<1>9. CASE \E k \in Jobs : EnqueueCreate(k) BY <1>1, <1>4, <1>9
<1>10. CASE \E k \in Jobs : EnqueueMarkFailed(k) BY <1>1, <1>5, <1>10
<1>11. CASE \E m \in inbox : ConsumerPersist(m) BY <1>1, <1>6, <1>8, <1>11
<1>12. CASE \E f \in Feeds : SyncDeletesFeed(f) BY <1>1, <1>7, <1>12
<1> QED BY <1>2, <1>3, <1>9, <1>10, <1>11, <1>12 DEF TablesStep

\* What the first statement of a request sees is consistent by itself.
LEMMA ReadBegins ==
  ASSUME JobInv, NEW j \in Jobs, ReadJobRow(j)
  PROVE  ReaderInv'
<1>1. StatusOf(j) BY DEF JobInv, StatusInv
<1>2. /\ jobs[j].status # "none" /\ jobs' = jobs /\ results' = results
      /\ reader' = [phase |-> "row read", job |-> j, seen |-> StatusRead(j)]
  BY DEF ReadJobRow, vars, sharedVars
<1>3. ResultsOf(j)' = ResultsOf(j) /\ ErrorsOf(j)' = ErrorsOf(j) BY <1>2 DEF ResultsOf, ErrorsOf
<1>4. /\ reader'.job = j
      /\ reader'.seen.status = jobs[j].status /\ reader'.seen.feeds_total = jobs[j].feed_count
  BY <1>2 DEF StatusRead
<1> QED BY <1>1, <1>2, <1>3, <1>4 DEF ReaderInv, StillHolds, StatusOf

\* get_rss_scrape_job_status_read and list_rss_scrape_job_feeds read the row of
\* the job and the counts in separate statements; whatever is committed in
\* between, the answer they are put together to is one a client can rely on.
THEOREM AnswersConsistent == ReadSpec => []AnswersAreConsistent
<1>1. ReadInit => JobInv /\ ReaderInv BY JobInit DEF ReadInit, ReaderInv
<1>2. JobInv /\ ReaderInv /\ [ReadNext]_readVars => JobInv' /\ ReaderInv'
  <2> SUFFICES ASSUME JobInv, ReaderInv, [ReadNext]_readVars PROVE JobInv' /\ ReaderInv'
    OBVIOUS
  <2>1. [Next]_vars BY DEF ReadNext, readVars, ReadJobRow, ReadAnswers
  <2>2. JobInv' BY <2>1, JobStep
  <2>3. ASSUME UNCHANGED reader PROVE ReaderInv'
    <3>1. PipelineInv /\ Writers BY <2>1, StepWriters DEF JobInv
    <3>2. ASSUME reader # NoRead PROVE StillHolds(reader.job, reader.seen)'
      <4>1. PICK j \in Jobs : j = reader.job /\ StillHolds(j, reader.seen) BY <3>2 DEF ReaderInv
      <4>2. PICK seen : seen = reader.seen OBVIOUS
      <4>3. StillHolds(j, seen)' BY <3>1, <4>1, <4>2, SeenStep
      <4> QED BY <2>3, <4>1, <4>2, <4>3 DEF StillHolds, ResultsOf, ErrorsOf
    <3> QED BY <2>3, <3>2 DEF ReaderInv, NoRead
  <2>4. ASSUME NEW j \in Jobs, ReadJobRow(j) PROVE ReaderInv' BY <2>4, ReadBegins
  <2>5. ASSUME ReadAnswers PROVE ReaderInv' BY <2>5 DEF ReadAnswers, ReaderInv, NoRead
  <2>6. ReaderInv' BY <2>3, <2>4, <2>5 DEF ReadNext, readVars
  <2> QED BY <2>2, <2>6
<1>3. JobInv /\ ReaderInv => AnswersAreConsistent
  <2> SUFFICES ASSUME JobInv, ReaderInv, reader # NoRead
               PROVE  /\ StatusAnswer.feeds_processed <= StatusAnswer.feeds_total
                      /\ StatusAnswer.status \in Terminal =>
                           /\ StatusAnswer.feeds_processed = Cardinality(jobs[reader.job].feeds)
                           /\ \A f \in DOMAIN FeedsAnswer : FeedsAnswer[f] # "pending"
                           /\ StatusAnswer.status = "completed" => StatusAnswer.feeds_error = 0
    BY DEF AnswersAreConsistent
  <2> DEFINE j == reader.job
             seen == reader.seen
  <2>1. /\ j \in Jobs /\ seen.feeds_total = jobs[j].feed_count
        /\ seen.status \in Terminal => jobs[j].feeds \subseteq ResultsOf(j)
        /\ seen.status = "completed" => ErrorsOf(j) = {}
    BY DEF ReaderInv, StillHolds
  <2>2. /\ StatusAnswer.status = seen.status /\ StatusAnswer.feeds_total = seen.feeds_total
        /\ StatusAnswer.feeds_processed = Cardinality(ResultsOf(j))
        /\ StatusAnswer.feeds_error = Cardinality(ErrorsOf(j))
    BY DEF StatusAnswer, StatusRead
  <2>3. FeedsAnswer = [f \in jobs[j].feeds |-> FeedRead(j, f)] BY DEF FeedsAnswer
  <2> HIDE DEF j, seen
  <2>4. TypeOK /\ JobRowsOf(j) BY <2>1 DEF JobInv, PipelineInv, WorkerInv, JobRowsInv
  <2>5. /\ IsFiniteSet(jobs[j].feeds) /\ jobs[j].feed_count \in Nat
        /\ ResultsOf(j) \subseteq jobs[j].feeds /\ Cardinality(jobs[j].feeds) <= jobs[j].feed_count
    BY <2>1, <2>4, FeedsAssumption, FS_Subset DEF TypeOK, TablesTypeOK, JobRows, JobFeedRows, JobRowsOf
  <2>6. /\ Cardinality(ResultsOf(j)) <= Cardinality(jobs[j].feeds)
        /\ Cardinality(ResultsOf(j)) \in Nat /\ Cardinality(jobs[j].feeds) \in Nat
    BY <2>5, FS_Subset, FS_CardinalityType
  <2>7. StatusAnswer.feeds_processed <= StatusAnswer.feeds_total BY <2>1, <2>2, <2>5, <2>6
  <2>8. ASSUME seen.status \in Terminal
        PROVE  /\ Cardinality(ResultsOf(j)) = Cardinality(jobs[j].feeds)
               /\ \A f \in DOMAIN FeedsAnswer : FeedsAnswer[f] # "pending"
    <3>1. ResultsOf(j) = jobs[j].feeds BY <2>1, <2>5, <2>8
    <3>2. ASSUME NEW f \in jobs[j].feeds PROVE FeedRead(j, f) # "pending"
      <4>1. results[j][f] # "none" /\ results[j][f] \in ResultStatuses
        BY <2>1, <2>4, <3>1 DEF ResultsOf, TypeOK, TablesTypeOK
      <4> QED BY <4>1 DEF FeedRead, ResultStatuses
    <3> QED BY <2>3, <3>1, <3>2
  <2>9. seen.status = "completed" => Cardinality(ErrorsOf(j)) = 0 BY <2>1, FS_EmptySet
  <2> QED BY <2>2, <2>7, <2>8, <2>9 DEF j
<1> QED BY <1>1, <1>2, <1>3, PTL DEF ReadSpec
===============================================================================
