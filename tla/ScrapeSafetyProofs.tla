-------------------------- MODULE ScrapeSafetyProofs ---------------------------
(***************************************************************************)
(* The type invariant and the safety properties of the scrape pipeline,    *)
(* for any jobs, feeds, bounds and number of failures.                     *)
(*                                                                         *)
(* First comes what each operation on a stream preserves and changes, for  *)
(* streams of any entries; the proofs about the pipeline cite those facts  *)
(* and never look into the operators.  Then the type invariant, facts      *)
(* about single steps (who writes a table, a stream, the worker's and the  *)
(* consumer's state), the preservation of each part of the inductive       *)
(* invariant of ScrapeInvariants, and the theorems.                        *)
(***************************************************************************)
EXTENDS ScrapeInvariants, FiniteSetTheorems, TLAPS

-------------------------------------------------------------------------------
(* The streams.                                                            *)

\* The new stream is well formed, and its log is the old one.
SameLog(s, t, E) == t \in Streams(E) /\ WellFormed(t) /\ t.log = s.log

\* An unused stream is well formed.
LEMMA EmptyStreamFacts ==
  ASSUME NEW E
  PROVE  /\ EmptyStream \in Streams(E)
         /\ WellFormed(EmptyStream)
         /\ EmptyStream.log = <<>>
         /\ EmptyStream.acked = {}
BY DEF EmptyStream, Streams, WellFormed

\* XADD appends copies of the entry and touches nothing else.
LEMMA XAddFacts ==
  ASSUME NEW E, NEW s \in Streams(E), WellFormed(s), NEW e \in E, NEW n \in Nat
  PROVE  LET t == XAdd(s, e, n)
         IN  /\ t \in Streams(E)
             /\ WellFormed(t)
             /\ Len(t.log) = Len(s.log) + n
             /\ \A i \in 1..Len(s.log) : t.log[i] = s.log[i]
             /\ \A i \in (Len(s.log) + 1)..(Len(s.log) + n) : t.log[i] = e
             /\ t.group = s.group /\ t.last = s.last
             /\ t.pending = s.pending /\ t.acked = s.acked
<1> DEFINE added == [k \in 1..n |-> e]
           t == XAdd(s, e, n)
<1>1. s.log \in Seq(E) /\ s.last \in Nat BY DEF Streams
<1>2. added \in Seq(E) /\ Len(added) = n
  BY DEF added
<1>3. /\ t.log = s.log \o added
      /\ t.group = s.group /\ t.last = s.last
      /\ t.pending = s.pending /\ t.acked = s.acked
  BY DEF XAdd, Streams
<1>4. t \in Streams(E)
  <2>1. s.log \o added \in Seq(E) BY <1>1, <1>2
  <2> HIDE DEF added
  <2>2. t = [s EXCEPT !.log = s.log \o added] BY DEF XAdd, added
  <2> QED BY <2>1, <2>2 DEF Streams
<1> HIDE DEF t
<1>5. /\ s.log \o added \in Seq(E)
      /\ Len(s.log \o added) = Len(s.log) + n
      /\ Len(s.log) \in Nat
  BY <1>1, <1>2
<1>6. \A i \in 1..Len(s.log) : t.log[i] = s.log[i]
  BY <1>1, <1>2, <1>3
<1>7. \A i \in (Len(s.log) + 1)..(Len(s.log) + n) : t.log[i] = e
  BY <1>1, <1>2, <1>3, <1>5
<1>8. WellFormed(t)
  BY <1>1, <1>3, <1>5 DEF WellFormed
<1> QED
  BY <1>3, <1>5, <1>6, <1>7, <1>4, <1>8 DEF t

\* XGROUP CREATE changes neither the log nor what was acknowledged.
LEMMA XGroupCreateFacts ==
  ASSUME NEW E, NEW s \in Streams(E), WellFormed(s)
  PROVE  SameLog(s, XGroupCreate(s), E) /\ XGroupCreate(s).acked = s.acked
<1>1. s.log \in Seq(E) /\ Len(s.log) \in Nat BY DEF Streams
<1>2. CASE s.group
  BY <1>2 DEF XGroupCreate, SameLog
<1>3. CASE ~ s.group
  <2> DEFINE t == XGroupCreate(s)
  <2>1. t = [s EXCEPT !.group = TRUE, !.last = Len(s.log), !.pending = {}]
    BY <1>3 DEF XGroupCreate
  <2> HIDE DEF t
  <2>2. t \in Streams(E) BY <1>1, <2>1 DEF Streams
  <2>3. t.log = s.log /\ t.acked = s.acked /\ t.pending = {} /\ t.last = Len(s.log)
    BY <2>1 DEF Streams
  <2>4. WellFormed(t) BY <1>1, <2>3 DEF WellFormed
  <2> QED BY <2>2, <2>3, <2>4 DEF SameLog, t
<1> QED BY <1>2, <1>3

\* The ids of a read are ids of the log beyond the last delivered one.
LEMMA UndeliveredFacts ==
  ASSUME NEW s, NEW n
  PROVE  Undelivered(s, n) \subseteq 1..Len(s.log)
BY DEF Undelivered

\* XREADGROUP moves ids to the pending list, no more.
LEMMA XReadGroupFacts ==
  ASSUME NEW E, NEW s \in Streams(E), WellFormed(s), NEW n \in Nat
  PROVE  SameLog(s, XReadGroup(s, n), E) /\ XReadGroup(s, n).acked = s.acked
<1>1. s.log \in Seq(E) /\ Len(s.log) \in Nat /\ s.last \in Nat BY DEF Streams
<1>2. Undelivered(s, n) \subseteq 1..Len(s.log) BY UndeliveredFacts
<1> DEFINE reached == IF s.last + n < Len(s.log) THEN s.last + n ELSE Len(s.log)
           moved == s.pending \cup Undelivered(s, n)
           t == XReadGroup(s, n)
<1>3. reached \in Nat /\ reached <= Len(s.log) BY <1>1
<1>4. moved \in SUBSET Nat /\ moved \subseteq 1..Len(s.log)
  BY <1>1, <1>2 DEF WellFormed
<1>5. t = [s EXCEPT !.last = reached, !.pending = moved] BY DEF XReadGroup
<1> HIDE DEF t, reached, moved
<1>6. t \in Streams(E) BY <1>3, <1>4, <1>5 DEF Streams
<1>7. t.log = s.log /\ t.acked = s.acked /\ t.pending = moved /\ t.last = reached
  BY <1>5 DEF Streams
<1>8. WellFormed(t) BY <1>1, <1>3, <1>4, <1>7 DEF WellFormed
<1> QED BY <1>6, <1>7, <1>8 DEF SameLog, t

\* XACK acknowledges the id it names or nothing.
LEMMA XAckFacts ==
  ASSUME NEW E, NEW s \in Streams(E), WellFormed(s), NEW i
  PROVE  SameLog(s, XAck(s, i), E) /\ XAck(s, i).acked \subseteq s.acked \cup {i}
BY DEF XAck, Streams, WellFormed, SameLog

\* The loss of the data set keeps the history of the stream.
LEMMA XLostFacts ==
  ASSUME NEW E, NEW s \in Streams(E), WellFormed(s)
  PROVE  SameLog(s, XLost(s), E) /\ XLost(s).acked = s.acked
BY DEF XLost, Streams, WellFormed, SameLog

-------------------------------------------------------------------------------
(* The pipeline.                                                           *)

\* The log m continues the log l.
Extends(l, m) ==
  /\ Len(l) \in Nat /\ Len(m) \in Nat
  /\ Len(l) <= Len(m)
  /\ \A i \in 1..Len(l) : m[i] = l[i]

\* The counts of a command's outcome are numbers, and one that succeeded was
\* executed.
LEMMA OutcomeFacts ==
  ASSUME NEW attempts \in Nat, NEW o \in CommandOutcomes(attempts)
  PROVE  /\ o.failed \in Nat /\ o.lost \in Nat
         /\ Executions(o, attempts) \in Nat
         /\ Succeeded(o, attempts) => Executions(o, attempts) > 0
BY DEF CommandOutcomes, Executions, Succeeded

\* A step that spends failures leaves a number of them.
LEMMA SpendFacts ==
  ASSUME faults \in Nat, NEW kind, NEW n \in Nat, Spend(kind, n)
  PROVE  faults' \in Nat
BY MaxFaultsAssumption DEF Spend

\* The snapshots taken for a request are snapshots.
LEMMA SnapshotFacts ==
  ASSUME TablesTypeOK, NEW fs \in SUBSET Feeds
  PROVE  SnapshotOf(fs) \in SnapshotSets /\ DOMAIN SnapshotOf(fs) = fs
<1>1. \A f \in fs : [fetchprotection |-> scraping[f].fetchprotection,
                     version |-> scraping[f].version] \in Snapshots
  BY DEF TablesTypeOK, ScrapingRows, Snapshots
<1>2. SnapshotOf(fs) \in [fs -> Snapshots]
  BY <1>1 DEF SnapshotOf
<1> QED BY <1>2 DEF SnapshotSets

\* A set of snapshots is a function from some of the feeds.
LEMMA SnapshotSetFacts ==
  ASSUME NEW s \in SnapshotSets
  PROVE  /\ DOMAIN s \subseteq Feeds
         /\ \A f \in DOMAIN s : s[f] \in Snapshots
         /\ \A fs \in SUBSET DOMAIN s : [f \in fs |-> s[f]] \in SnapshotSets
<1>1. PICK fs \in SUBSET Feeds : s \in [fs -> Snapshots]
  BY DEF SnapshotSets
<1>2. DOMAIN s = fs /\ \A f \in fs : s[f] \in Snapshots
  BY <1>1
<1>3. ASSUME NEW gs \in SUBSET DOMAIN s PROVE [f \in gs |-> s[f]] \in SnapshotSets
  <2>1. [f \in gs |-> s[f]] \in [gs -> Snapshots] BY <1>2
  <2>2. gs \in SUBSET Feeds BY <1>2
  <2> QED BY <2>1, <2>2 DEF SnapshotSets
<1> QED BY <1>2, <1>3

\* The worker's state stays well typed when only the request log grows.
LEMMA WorkerTypeStable ==
  ASSUME TypeOK, Extends(requests.log, requests'.log), UNCHANGED workerVars
  PROVE  WorkerTypeOK'
<1>1. open' \subseteq 1..Len(requests'.log)
  BY DEF TypeOK, WorkerTypeOK, workerVars, Extends
<1>2. ASSUME NEW task \in todo
      PROVE  task \in (1..Len(requests'.log)) \X Feeds /\ task[2] \in FeedsIn(task[1])'
  <2>1. task \in (1..Len(requests.log)) \X Feeds /\ task[2] \in FeedsIn(task[1])
    BY DEF TypeOK, WorkerTypeOK
  <2>2. task[1] \in 1..Len(requests.log) BY <2>1
  <2>3. requests'.log[task[1]] = requests.log[task[1]] BY <2>2 DEF Extends
  <2> QED BY <2>1, <2>3 DEF FeedsIn, Extends
<1>3. ASSUME NEW task \in fetched
      PROVE  task \in (1..Len(requests'.log)) \X ResultEntries
  <2>1. task \in (1..Len(requests.log)) \X ResultEntries BY DEF TypeOK, WorkerTypeOK
  <2> QED BY <2>1 DEF Extends
<1> QED BY <1>1, <1>2, <1>3 DEF TypeOK, WorkerTypeOK, workerVars

\* The consumer's state stays well typed when only the result logs grow.
LEMMA ConsumerTypeStable ==
  ASSUME TypeOK, \A kind \in Kinds : Extends(streams[kind].log, streams'[kind].log),
         UNCHANGED consumerVars
  PROVE  ConsumerTypeOK'
<1>1. ASSUME NEW m \in inbox PROVE m[2] \in 1..Len(streams'[m[1]].log)
  BY DEF TypeOK, ConsumerTypeOK, Extends
<1> QED BY <1>1 DEF TypeOK, ConsumerTypeOK, consumerVars

\* A log extends itself, and XADD extends it.
LEMMA ExtendsSame ==
  ASSUME NEW E, NEW s \in Streams(E)
  PROVE  Extends(s.log, s.log)
BY DEF Extends, Streams

\* XADD (publish_rss_scrape_job, _publish_payload) only appends to the stream.
LEMMA ExtendsXAdd ==
  ASSUME NEW E, NEW s \in Streams(E), WellFormed(s), NEW e \in E, NEW n \in Nat
  PROVE  Extends(s.log, XAdd(s, e, n).log)
<1>1. Len(s.log) \in Nat BY DEF Streams
<1> QED BY <1>1, XAddFacts DEF Extends

-------------------------------------------------------------------------------
\* The initial state is well typed.
LEMMA TypeInit == Init => TypeOK
<1> SUFFICES ASSUME Init PROVE TypeOK OBVIOUS
<1> USE DEF Init, SharedInit, EnqueueInit, WorkerInit, ConsumerInit
<1>1. TablesTypeOK
  <2>1. jobs \in [Jobs -> JobRows] BY DEF JobRows, JobFeedRows, NoJob, JobStatuses
  <2>2. scraping \in [Feeds -> ScrapingRows]
    <3>1. PICK protection \in [Feeds -> CatalogProtections] :
            scraping = [f \in Feeds |-> NewScraping(protection[f])]
      OBVIOUS
    <3>2. \A f \in Feeds : protection[f] \in Protections
      BY CatalogAssumption DEF Protections
    <3>3. \A p \in Protections : NewScraping(p) \in ScrapingRows
      BY MaxVersionAssumption DEF NewScraping, ScrapingRows, NoVersion
    <3> QED BY <3>1, <3>2, <3>3
  <2> QED BY <2>1, <2>2 DEF TablesTypeOK, ResultStatuses
<1>2. RequestsTypeOK BY EmptyStreamFacts DEF RequestsTypeOK
<1>3. StreamsTypeOK BY EmptyStreamFacts DEF StreamsTypeOK
<1>4. EnqueueTypeOK
  <2>1. NoFeeds \in SnapshotSets /\ DOMAIN NoFeeds = {}
    <3>1. NoFeeds \in [{} -> Snapshots] BY DEF NoFeeds
    <3> QED BY <3>1 DEF SnapshotSets
  <2> HIDE DEF EnqueueInit
  <2>2. enqueue = [j \in Jobs |->
                     [pc |-> "idle", ingest |-> FALSE, feeds |-> NoFeeds, left |-> {}]]
    BY DEF EnqueueInit
  <2> QED BY <2>1, <2>2 DEF EnqueueTypeOK, EnqueuePCs
<1>5. WorkerTypeOK BY MaxVersionAssumption DEF WorkerTypeOK, Versions
<1>6. ConsumerTypeOK
  <2>1. ensuring \in 0..2 OBVIOUS
  <2>2. /\ consumer \in {"down", "boot", "up", "regroup"}
        /\ inbox = {}
        /\ acking = FALSE
    OBVIOUS
  <2> HIDE DEF Init, SharedInit, EnqueueInit, WorkerInit, ConsumerInit
  <2> QED BY <2>1, <2>2, Zenon DEF ConsumerTypeOK
<1> QED BY <1>1, <1>2, <1>3, <1>4, <1>5, <1>6 DEF TypeOK

\* The result streams stay as they are.
LEMMA StreamsKept ==
  ASSUME TypeOK, streams' = streams
  PROVE  StreamsTypeOK' /\ \A kind \in Kinds : Extends(streams[kind].log, streams'[kind].log)
BY ExtendsSame DEF TypeOK, StreamsTypeOK

\* A step that leaves the request stream alone keeps its type and its entries.
LEMMA RequestsKept ==
  ASSUME TypeOK, requests' = requests
  PROVE  RequestsTypeOK' /\ Extends(requests.log, requests'.log)
BY ExtendsSame DEF TypeOK, RequestsTypeOK

\* A step without a commit keeps the types of the tables.
LEMMA TablesKept ==
  ASSUME TypeOK, UNCHANGED dbVars
  PROVE  TablesTypeOK'
BY DEF TypeOK, TablesTypeOK, dbVars

\* A step outside the backend keeps the types of the enqueue requests.
LEMMA EnqueueKept ==
  ASSUME TypeOK, UNCHANGED enqueue
  PROVE  EnqueueTypeOK'
BY DEF TypeOK, EnqueueTypeOK

\* A batch cut from a request's feeds is a well-typed message.
LEMMA BatchFacts ==
  ASSUME TypeOK, NEW j \in Jobs, NEW b \in SUBSET Feeds, b \subseteq enqueue[j].left
  PROVE  Request(j, enqueue[j].ingest, [f \in b |-> enqueue[j].feeds[f]]) \in RequestEntries
<1>1. /\ enqueue[j].feeds \in SnapshotSets
      /\ enqueue[j].ingest \in BOOLEAN
      /\ b \in SUBSET DOMAIN enqueue[j].feeds
  BY DEF TypeOK, EnqueueTypeOK
<1>2. [f \in b |-> enqueue[j].feeds[f]] \in SnapshotSets
  BY <1>1, SnapshotSetFacts
<1> QED BY <1>1, <1>2 DEF Request, RequestEntries

\* The requests of the backend keep the types.
LEMMA EnqueueType ==
  ASSUME TypeOK, EnqueueNext, UNCHANGED <<workerVars, consumerVars>>
  PROVE  TypeOK'
<1>1. ASSUME NEW j \in Jobs, NEW ingest \in BOOLEAN, NEW fs \in SUBSET Feeds,
             EnqueueRead(j, ingest, fs)
      PROVE  TypeOK'
  <2>1. EnqueueTypeOK'
    <3>1. SnapshotOf(fs) \in SnapshotSets /\ DOMAIN SnapshotOf(fs) = fs
      BY SnapshotFacts DEF TypeOK
    <3> QED BY <1>1, <3>1 DEF TypeOK, EnqueueTypeOK, EnqueueRead, EnqueuePCs
  <2>2. /\ UNCHANGED dbVars /\ requests' = requests /\ streams' = streams
        /\ faults' = faults
    BY <1>1 DEF EnqueueRead, sharedVars, dbVars
  <2> QED
    BY <2>1, <2>2, TablesKept, RequestsKept, StreamsKept, WorkerTypeStable, ConsumerTypeStable DEF TypeOK
<1>2. ASSUME NEW j \in Jobs, EnqueueCreate(j) PROVE TypeOK'
  <2>1. EnqueueTypeOK'
    BY <1>2 DEF TypeOK, EnqueueTypeOK, EnqueueCreate, EnqueuePCs
  <2>2. TablesTypeOK'
    <3>1. enqueue[j].ingest \in BOOLEAN /\ enqueue[j].left \in SUBSET Feeds
      BY DEF TypeOK, EnqueueTypeOK
    <3>2. Cardinality(enqueue[j].left) \in Nat
      BY <3>1, FeedsAssumption, FS_Subset, FS_CardinalityType
    <3>3. jobs' \in [Jobs -> JobRows]
      BY <1>2, <3>1, <3>2 DEF TypeOK, TablesTypeOK, EnqueueCreate, CreateJob, JobRows, JobFeedRows, JobStatuses
    <3> QED BY <1>2, <3>3 DEF TypeOK, TablesTypeOK, EnqueueCreate
  <2>3. requests' = requests /\ streams' = streams /\ faults' = faults
    BY <1>2 DEF EnqueueCreate
  <2> QED
    BY <2>1, <2>2, <2>3, RequestsKept, StreamsKept, WorkerTypeStable, ConsumerTypeStable DEF TypeOK
<1>3. ASSUME NEW j \in Jobs, EnqueueReject(j) PROVE TypeOK'
  <2>1. EnqueueTypeOK'
    BY <1>3 DEF TypeOK, EnqueueTypeOK, EnqueueReject, EnqueuePCs
  <2>2. UNCHANGED dbVars /\ requests' = requests /\ streams' = streams
    BY <1>3 DEF EnqueueReject, dbVars
  <2>3. faults' \in Nat
    BY <1>3, SpendFacts DEF EnqueueReject, TypeOK
  <2> QED
    BY <2>1, <2>2, <2>3, TablesKept, RequestsKept, StreamsKept, WorkerTypeStable,
       ConsumerTypeStable DEF TypeOK
<1>4. ASSUME NEW j \in Jobs, NEW b \in SUBSET Feeds, NEW o \in CommandOutcomes(PublishAttempts),
             EnqueuePublish(j, b, o)
      PROVE  TypeOK'
  <2> DEFINE e == Request(j, enqueue[j].ingest, [f \in b |-> enqueue[j].feeds[f]])
             n == Executions(o, PublishAttempts)
  <2>1. b \subseteq enqueue[j].left
    BY <1>4 DEF EnqueuePublish, NextBatches
  <2>2. e \in RequestEntries BY <2>1, BatchFacts
  <2>3. n \in Nat /\ o.failed \in Nat
    BY OutcomeFacts DEF PublishAttempts
  <2>4. requests' = XAdd(requests, e, n) /\ UNCHANGED dbVars /\ streams' = streams
    BY <1>4 DEF EnqueuePublish, dbVars
  <2> HIDE DEF e, n
  <2>5. RequestsTypeOK' /\ Extends(requests.log, requests'.log)
    <3>1. e \in RequestEntries \cup ForeignEntries BY <2>2
    <3> QED BY <2>3, <2>4, <3>1, XAddFacts, ExtendsXAdd DEF TypeOK, RequestsTypeOK
  <2>6. EnqueueTypeOK'
    BY <1>4 DEF TypeOK, EnqueueTypeOK, EnqueuePublish, EnqueuePCs
  <2>7. faults' \in Nat
    BY <1>4, <2>3, SpendFacts DEF EnqueuePublish, TypeOK
  <2> QED
    BY <2>4, <2>5, <2>6, <2>7, TablesKept, StreamsKept, WorkerTypeStable, ConsumerTypeStable DEF TypeOK
<1>5. ASSUME NEW j \in Jobs, EnqueueMarkFailed(j) PROVE TypeOK'
  <2>1. EnqueueTypeOK'
    BY <1>5 DEF TypeOK, EnqueueTypeOK, EnqueueMarkFailed, EnqueuePCs
  <2>2. TablesTypeOK'
    <3>1. jobs' \in [Jobs -> JobRows]
      BY <1>5 DEF TypeOK, TablesTypeOK, EnqueueMarkFailed, SetStatus, JobRows, JobFeedRows, JobStatuses
    <3> QED BY <1>5, <3>1 DEF TypeOK, TablesTypeOK, EnqueueMarkFailed
  <2>3. requests' = requests /\ streams' = streams
    BY <1>5 DEF EnqueueMarkFailed
  <2>4. faults' \in Nat
    BY <1>5, SpendFacts DEF EnqueueMarkFailed, TypeOK
  <2> QED
    BY <2>1, <2>2, <2>3, <2>4, RequestsKept, StreamsKept, WorkerTypeStable, ConsumerTypeStable DEF TypeOK
<1>6. ASSUME BackendCrash PROVE TypeOK'
  <2>1. EnqueueTypeOK'
    BY <1>6 DEF TypeOK, EnqueueTypeOK, BackendCrash, EnqueuePCs
  <2>2. UNCHANGED dbVars /\ requests' = requests /\ streams' = streams
    BY <1>6 DEF BackendCrash, dbVars
  <2>3. faults' \in Nat
    BY <1>6, SpendFacts DEF BackendCrash, TypeOK
  <2> QED
    BY <2>1, <2>2, <2>3, TablesKept, RequestsKept, StreamsKept, WorkerTypeStable,
       ConsumerTypeStable DEF TypeOK
<1> QED BY <1>1, <1>2, <1>3, <1>4, <1>5, <1>6 DEF EnqueueNext, EnqueueStep

-------------------------------------------------------------------------------
\* The entries of the logs are told apart by their form.
LEMMA RequestEntryFacts ==
  ASSUME TypeOK, NEW i \in 1..Len(requests.log), requests.log[i].form = "request"
  PROVE  requests.log[i] \in RequestEntries
<1>1. requests.log \in Seq(RequestEntries \cup ForeignEntries)
  BY DEF TypeOK, RequestsTypeOK, Streams
<1>2. requests.log[i] \in RequestEntries \cup ForeignEntries
  BY <1>1
<1>3. \A e \in ForeignEntries : e.form # "request"
  BY DEF ForeignEntries
<1> QED BY <1>2, <1>3

\* An entry of a result stream that passes the schema is a result.
LEMMA ResultEntryFacts ==
  ASSUME TypeOK, NEW kind \in Kinds, NEW i \in 1..Len(streams[kind].log),
         streams[kind].log[i].form = "result"
  PROVE  streams[kind].log[i] \in ResultEntries
<1>1. streams[kind].log \in Seq(ResultEntries \cup ForeignEntries)
  BY DEF TypeOK, StreamsTypeOK, Streams
<1>2. streams[kind].log[i] \in ResultEntries \cup ForeignEntries
  BY <1>1
<1>3. \A e \in ForeignEntries : e.form # "result"
  BY DEF ForeignEntries
<1> QED BY <1>2, <1>3

\* The feeds of a message are feeds, none unless it is a request.
LEMMA FeedsInFacts ==
  ASSUME TypeOK, NEW i \in 1..Len(requests.log)
  PROVE  FeedsIn(i) \subseteq Feeds
<1>1. CASE requests.log[i].form = "request"
  <2>1. requests.log[i].feeds \in SnapshotSets
    BY <1>1, RequestEntryFacts DEF RequestEntries
  <2> QED BY <1>1, <2>1, SnapshotSetFacts DEF FeedsIn
<1>2. CASE requests.log[i].form # "request"
  BY <1>2 DEF FeedsIn
<1> QED BY <1>1, <1>2

\* What a fetch returns is a result for the feed and the job it was asked for.
LEMMA FetchFacts ==
  ASSUME TypeOK, NEW request \in RequestEntries, NEW f \in DOMAIN request.feeds,
         NEW reply, NEW r \in FetchResults(request, f, reply)
  PROVE  /\ r \in ResultEntries
         /\ r.job = request.job /\ r.feed = f /\ r.ingest = request.ingest
<1>1. request.feeds \in SnapshotSets /\ request.job \in Jobs /\ request.ingest \in BOOLEAN
  BY DEF RequestEntries
<1>2. f \in Feeds /\ request.feeds[f].fetchprotection \in Protections
  BY <1>1, SnapshotSetFacts DEF Snapshots
<1>3. ASSUME NEW status \in ResultStatuses \ {"none"},
             NEW version \in 0..MaxVersion, NEW content \in 0..MaxVersion
      PROVE  LET t == Result(request, f, status, version, content)
             IN  /\ t \in ResultEntries
                 /\ t.job = request.job /\ t.feed = f /\ t.ingest = request.ingest
  BY <1>1, <1>2 DEF Result, ResultEntries
<1>4. site[f] \in 0..MaxVersion /\ NoVersion \in 0..MaxVersion
  BY <1>2, MaxVersionAssumption DEF TypeOK, WorkerTypeOK, Versions, NoVersion
<1>5. PICK status \in ResultStatuses \ {"none"},
           version \in 0..MaxVersion, content \in 0..MaxVersion :
             r = Result(request, f, status, version, content)
  BY <1>4, Zenon DEF FetchResults, ResultStatuses
<1> QED BY <1>3, <1>5

\* An abandoned message leaves batch within open.
LEMMA AbandonFacts ==
  ASSUME TypeOK, NEW i, Abandon(i)
  PROVE  batch' \subseteq open' /\ open' \subseteq open
BY DEF TypeOK, WorkerTypeOK, Abandon

\* The worker keeps the types.
LEMMA WorkerType ==
  ASSUME TypeOK, WorkerNext, UNCHANGED <<enqueue, consumerVars>>
  PROVE  TypeOK'
<1> USE DEF MaxAttempts
<1>1. ASSUME NEW o \in CommandOutcomes(MaxAttempts), WorkerStart(o) \/ WorkerRegroup(o)
      PROVE  TypeOK'
  <2>1. /\ requests' = requests \/ requests' = XGroupCreate(requests)
        /\ worker' \in {"up", "down"}
        /\ UNCHANGED dbVars
        /\ streams' = streams
        /\ UNCHANGED <<batch, open, todo, fetched, site>>
        /\ Spend("redis_command", o.failed)
    BY <1>1 DEF WorkerStart, WorkerRegroup, TypeOK, WorkerTypeOK, workerVars, dbVars
  <2>2. RequestsTypeOK' /\ requests'.log = requests.log
    BY <2>1, XGroupCreateFacts DEF TypeOK, RequestsTypeOK, SameLog
  <2>3. faults' \in Nat BY <2>1, OutcomeFacts, SpendFacts DEF TypeOK
  <2>4. WorkerTypeOK' BY <2>1, <2>2 DEF TypeOK, WorkerTypeOK, FeedsIn
  <2> QED
    BY <2>1, <2>2, <2>3, <2>4, TablesKept, StreamsKept, EnqueueKept, ConsumerTypeStable DEF TypeOK
<1>2. ASSUME NEW o \in CommandOutcomes(MaxAttempts), WorkerRead(o)
      PROVE  TypeOK'
  <2> DEFINE behind == XReadGroup(requests, o.lost * WorkerReadCount)
             ids == IF Succeeded(o, MaxAttempts) THEN Undelivered(behind, WorkerReadCount) ELSE {}
             messages == {i \in ids : requests.log[i].form # "missing"}
             seen == XReadGroup(behind, WorkerReadCount)
  <2>1. /\ requests' = seen \/ requests' = behind
        /\ UNCHANGED dbVars /\ streams' = streams
        /\ UNCHANGED <<worker, fetched, site>>
        /\ Spend("redis_command", o.failed)
    BY <1>2 DEF WorkerRead, dbVars
  <2>2. \/ UNCHANGED <<batch, open, todo>>
        \/ /\ batch' = messages
           /\ open' = open \cup messages
           /\ todo' = todo \cup {task \in messages \X Feeds : task[2] \in FeedsIn(task[1])}
    BY <1>2 DEF WorkerRead
  <2>3. /\ behind \in Streams(RequestEntries \cup ForeignEntries)
        /\ WellFormed(behind) /\ behind.log = requests.log
    <3>1. o.lost * WorkerReadCount \in Nat BY OutcomeFacts, WorkerReadCountAssumption
    <3> HIDE DEF MaxAttempts
    <3> QED BY <3>1, XReadGroupFacts DEF TypeOK, RequestsTypeOK, SameLog
  <2>4. messages \subseteq 1..Len(requests.log)
    BY <2>3, UndeliveredFacts
  <2> HIDE DEF behind, messages, ids
  <2>5. /\ seen \in Streams(RequestEntries \cup ForeignEntries)
        /\ WellFormed(seen) /\ seen.log = requests.log
    BY <2>3, XReadGroupFacts, WorkerReadCountAssumption DEF SameLog
  <2> HIDE DEF seen
  <2>6. RequestsTypeOK' /\ requests'.log = requests.log
    BY <2>1, <2>3, <2>5 DEF RequestsTypeOK
  <2>7. WorkerTypeOK'
    <3>1. CASE UNCHANGED <<batch, open, todo>>
      BY <2>1, <2>6, <3>1 DEF TypeOK, WorkerTypeOK, FeedsIn
    <3>2. CASE /\ batch' = messages
               /\ open' = open \cup messages
               /\ todo' = todo \cup {task \in messages \X Feeds : task[2] \in FeedsIn(task[1])}
      <4>1. \A task \in todo' : task \in (1..Len(requests.log)) \X Feeds /\ task[2] \in FeedsIn(task[1])
        BY <2>4, <3>2 DEF TypeOK, WorkerTypeOK
      <4>2. \A i : FeedsIn(i)' = FeedsIn(i)
        BY <2>6 DEF FeedsIn
      <4>3. batch' \subseteq open' /\ open' \subseteq 1..Len(requests.log)
        BY <2>4, <3>2 DEF TypeOK, WorkerTypeOK
      <4> QED BY <2>1, <2>6, <4>1, <4>2, <4>3 DEF TypeOK, WorkerTypeOK
    <3> QED BY <2>2, <3>1, <3>2
  <2>8. faults' \in Nat BY <2>1, OutcomeFacts, SpendFacts DEF TypeOK
  <2> QED
    BY <2>1, <2>6, <2>7, <2>8, TablesKept, StreamsKept, EnqueueKept, ConsumerTypeStable DEF TypeOK
<1>3. ASSUME NEW task \in todo, NEW reply \in Replies, WorkerFetch(task[1], task[2], reply)
      PROVE  TypeOK'
  <2> DEFINE i == task[1]
             f == task[2]
  <2>1. i \in 1..Len(requests.log) /\ f \in FeedsIn(i) /\ task = <<i, f>>
    BY DEF TypeOK, WorkerTypeOK
  <2>2. requests.log[i].form = "request" /\ f \in DOMAIN requests.log[i].feeds
    BY <2>1 DEF FeedsIn
  <2>3. PICK r \in FetchResults(requests.log[i], f, reply) : fetched' = fetched \cup {<<i, r>>}
    BY <1>3 DEF WorkerFetch
  <2>4. r \in ResultEntries
    BY <2>1, <2>2, RequestEntryFacts, FetchFacts
  <2>5. /\ todo' \subseteq todo
        /\ UNCHANGED sharedVars
        /\ UNCHANGED <<worker, batch, open, site>>
    BY <1>3 DEF WorkerFetch
  <2>6. UNCHANGED dbVars /\ requests' = requests /\ streams' = streams /\ faults' = faults
    BY <2>5 DEF sharedVars, dbVars
  <2>7. WorkerTypeOK'
    <3>1. \A t \in fetched' : t \in (1..Len(requests'.log)) \X ResultEntries
      BY <2>1, <2>3, <2>4, <2>6 DEF TypeOK, WorkerTypeOK
    <3>2. \A t \in todo' :
            /\ t \in (1..Len(requests'.log)) \X Feeds
            /\ t[2] \in FeedsIn(t[1])'
      BY <2>5, <2>6 DEF TypeOK, WorkerTypeOK, FeedsIn
    <3> QED BY <2>5, <2>6, <3>1, <3>2 DEF TypeOK, WorkerTypeOK
  <2> QED
    BY <2>6, <2>7, TablesKept, RequestsKept, StreamsKept, EnqueueKept, ConsumerTypeStable DEF TypeOK
<1>4. ASSUME NEW o \in CommandOutcomes(MaxAttempts), NEW task \in fetched,
             WorkerPublish(task[1], task[2], o)
      PROVE  TypeOK'
  <2> DEFINE i == task[1]
             r == task[2]
             n == Executions(o, MaxAttempts)
             k == StreamOf(r)
  <2>1. r \in ResultEntries BY DEF TypeOK, WorkerTypeOK
  <2>2. k \in Kinds BY DEF StreamOf, Kinds
  <2>3. n \in Nat /\ o.failed \in Nat BY OutcomeFacts
  <2>4. /\ streams' = [streams EXCEPT ![k] = XAdd(@, r, n)]
        /\ Spend("redis_command", o.failed)
        /\ fetched' \subseteq fetched
        /\ UNCHANGED <<open, batch>> \/ Abandon(i)
        /\ UNCHANGED dbVars /\ requests' = requests
        /\ UNCHANGED <<worker, todo, site>>
    BY <1>4 DEF WorkerPublish, dbVars
  <2> HIDE DEF i, r, n, k
  <2>5. XAdd(streams[k], r, n) \in Streams(ResultEntries \cup ForeignEntries)
        /\ WellFormed(XAdd(streams[k], r, n))
        /\ Extends(streams[k].log, XAdd(streams[k], r, n).log)
    <3>1. r \in ResultEntries \cup ForeignEntries BY <2>1
    <3>2. streams[k] \in Streams(ResultEntries \cup ForeignEntries) /\ WellFormed(streams[k])
      BY <2>2 DEF TypeOK, StreamsTypeOK
    <3> QED BY <2>3, <3>1, <3>2, XAddFacts, ExtendsXAdd
  <2>6. StreamsTypeOK'
    BY <2>2, <2>4, <2>5 DEF TypeOK, StreamsTypeOK
  <2>7. \A kind \in Kinds : Extends(streams[kind].log, streams'[kind].log)
    BY <2>2, <2>4, <2>5, ExtendsSame DEF TypeOK, StreamsTypeOK
  <2>8. batch' \subseteq open' /\ open' \subseteq open
    BY <2>4, AbandonFacts DEF TypeOK, WorkerTypeOK
  <2>9. WorkerTypeOK'
    BY <2>4, <2>8 DEF TypeOK, WorkerTypeOK, FeedsIn
  <2>10. faults' \in Nat BY <2>3, <2>4, SpendFacts DEF TypeOK
  <2> QED
    BY <2>4, <2>6, <2>7, <2>9, <2>10, TablesKept, RequestsKept, EnqueueKept, ConsumerTypeStable DEF TypeOK
<1>5. ASSUME NEW o \in CommandOutcomes(MaxAttempts), NEW i \in open, WorkerAck(i, o)
      PROVE  TypeOK'
  <2>1. /\ requests' = requests \/ requests' = XAck(requests, i)
        /\ (open' = open \ {i} /\ batch' = batch \ {i}) \/ Abandon(i)
        /\ UNCHANGED dbVars /\ streams' = streams
        /\ UNCHANGED <<worker, todo, fetched, site>>
        /\ Spend("redis_command", o.failed)
    BY <1>5 DEF WorkerAck, dbVars
  <2>2. RequestsTypeOK' /\ requests'.log = requests.log
    BY <2>1, XAckFacts DEF TypeOK, RequestsTypeOK, SameLog
  <2>3. batch' \subseteq open' /\ open' \subseteq open
    BY <2>1, AbandonFacts DEF TypeOK, WorkerTypeOK
  <2>4. WorkerTypeOK'
    BY <2>1, <2>2, <2>3 DEF TypeOK, WorkerTypeOK, FeedsIn
  <2>5. faults' \in Nat BY <2>1, OutcomeFacts, SpendFacts DEF TypeOK
  <2> QED
    BY <2>1, <2>2, <2>4, <2>5, TablesKept, StreamsKept, EnqueueKept, ConsumerTypeStable DEF TypeOK
<1>6. ASSUME WorkerCrash PROVE TypeOK'
  <2>1. UNCHANGED dbVars /\ requests' = requests /\ streams' = streams
    BY <1>6 DEF WorkerCrash, dbVars
  <2>2. WorkerTypeOK' BY <1>6 DEF WorkerCrash, TypeOK, WorkerTypeOK
  <2>3. faults' \in Nat BY <1>6, SpendFacts DEF WorkerCrash, TypeOK
  <2> QED
    BY <2>1, <2>2, <2>3, TablesKept, RequestsKept, StreamsKept, EnqueueKept, ConsumerTypeStable DEF TypeOK
<1>7. ASSUME NEW f \in Feeds, SiteUpdate(f) PROVE TypeOK'
  <2>1. UNCHANGED dbVars /\ requests' = requests /\ streams' = streams /\ faults' = faults
    BY <1>7 DEF SiteUpdate, sharedVars, dbVars
  <2>2. site' \in [Feeds -> Versions]
    BY <1>7, MaxVersionAssumption DEF SiteUpdate, TypeOK, WorkerTypeOK, Versions
  <2>3. WorkerTypeOK'
    BY <1>7, <2>1, <2>2 DEF SiteUpdate, TypeOK, WorkerTypeOK, FeedsIn
  <2> QED
    BY <2>1, <2>3, TablesKept, RequestsKept, StreamsKept, EnqueueKept, ConsumerTypeStable DEF TypeOK
<1> QED
  BY <1>1, <1>2, <1>3, <1>4, <1>5, <1>6, <1>7
     DEF WorkerNext, WorkerStep, WorkerLoop, WorkerFetches, WorkerPublishes, WorkerAcks

-------------------------------------------------------------------------------
\* An operation that keeps the log of one result stream keeps the types of all.
LEMMA OneStreamFacts ==
  ASSUME TypeOK, NEW kind \in Kinds, NEW t,
         SameLog(streams[kind], t, ResultEntries \cup ForeignEntries),
         streams' = [streams EXCEPT ![kind] = t]
  PROVE  StreamsTypeOK' /\ \A k \in Kinds : streams'[k].log = streams[k].log
BY DEF TypeOK, StreamsTypeOK, SameLog

\* What the consumer has in hand exists.
LEMMA InboxFacts ==
  ASSUME TypeOK, NEW m \in inbox
  PROVE  /\ m[1] \in Kinds /\ m[2] \in 1..Len(streams[m[1]].log)
         /\ Entry(m).form = "result" => Entry(m) \in ResultEntries
<1>1. m[1] \in Kinds /\ m[2] \in 1..Len(streams[m[1]].log)
  BY DEF TypeOK, ConsumerTypeOK
<1> QED BY <1>1, ResultEntryFacts DEF Entry

\* The number of a job's results is a number.
LEMMA CountFacts ==
  ASSUME NEW j \in Jobs
  PROVE  /\ IsFiniteSet(ResultsOf(j)) /\ IsFiniteSet(ErrorsOf(j))
         /\ Cardinality(ResultsOf(j)) \in Nat /\ Cardinality(ErrorsOf(j)) \in Nat
<1>1. ResultsOf(j) \subseteq Feeds /\ ErrorsOf(j) \subseteq Feeds
  BY DEF ResultsOf, ErrorsOf
<1> QED BY <1>1, FeedsAssumption, FS_Subset, FS_CardinalityType

\* refresh_rss_scrape_job_status never computes "failed" and never unmakes a job.
LEMMA RefreshedStatusFacts ==
  ASSUME NEW c, NEW p, NEW e
  PROVE  RefreshedStatus(c, p, e) \in {"queued", "processing", "completed", "completed_with_errors"}
BY DEF RefreshedStatus

\* db_manager keeps the types.
LEMMA ConsumerType ==
  ASSUME TypeOK, ConsumerNext, UNCHANGED <<enqueue, workerVars>>
  PROVE  TypeOK'
<1>1. ASSUME ConsumerStart \/ ConsumerNoGroup PROVE TypeOK'
  <2>1. /\ consumer' \in {"boot", "regroup"} /\ ensuring' = 0
        /\ inbox' = inbox /\ acking' = acking /\ UNCHANGED sharedVars
    BY <1>1 DEF ConsumerStart, ConsumerNoGroup
  <2>2. UNCHANGED dbVars /\ requests' = requests /\ streams' = streams /\ faults' = faults
    BY <2>1 DEF sharedVars, dbVars
  <2>3. ConsumerTypeOK' BY <2>1, <2>2 DEF TypeOK, ConsumerTypeOK
  <2> QED
    BY <2>2, <2>3, TablesKept, RequestsKept, StreamsKept, EnqueueKept, WorkerTypeStable DEF TypeOK
<1>2. ASSUME NEW o \in CommandOutcomes(MaxAttempts), ConsumerEnsureGroup(o) PROVE TypeOK'
  <2> DEFINE k == KindOrder[ensuring + 1]
  <2>1. k \in Kinds
    BY DEF TypeOK, ConsumerTypeOK, KindOrder, Kinds
  <2>2. /\ streams' = streams \/ streams' = [streams EXCEPT ![k] = XGroupCreate(streams[k])]
        /\ UNCHANGED dbVars /\ requests' = requests
        /\ inbox' = inbox /\ acking' = acking
        /\ Spend("redis_command", o.failed)
    BY <1>2 DEF ConsumerEnsureGroup, dbVars
  <2>3. ensuring' \in 0..2
    BY <1>2 DEF ConsumerEnsureGroup, TypeOK, ConsumerTypeOK
  <2>4. consumer' \in {"down", "boot", "up", "regroup"}
    BY <1>2 DEF ConsumerEnsureGroup, TypeOK, ConsumerTypeOK
  <2> HIDE DEF k
  <2>5. StreamsTypeOK' /\ \A kind \in Kinds : streams'[kind].log = streams[kind].log
    <3>1. CASE streams' = streams BY <3>1, StreamsKept
    <3>2. CASE streams' = [streams EXCEPT ![k] = XGroupCreate(streams[k])]
      <4>1. SameLog(streams[k], XGroupCreate(streams[k]), ResultEntries \cup ForeignEntries)
        BY <2>1, XGroupCreateFacts DEF TypeOK, StreamsTypeOK
      <4> QED BY <2>1, <3>2, <4>1, OneStreamFacts
    <3> QED BY <2>2, <3>1, <3>2
  <2>6. ConsumerTypeOK' BY <2>2, <2>3, <2>4, <2>5 DEF TypeOK, ConsumerTypeOK
  <2>7. faults' \in Nat BY <2>2, OutcomeFacts, SpendFacts DEF TypeOK, MaxAttempts
  <2> QED
    BY <2>2, <2>5, <2>6, <2>7, TablesKept, RequestsKept, EnqueueKept, WorkerTypeStable DEF TypeOK
<1>3. ASSUME NEW o \in CommandOutcomes(MaxAttempts), ConsumerRead(o) PROVE TypeOK'
  <2> DEFINE behind == [kind \in Kinds |->
                          XReadGroup(streams[kind], o.lost * ConsumerReadCount)]
             seen == [kind \in Kinds |-> XReadGroup(behind[kind], ConsumerReadCount)]
             ids(kind) == IF Succeeded(o, MaxAttempts)
                            THEN Undelivered(behind[kind], ConsumerReadCount) ELSE {}
             form(kind, i) == streams[kind].log[i].form
             E == ResultEntries \cup ForeignEntries
  <2>1. /\ streams' = seen \/ streams' = behind
        /\ UNCHANGED dbVars /\ requests' = requests
        /\ consumer' = consumer /\ ensuring' = ensuring /\ acking' = acking
        /\ inbox = {}
        /\ Spend("redis_command", o.failed)
    BY <1>3 DEF ConsumerRead, dbVars
  <2>2. inbox' = {} \/ inbox' = UNION {{<<kind, i>> : i \in {n \in ids(kind) : form(kind, n) # "missing"}}
                                        : kind \in Kinds}
    BY <1>3 DEF ConsumerRead
  <2>3. o.lost * ConsumerReadCount \in Nat /\ o.failed \in Nat
    BY OutcomeFacts, ConsumerReadCountAssumption DEF MaxAttempts
  <2>4. \A kind \in Kinds : SameLog(streams[kind], behind[kind], E)
    BY <2>3, XReadGroupFacts DEF TypeOK, StreamsTypeOK
  <2>5. \A kind \in Kinds : ids(kind) \subseteq 1..Len(streams[kind].log)
    BY <2>4, UndeliveredFacts DEF SameLog
  <2> HIDE DEF behind, ids, form
  <2>6. \A kind \in Kinds : SameLog(streams[kind], seen[kind], E)
    BY <2>4, XReadGroupFacts, ConsumerReadCountAssumption DEF SameLog
  <2>7. DOMAIN seen = Kinds /\ DOMAIN behind = Kinds
        /\ seen = [kind \in Kinds |-> seen[kind]] /\ behind = [kind \in Kinds |-> behind[kind]]
    BY DEF behind
  <2> HIDE DEF seen
  <2>8. StreamsTypeOK' /\ \A kind \in Kinds : streams'[kind].log = streams[kind].log
    BY <2>1, <2>4, <2>6, <2>7 DEF StreamsTypeOK, SameLog
  <2>9. ConsumerTypeOK'
    <3>1. \A m \in inbox' : /\ m[1] \in Kinds /\ m = <<m[1], m[2]>>
                            /\ m[2] \in 1..Len(streams'[m[1]].log)
      BY <2>2, <2>5, <2>8
    <3>2. acking' = FALSE BY <2>1 DEF TypeOK, ConsumerTypeOK
    <3> QED BY <2>1, <3>1, <3>2 DEF TypeOK, ConsumerTypeOK
  <2>10. faults' \in Nat BY <2>1, <2>3, SpendFacts DEF TypeOK
  <2> QED
    BY <2>1, <2>8, <2>9, <2>10, TablesKept, RequestsKept, EnqueueKept, WorkerTypeStable DEF TypeOK
<1>4. ASSUME NEW m \in inbox, ConsumerInvalid(m) \/ ConsumerDuplicate(m) PROVE TypeOK'
  <2>1. /\ UNCHANGED sharedVars /\ acking' = TRUE
        /\ consumer' = consumer /\ ensuring' = ensuring /\ inbox' = inbox
    BY <1>4 DEF ConsumerInvalid, ConsumerDuplicate
  <2>2. UNCHANGED dbVars /\ requests' = requests /\ streams' = streams /\ faults' = faults
    BY <2>1 DEF sharedVars, dbVars
  <2>3. ConsumerTypeOK' BY <2>1, <2>2 DEF TypeOK, ConsumerTypeOK
  <2> QED
    BY <2>2, <2>3, TablesKept, RequestsKept, StreamsKept, EnqueueKept, WorkerTypeStable DEF TypeOK
<1>5. ASSUME NEW m \in inbox, ConsumerPersist(m) PROVE TypeOK'
  <2> DEFINE r == Entry(m)
             j == r.job
             f == r.feed
  <2>1. r \in ResultEntries
    BY <1>5, InboxFacts DEF ConsumerPersist
  <2>2. /\ j \in Jobs /\ f \in Feeds /\ r.status \in ResultStatuses
        /\ r.fetchprotection \in Protections /\ r.version \in 0..MaxVersion
        /\ r.content \in 0..MaxVersion
    BY <2>1 DEF ResultEntries
  <2>3. PICK status \in JobStatuses : jobs' = [jobs EXCEPT ![j].status = status]
    <3> DEFINE s == RefreshedStatus(jobs[j].feed_count, Cardinality(ResultsOf(j) \cup {f}),
                                    Cardinality(IF r.status = "error"
                                                  THEN ErrorsOf(j) \cup {f} ELSE ErrorsOf(j)))
    <3>1. s \in JobStatuses BY RefreshedStatusFacts DEF JobStatuses
    <3>2. jobs' = [jobs EXCEPT ![j].status = s] BY <1>5 DEF ConsumerPersist
    <3> QED BY <3>1, <3>2
  <2>4. /\ results' = [results EXCEPT ![j][f] = r.status]
        /\ scraping' = [scraping EXCEPT ![f] = ScrapingAfter(scraping[f], r)]
        /\ sources' = SourcesAfter(m[1], r)
        /\ feeds' = feeds
    BY <1>5 DEF ConsumerPersist
  <2> HIDE DEF r
  <2>5. jobs' \in [Jobs -> JobRows]
    BY <2>3 DEF TypeOK, TablesTypeOK, JobRows, JobFeedRows
  <2>6. results' \in [Jobs -> [Feeds -> ResultStatuses]]
    BY <2>2, <2>4 DEF TypeOK, TablesTypeOK
  <2>7. scraping' \in [Feeds -> ScrapingRows]
    <3>1. scraping[f] \in ScrapingRows BY <2>2 DEF TypeOK, TablesTypeOK
    <3>2. ScrapingAfter(scraping[f], r) \in ScrapingRows
      BY <2>2, <3>1 DEF ScrapingAfter, ScrapingRows
    <3> QED BY <2>4, <3>2 DEF TypeOK, TablesTypeOK
  <2>8. sources' \subseteq Feeds \X (0..MaxVersion)
    BY <2>2, <2>4 DEF SourcesAfter, TypeOK, TablesTypeOK
  <2>9. TablesTypeOK' BY <2>4, <2>5, <2>6, <2>7, <2>8 DEF TypeOK, TablesTypeOK
  <2>10. /\ requests' = requests /\ streams' = streams /\ faults' = faults
         /\ consumer' = consumer /\ ensuring' = ensuring /\ inbox' = inbox /\ acking' = TRUE
    BY <1>5 DEF ConsumerPersist
  <2>11. ConsumerTypeOK' BY <2>10 DEF TypeOK, ConsumerTypeOK
  <2> QED
    BY <2>9, <2>10, <2>11, RequestsKept, StreamsKept, EnqueueKept, WorkerTypeStable DEF TypeOK
<1>6. ASSUME NEW m \in inbox, ConsumerRollback(m) PROVE TypeOK'
  <2>1. /\ UNCHANGED dbVars /\ requests' = requests /\ streams' = streams
        /\ consumer' = consumer /\ ensuring' = ensuring /\ acking' = acking
        /\ inbox' \subseteq inbox /\ ~ acking
        /\ faults' = faults \/ Spend("db_error", 1)
    BY <1>6 DEF ConsumerRollback, dbVars
  <2>2. ConsumerTypeOK' BY <2>1 DEF TypeOK, ConsumerTypeOK
  <2>3. faults' \in Nat BY <2>1, SpendFacts DEF TypeOK
  <2> QED
    BY <2>1, <2>2, <2>3, TablesKept, RequestsKept, StreamsKept, EnqueueKept, WorkerTypeStable DEF TypeOK
<1>7. ASSUME NEW o \in CommandOutcomes(MaxAttempts), NEW m \in inbox, ConsumerAck(m, o) PROVE TypeOK'
  <2>1. /\ streams' = streams \/ streams' = [streams EXCEPT ![m[1]] = XAck(streams[m[1]], m[2])]
        /\ inbox' \subseteq inbox /\ acking' = FALSE
        /\ UNCHANGED dbVars /\ requests' = requests
        /\ consumer' = consumer /\ ensuring' = ensuring
        /\ Spend("redis_command", o.failed)
    BY <1>7 DEF ConsumerAck, dbVars
  <2>2. StreamsTypeOK' /\ \A kind \in Kinds : streams'[kind].log = streams[kind].log
    <3>1. CASE streams' = streams BY <3>1, StreamsKept
    <3>2. CASE streams' = [streams EXCEPT ![m[1]] = XAck(streams[m[1]], m[2])]
      <4>1. m[1] \in Kinds BY InboxFacts
      <4>2. /\ streams[m[1]] \in Streams(ResultEntries \cup ForeignEntries)
            /\ WellFormed(streams[m[1]])
        BY <4>1 DEF TypeOK, StreamsTypeOK
      <4>3. SameLog(streams[m[1]], XAck(streams[m[1]], m[2]), ResultEntries \cup ForeignEntries)
        BY <4>2, XAckFacts
      <4> QED BY <3>2, <4>1, <4>3, OneStreamFacts
    <3> QED BY <2>1, <3>1, <3>2
  <2>3. ConsumerTypeOK' BY <2>1, <2>2 DEF TypeOK, ConsumerTypeOK
  <2>4. faults' \in Nat BY <2>1, OutcomeFacts, SpendFacts DEF TypeOK, MaxAttempts
  <2> QED
    BY <2>1, <2>2, <2>3, <2>4, TablesKept, RequestsKept, EnqueueKept, WorkerTypeStable DEF TypeOK
<1>8. ASSUME ConsumerCrash PROVE TypeOK'
  <2>1. UNCHANGED dbVars /\ requests' = requests /\ streams' = streams
    BY <1>8 DEF ConsumerCrash, dbVars
  <2>2. consumer' = "down" /\ ensuring' = 0 /\ inbox' = {} /\ acking' = FALSE
    BY <1>8 DEF ConsumerCrash
  <2>3. ConsumerTypeOK'
    <3>1. ensuring' \in 0..2 BY <2>2
    <3> QED BY <2>2, <3>1, Zenon DEF ConsumerTypeOK
  <2>4. faults' \in Nat BY <1>8, SpendFacts DEF ConsumerCrash, TypeOK
  <2> QED
    BY <2>1, <2>3, <2>4, TablesKept, RequestsKept, StreamsKept, EnqueueKept, WorkerTypeStable DEF TypeOK
<1> QED
  BY <1>1, <1>2, <1>3, <1>4, <1>5, <1>6, <1>7, <1>8
     DEF ConsumerNext, ConsumerStep, ConsumerHandles

-------------------------------------------------------------------------------
\* The catalog sync, the loss of Redis and foreign entries keep the types.
LEMMA EnvironmentType ==
  ASSUME TypeOK, Environment
  PROVE  TypeOK'
<1>1. ASSUME NEW f \in Feeds, SyncDeletesFeed(f) PROVE TypeOK'
  <2>1. TablesTypeOK'
    <3>1. NewScraping(1) \in ScrapingRows
      BY MaxVersionAssumption DEF NewScraping, ScrapingRows, NoVersion, Protections
    <3>2. jobs' \in [Jobs -> JobRows]
      <4>1. \A j \in Jobs : [jobs[j] EXCEPT !.feeds = @ \ {f}] \in JobRows
        BY DEF TypeOK, TablesTypeOK, JobRows, JobFeedRows
      <4> QED BY <1>1, <4>1 DEF SyncDeletesFeed, DeleteFeedRow
    <3>3. results' \in [Jobs -> [Feeds -> ResultStatuses]]
      BY <1>1 DEF SyncDeletesFeed, DeleteFeedRow, TypeOK, TablesTypeOK, ResultStatuses
    <3> QED BY <1>1, <3>1, <3>2, <3>3 DEF SyncDeletesFeed, DeleteFeedRow, TypeOK, TablesTypeOK
  <2>2. /\ requests' = requests /\ streams' = streams /\ enqueue' = enqueue
        /\ UNCHANGED workerVars /\ UNCHANGED consumerVars /\ Spend("feed_deleted", 1)
    BY <1>1 DEF SyncDeletesFeed, workerVars, consumerVars
  <2>3. faults' \in Nat BY <2>2, SpendFacts DEF TypeOK
  <2> QED
    BY <2>1, <2>2, <2>3, RequestsKept, StreamsKept, EnqueueKept, WorkerTypeStable,
       ConsumerTypeStable DEF TypeOK
<1>2. ASSUME NEW f \in Feeds, NEW p \in CatalogProtections, SyncUpsertsFeed(f, p) PROVE TypeOK'
  <2>1. TablesTypeOK'
    <3>1. p \in Protections BY CatalogAssumption DEF Protections
    <3>2. scraping' \in [Feeds -> ScrapingRows]
      BY <1>2, <3>1 DEF SyncUpsertsFeed, TypeOK, TablesTypeOK, ScrapingRows
    <3> QED BY <1>2, <3>2 DEF SyncUpsertsFeed, TypeOK, TablesTypeOK
  <2>2. /\ requests' = requests /\ streams' = streams /\ enqueue' = enqueue
        /\ UNCHANGED workerVars /\ UNCHANGED consumerVars /\ Spend("feed_upserted", 1)
    BY <1>2 DEF SyncUpsertsFeed, workerVars, consumerVars
  <2>3. faults' \in Nat BY <2>2, SpendFacts DEF TypeOK
  <2> QED
    BY <2>1, <2>2, <2>3, RequestsKept, StreamsKept, EnqueueKept, WorkerTypeStable,
       ConsumerTypeStable DEF TypeOK
<1>3. ASSUME RedisLost PROVE TypeOK'
  <2>1. /\ requests' = XLost(requests)
        /\ streams' = [kind \in Kinds |-> XLost(streams[kind])]
        /\ UNCHANGED dbVars /\ enqueue' = enqueue
        /\ UNCHANGED workerVars /\ UNCHANGED consumerVars /\ Spend("redis_lost", 1)
    BY <1>3 DEF RedisLost, dbVars, workerVars, consumerVars
  <2>2. RequestsTypeOK' /\ requests'.log = requests.log
    BY <2>1, XLostFacts DEF TypeOK, RequestsTypeOK, SameLog
  <2>3. Extends(requests.log, requests'.log)
    BY <2>2, ExtendsSame DEF TypeOK, RequestsTypeOK
  <2>4. \A kind \in Kinds :
          SameLog(streams[kind], XLost(streams[kind]), ResultEntries \cup ForeignEntries)
    BY XLostFacts DEF TypeOK, StreamsTypeOK
  <2>5. StreamsTypeOK' /\ \A kind \in Kinds : streams'[kind].log = streams[kind].log
    BY <2>1, <2>4 DEF StreamsTypeOK, SameLog
  <2>6. \A kind \in Kinds : Extends(streams[kind].log, streams'[kind].log)
    BY <2>5, ExtendsSame DEF TypeOK, StreamsTypeOK
  <2>7. faults' \in Nat BY <2>1, SpendFacts DEF TypeOK
  <2> QED
    BY <2>1, <2>2, <2>3, <2>5, <2>6, <2>7, TablesKept, EnqueueKept, WorkerTypeStable,
       ConsumerTypeStable DEF TypeOK
<1>4. ASSUME NEW e \in ForeignEntries, ForeignWrite(e) PROVE TypeOK'
  <2>1. /\ UNCHANGED dbVars /\ enqueue' = enqueue
        /\ UNCHANGED workerVars /\ UNCHANGED consumerVars /\ Spend("foreign_entry", 1)
    BY <1>4 DEF ForeignWrite, dbVars, workerVars, consumerVars
  <2>2. faults' \in Nat BY <2>1, SpendFacts DEF TypeOK
  <2> DEFINE ReqE == RequestEntries \cup ForeignEntries
             ResE == ResultEntries \cup ForeignEntries
  <2>3. e \in ReqE /\ e \in ResE OBVIOUS
  <2>4. requests \in Streams(ReqE) /\ WellFormed(requests)
    BY DEF TypeOK, RequestsTypeOK
  <2>5. \A k \in Kinds : streams[k] \in Streams(ResE) /\ WellFormed(streams[k])
    BY DEF TypeOK, StreamsTypeOK
  <2>6. streams \in [Kinds -> Streams(ResE)] BY DEF TypeOK, StreamsTypeOK
  <2>7. RequestsTypeOK' = (requests' \in Streams(ReqE) /\ WellFormed(requests'))
    BY DEF RequestsTypeOK
  <2>8. StreamsTypeOK' = (streams' \in [Kinds -> Streams(ResE)]
                          /\ \A kind \in Kinds : WellFormed(streams'[kind]))
    BY DEF StreamsTypeOK
  <2> HIDE DEF ReqE, ResE
  <2>9. RequestsTypeOK' /\ Extends(requests.log, requests'.log)
    <3>1. CASE requests' = requests BY <3>1, RequestsKept
    <3>2. CASE requests' = XAdd(requests, e, 1)
      <4>1. /\ XAdd(requests, e, 1) \in Streams(ReqE) /\ WellFormed(XAdd(requests, e, 1))
            /\ Extends(requests.log, XAdd(requests, e, 1).log)
        BY <2>3, <2>4, XAddFacts, ExtendsXAdd
      <4> QED BY <2>7, <3>2, <4>1
    <3> QED BY <1>4, <3>1, <3>2 DEF ForeignWrite
  <2>10. StreamsTypeOK' /\ \A kind \in Kinds : Extends(streams[kind].log, streams'[kind].log)
    <3>1. CASE streams' = streams BY <3>1, StreamsKept
    <3>2. ASSUME NEW k \in Kinds, streams' = [streams EXCEPT ![k] = XAdd(streams[k], e, 1)]
          PROVE  StreamsTypeOK' /\ \A kind \in Kinds : Extends(streams[kind].log, streams'[kind].log)
      <4>1. /\ XAdd(streams[k], e, 1) \in Streams(ResE)
            /\ WellFormed(XAdd(streams[k], e, 1))
            /\ Extends(streams[k].log, XAdd(streams[k], e, 1).log)
        BY <2>3, <2>5, XAddFacts, ExtendsXAdd
      <4>2. StreamsTypeOK' BY <2>5, <2>6, <2>8, <3>2, <4>1
      <4>3. \A kind \in Kinds : Extends(streams[kind].log, streams'[kind].log)
        BY <2>5, <2>6, <3>2, <4>1, ExtendsSame
      <4> QED BY <4>2, <4>3
    <3> QED BY <1>4, <3>1, <3>2 DEF ForeignWrite
  <2> QED
    BY <2>1, <2>2, <2>9, <2>10, TablesKept, EnqueueKept, WorkerTypeStable, ConsumerTypeStable DEF TypeOK
<1> QED BY <1>1, <1>2, <1>3, <1>4 DEF Environment

-------------------------------------------------------------------------------
\* Every step of the pipeline keeps the types.
LEMMA TypeStep ==
  ASSUME TypeOK, [Next]_vars
  PROVE  TypeOK'
<1>1. CASE UNCHANGED vars
  <2>1. /\ UNCHANGED dbVars /\ requests' = requests /\ streams' = streams /\ faults' = faults
        /\ enqueue' = enqueue /\ UNCHANGED workerVars /\ UNCHANGED consumerVars
    BY <1>1 DEF vars, sharedVars, dbVars, workerVars, consumerVars
  <2> QED
    BY <2>1, TablesKept, RequestsKept, StreamsKept, EnqueueKept, WorkerTypeStable,
       ConsumerTypeStable DEF TypeOK
<1>2. CASE Next
  <2>1. CASE EnqueueNext /\ UNCHANGED <<workerVars, consumerVars>> BY <2>1, EnqueueType
  <2>2. CASE WorkerNext /\ UNCHANGED <<enqueue, consumerVars>> BY <2>2, WorkerType
  <2>3. CASE ConsumerNext /\ UNCHANGED <<enqueue, workerVars>> BY <2>3, ConsumerType
  <2>4. CASE Environment BY <2>4, EnvironmentType
  <2> QED BY <1>2, <2>1, <2>2, <2>3, <2>4 DEF Next
<1> QED BY <1>1, <1>2

\* The tables, streams and processes of the pipeline keep their types in every
\* behaviour: for any number of jobs, feeds, failures and any batch sizes.
THEOREM TypeCorrect == Spec => []TypeOK
<1>1. Init => TypeOK BY TypeInit
<1>2. TypeOK /\ [Next]_vars => TypeOK' BY TypeStep
<1> QED BY <1>1, <1>2, PTL DEF Spec

-------------------------------------------------------------------------------
(* Single steps.                                                           *)

\* The steps, flattened: each service's actions with what the others keep.
LEMMA StepCases ==
  ASSUME [Next]_vars
  PROVE
    \/ UNCHANGED vars
    \/ /\ UNCHANGED <<workerVars, consumerVars>>
       /\ \/ \E j \in Jobs, ingest \in BOOLEAN, fs \in SUBSET Feeds : EnqueueRead(j, ingest, fs)
          \/ \E j \in Jobs : EnqueueCreate(j) \/ EnqueueReject(j) \/ EnqueueMarkFailed(j)
          \/ \E j \in Jobs, b \in SUBSET Feeds, o \in CommandOutcomes(PublishAttempts) :
               EnqueuePublish(j, b, o)
          \/ BackendCrash
    \/ /\ UNCHANGED <<enqueue, consumerVars>>
       /\ \/ \E o \in CommandOutcomes(MaxAttempts) :
               WorkerStart(o) \/ WorkerRead(o) \/ WorkerRegroup(o)
          \/ \E task \in todo, reply \in Replies : WorkerFetch(task[1], task[2], reply)
          \/ \E task \in fetched, o \in CommandOutcomes(MaxAttempts) :
               WorkerPublish(task[1], task[2], o)
          \/ \E i \in open, o \in CommandOutcomes(MaxAttempts) : WorkerAck(i, o)
          \/ WorkerCrash
          \/ \E f \in Feeds : SiteUpdate(f)
    \/ /\ UNCHANGED <<enqueue, workerVars>>
       /\ \/ ConsumerStart \/ ConsumerNoGroup \/ ConsumerCrash
          \/ \E m \in inbox : \/ ConsumerInvalid(m) \/ ConsumerDuplicate(m)
                              \/ ConsumerPersist(m) \/ ConsumerRollback(m)
          \/ \E o \in CommandOutcomes(MaxAttempts) : ConsumerEnsureGroup(o) \/ ConsumerRead(o)
          \/ \E m \in inbox, o \in CommandOutcomes(MaxAttempts) : ConsumerAck(m, o)
    \/ \E f \in Feeds : SyncDeletesFeed(f)
    \/ \E f \in Feeds, protection \in CatalogProtections : SyncUpsertsFeed(f, protection)
    \/ RedisLost
    \/ \E entry \in ForeignEntries : ForeignWrite(entry)
BY DEF Next, EnqueueNext, EnqueueStep, WorkerNext, WorkerStep, WorkerLoop, WorkerFetches,
       WorkerPublishes, WorkerAcks, ConsumerNext, ConsumerStep, ConsumerHandles, Environment

(* Who writes what.  Every step is one of the writers of a piece of state,  *)
(* or leaves it alone.                                                     *)

\* The rows of jobs: the commit of a job, the write of "failed", the
\* transaction of a result, the deletion of a feed.
TablesStep ==
  \/ UNCHANGED <<feeds, jobs, results>>
  \/ \E j \in Jobs : EnqueueCreate(j) \/ EnqueueMarkFailed(j)
  \/ enqueue' = enqueue /\ \E m \in inbox : ConsumerPersist(m)
  \/ enqueue' = enqueue /\ \E f \in Feeds : SyncDeletesFeed(f)

\* The backend's requests.
RequestStep ==
  \/ enqueue' = enqueue
  \/ \E j \in Jobs, ingest \in BOOLEAN, fs \in SUBSET Feeds : EnqueueRead(j, ingest, fs)
  \/ \E j \in Jobs : EnqueueCreate(j) \/ EnqueueReject(j) \/ EnqueueMarkFailed(j)
  \/ \E j \in Jobs, b \in SUBSET Feeds, o \in CommandOutcomes(PublishAttempts) :
       EnqueuePublish(j, b, o)
  \/ BackendCrash

\* The request stream.
RequestsStep ==
  \/ requests' = requests
  \/ \E j \in Jobs, b \in SUBSET Feeds, o \in CommandOutcomes(PublishAttempts) :
       EnqueuePublish(j, b, o)
  \/ \E o \in CommandOutcomes(MaxAttempts) : WorkerStart(o) \/ WorkerRead(o) \/ WorkerRegroup(o)
  \/ \E i \in open, o \in CommandOutcomes(MaxAttempts) : WorkerAck(i, o)
  \/ RedisLost
  \/ \E entry \in ForeignEntries : ForeignWrite(entry)

\* The result streams.
StreamsStep ==
  \/ streams' = streams
  \/ \E task \in fetched, o \in CommandOutcomes(MaxAttempts) : WorkerPublish(task[1], task[2], o)
  \/ \E o \in CommandOutcomes(MaxAttempts) : ConsumerEnsureGroup(o) \/ ConsumerRead(o)
  \/ \E m \in inbox, o \in CommandOutcomes(MaxAttempts) : ConsumerAck(m, o)
  \/ RedisLost
  \/ \E entry \in ForeignEntries : ForeignWrite(entry)

\* The worker's coroutines.
CoroutineStep ==
  \/ UNCHANGED <<open, todo, fetched>>
  \/ \E o \in CommandOutcomes(MaxAttempts) : WorkerRead(o)
  \/ \E task \in todo, reply \in Replies : WorkerFetch(task[1], task[2], reply)
  \/ \E task \in fetched, o \in CommandOutcomes(MaxAttempts) : WorkerPublish(task[1], task[2], o)
  \/ \E i \in open, o \in CommandOutcomes(MaxAttempts) : WorkerAck(i, o)
  \/ WorkerCrash

\* The consumer's messages.
InboxStep ==
  \/ UNCHANGED <<inbox, acking>>
  \/ \E m \in inbox : \/ ConsumerInvalid(m) \/ ConsumerDuplicate(m)
                      \/ ConsumerPersist(m) \/ ConsumerRollback(m)
  \/ \E o \in CommandOutcomes(MaxAttempts) : ConsumerRead(o)
  \/ \E m \in inbox, o \in CommandOutcomes(MaxAttempts) : ConsumerAck(m, o)
  \/ ConsumerCrash

\* The scraping state of the feeds.
ScrapingStep ==
  \/ scraping' = scraping
  \/ \E m \in inbox : ConsumerPersist(m)
  \/ \E f \in Feeds : SyncDeletesFeed(f)
  \/ \E f \in Feeds, protection \in CatalogProtections : SyncUpsertsFeed(f, protection)

\* The articles.
SourcesStep ==
  \/ sources' = sources
  \/ \E m \in inbox : ConsumerPersist(m)
  \/ \E f \in Feeds : SyncDeletesFeed(f)

Writers ==
  ScrapingStep /\ SourcesStep /\ TablesStep /\ RequestStep /\ RequestsStep /\ StreamsStep /\ CoroutineStep /\ InboxStep

\* Every step of the pipeline is by the writers of what it changes.
LEMMA StepWriters ==
  ASSUME [Next]_vars
  PROVE  Writers
<1> USE DEF sharedVars, dbVars, workerVars, consumerVars, Writers, TablesStep, RequestStep,
            RequestsStep, StreamsStep, CoroutineStep, InboxStep, ScrapingStep, SourcesStep
<1>1. CASE UNCHANGED vars BY <1>1 DEF vars
<1>2. CASE /\ UNCHANGED <<workerVars, consumerVars>>
           /\ \E j \in Jobs, ingest \in BOOLEAN, fs \in SUBSET Feeds : EnqueueRead(j, ingest, fs)
  BY <1>2 DEF EnqueueRead
<1>3. CASE UNCHANGED <<workerVars, consumerVars>> /\ \E j \in Jobs : EnqueueCreate(j)
  BY <1>3 DEF EnqueueCreate
<1>4. CASE UNCHANGED <<workerVars, consumerVars>> /\ \E j \in Jobs : EnqueueReject(j)
  BY <1>4 DEF EnqueueReject
<1>5. CASE UNCHANGED <<workerVars, consumerVars>> /\ \E j \in Jobs : EnqueueMarkFailed(j)
  BY <1>5 DEF EnqueueMarkFailed
<1>6. CASE /\ UNCHANGED <<workerVars, consumerVars>>
           /\ \E j \in Jobs, b \in SUBSET Feeds, o \in CommandOutcomes(PublishAttempts) :
                EnqueuePublish(j, b, o)
  BY <1>6 DEF EnqueuePublish
<1>7. CASE UNCHANGED <<workerVars, consumerVars>> /\ BackendCrash
  BY <1>7 DEF BackendCrash
<1>8. CASE /\ UNCHANGED <<enqueue, consumerVars>>
           /\ \E o \in CommandOutcomes(MaxAttempts) : WorkerStart(o) \/ WorkerRegroup(o)
  BY <1>8 DEF WorkerStart, WorkerRegroup
<1>9. CASE UNCHANGED <<enqueue, consumerVars>> /\ \E o \in CommandOutcomes(MaxAttempts) : WorkerRead(o)
  BY <1>9 DEF WorkerRead
<1>10. CASE /\ UNCHANGED <<enqueue, consumerVars>>
            /\ \E task \in todo, reply \in Replies : WorkerFetch(task[1], task[2], reply)
  BY <1>10 DEF WorkerFetch
<1>11. CASE /\ UNCHANGED <<enqueue, consumerVars>>
            /\ \E task \in fetched, o \in CommandOutcomes(MaxAttempts) :
                 WorkerPublish(task[1], task[2], o)
  BY <1>11 DEF WorkerPublish
<1>12. CASE /\ UNCHANGED <<enqueue, consumerVars>>
            /\ \E i \in open, o \in CommandOutcomes(MaxAttempts) : WorkerAck(i, o)
  BY <1>12 DEF WorkerAck
<1>13. CASE UNCHANGED <<enqueue, consumerVars>> /\ (WorkerCrash \/ \E f \in Feeds : SiteUpdate(f))
  BY <1>13 DEF WorkerCrash, SiteUpdate
<1>14. CASE /\ UNCHANGED <<enqueue, workerVars>>
            /\ ConsumerStart \/ ConsumerNoGroup \/ ConsumerCrash
  BY <1>14 DEF ConsumerStart, ConsumerNoGroup, ConsumerCrash
<1>15. CASE /\ UNCHANGED <<enqueue, workerVars>>
            /\ \E m \in inbox : ConsumerInvalid(m) \/ ConsumerDuplicate(m) \/ ConsumerRollback(m)
  BY <1>15 DEF ConsumerInvalid, ConsumerDuplicate, ConsumerRollback
<1>16. CASE UNCHANGED <<enqueue, workerVars>> /\ \E m \in inbox : ConsumerPersist(m)
  BY <1>16 DEF ConsumerPersist
<1>17. CASE /\ UNCHANGED <<enqueue, workerVars>>
            /\ \E o \in CommandOutcomes(MaxAttempts) : ConsumerEnsureGroup(o) \/ ConsumerRead(o)
  BY <1>17 DEF ConsumerEnsureGroup, ConsumerRead
<1>18. CASE /\ UNCHANGED <<enqueue, workerVars>>
            /\ \E m \in inbox, o \in CommandOutcomes(MaxAttempts) : ConsumerAck(m, o)
  BY <1>18 DEF ConsumerAck
<1>19. CASE \/ \E f \in Feeds : SyncDeletesFeed(f)
            \/ \E f \in Feeds, protection \in CatalogProtections : SyncUpsertsFeed(f, protection)
            \/ RedisLost
            \/ \E entry \in ForeignEntries : ForeignWrite(entry)
  BY <1>19 DEF SyncDeletesFeed, SyncUpsertsFeed, RedisLost, ForeignWrite
<1> HIDE DEF sharedVars, dbVars, workerVars, consumerVars, Writers
<1> QED
  BY <1>1, <1>2, <1>3, <1>4, <1>5, <1>6, <1>7, <1>8, <1>9, <1>10, <1>11, <1>12, <1>13,
     <1>14, <1>15, <1>16, <1>17, <1>18, <1>19, StepCases

-------------------------------------------------------------------------------
(* What the streams gain in a step.                                        *)

\* The message EnqueuePublish(j, b, o) sends.
Message(j, b) == Request(j, enqueue[j].ingest, [f \in b |-> enqueue[j].feeds[f]])

\* Entry i of the request stream was there before, was written by another
\* client, or is the message publish_rss_scrape_job sent in this step.
RequestOrigin(i) ==
  \/ i \in 1..Len(requests.log) /\ requests'.log[i] = requests.log[i]
  \/ requests'.log[i] \in ForeignEntries
  \/ \E j \in Jobs, b \in SUBSET Feeds, o \in CommandOutcomes(PublishAttempts) :
       EnqueuePublish(j, b, o) /\ requests'.log[i] = Message(j, b)

\* The request stream only grows, by messages of known origin, and only the
\* worker acknowledges.
LEMMA RequestsGrow ==
  ASSUME TypeOK, RequestsStep
  PROVE  /\ Extends(requests.log, requests'.log)
         /\ \A i \in 1..Len(requests'.log) : RequestOrigin(i)
         /\ \/ requests'.acked = requests.acked
            \/ \E i \in open, o \in CommandOutcomes(MaxAttempts) :
                 WorkerAck(i, o) /\ requests'.acked \subseteq requests.acked \cup {i}
<1> DEFINE E == RequestEntries \cup ForeignEntries
<1>1. requests \in Streams(E) /\ WellFormed(requests) BY DEF TypeOK, RequestsTypeOK
<1> HIDE DEF E
<1>2. Extends(requests.log, requests.log) BY <1>1, ExtendsSame
<1>3. ASSUME requests'.log = requests.log
      PROVE  /\ Extends(requests.log, requests'.log)
             /\ \A i \in 1..Len(requests'.log) : RequestOrigin(i)
  BY <1>2, <1>3 DEF RequestOrigin
<1>4. ASSUME NEW e \in E, NEW n \in Nat, requests' = XAdd(requests, e, n)
      PROVE  /\ Extends(requests.log, requests'.log)
             /\ requests'.acked = requests.acked
             /\ \A i \in 1..Len(requests'.log) :
                  \/ i \in 1..Len(requests.log) /\ requests'.log[i] = requests.log[i]
                  \/ requests'.log[i] = e
  <2>1. Len(requests.log) \in Nat BY <1>2 DEF Extends
  <2>2. /\ Len(requests'.log) = Len(requests.log) + n
        /\ \A i \in 1..Len(requests.log) : requests'.log[i] = requests.log[i]
        /\ \A i \in (Len(requests.log) + 1)..(Len(requests.log) + n) : requests'.log[i] = e
        /\ requests'.acked = requests.acked
    BY <1>1, <1>4, XAddFacts
  <2> QED BY <1>1, <1>4, <2>1, <2>2, ExtendsXAdd
<1>5. CASE requests' = requests BY <1>3, <1>5
<1>6. ASSUME NEW j \in Jobs, NEW b \in SUBSET Feeds, NEW o \in CommandOutcomes(PublishAttempts),
             EnqueuePublish(j, b, o)
      PROVE  /\ Extends(requests.log, requests'.log)
             /\ \A i \in 1..Len(requests'.log) : RequestOrigin(i)
             /\ requests'.acked = requests.acked
  <2>1. b \subseteq enqueue[j].left /\ requests' = XAdd(requests, Message(j, b), Executions(o, PublishAttempts))
    BY <1>6 DEF EnqueuePublish, NextBatches, Message
  <2>2. Message(j, b) \in E BY <2>1, BatchFacts DEF Message, E
  <2>3. Executions(o, PublishAttempts) \in Nat BY OutcomeFacts DEF PublishAttempts
  <2> QED BY <1>4, <1>6, <2>1, <2>2, <2>3 DEF RequestOrigin
<1>7. ASSUME NEW o \in CommandOutcomes(MaxAttempts), WorkerStart(o) \/ WorkerRegroup(o)
      PROVE  requests'.log = requests.log /\ requests'.acked = requests.acked
  BY <1>1, <1>7, XGroupCreateFacts DEF WorkerStart, WorkerRegroup, SameLog
<1>8. ASSUME NEW o \in CommandOutcomes(MaxAttempts), WorkerRead(o)
      PROVE  requests'.log = requests.log /\ requests'.acked = requests.acked
  <2> DEFINE behind == XReadGroup(requests, o.lost * WorkerReadCount)
  <2>1. requests' = behind \/ requests' = XReadGroup(behind, WorkerReadCount)
    BY <1>8 DEF WorkerRead
  <2>2. o.lost * WorkerReadCount \in Nat BY OutcomeFacts, WorkerReadCountAssumption DEF MaxAttempts
  <2>3. SameLog(requests, behind, E) /\ behind.acked = requests.acked
    BY <1>1, <2>2, XReadGroupFacts
  <2> HIDE DEF behind
  <2> QED BY <2>1, <2>3, XReadGroupFacts, WorkerReadCountAssumption DEF SameLog
<1>9. ASSUME NEW i \in open, NEW o \in CommandOutcomes(MaxAttempts), WorkerAck(i, o)
      PROVE  requests'.log = requests.log /\ requests'.acked \subseteq requests.acked \cup {i}
  BY <1>1, <1>9, XAckFacts DEF WorkerAck, SameLog
<1>10. CASE RedisLost
  <2>1. requests'.log = requests.log /\ requests'.acked = requests.acked
    BY <1>1, <1>10, XLostFacts DEF RedisLost, SameLog
  <2> QED BY <1>3, <2>1
<1>11. ASSUME NEW entry \in ForeignEntries, ForeignWrite(entry)
       PROVE  /\ Extends(requests.log, requests'.log)
              /\ \A i \in 1..Len(requests'.log) : RequestOrigin(i)
              /\ requests'.acked = requests.acked
  <2>1. requests' = requests \/ requests' = XAdd(requests, entry, 1)
    BY <1>11 DEF ForeignWrite
  <2>2. CASE requests' = requests BY <1>3, <2>2
  <2>3. CASE requests' = XAdd(requests, entry, 1)
    <3>1. entry \in E BY DEF E
    <3> QED BY <1>4, <2>3, <3>1 DEF RequestOrigin
  <2> QED BY <2>1, <2>2, <2>3
<1> QED BY <1>3, <1>5, <1>6, <1>7, <1>8, <1>9, <1>10, <1>11 DEF RequestsStep

\* Entry i of a result stream was there before, was written by another client,
\* or is the result a coroutine of the worker published in this step.
ResultOrigin(kind, i) ==
  \/ i \in 1..Len(streams[kind].log) /\ streams'[kind].log[i] = streams[kind].log[i]
  \/ streams'[kind].log[i] \in ForeignEntries
  \/ \E task \in fetched, o \in CommandOutcomes(MaxAttempts) :
       WorkerPublish(task[1], task[2], o) /\ streams'[kind].log[i] = task[2]

\* The result streams only grow, by results of known origin, and only
\* db_manager acknowledges.
LEMMA StreamsGrow ==
  ASSUME TypeOK, StreamsStep
  PROVE  \A kind \in Kinds :
           /\ Extends(streams[kind].log, streams'[kind].log)
           /\ \A i \in 1..Len(streams'[kind].log) : ResultOrigin(kind, i)
           /\ \/ streams'[kind].acked = streams[kind].acked
              \/ \E m \in inbox, o \in CommandOutcomes(MaxAttempts) :
                   /\ ConsumerAck(m, o) /\ m[1] = kind
                   /\ streams'[kind].acked \subseteq streams[kind].acked \cup {m[2]}
<1> SUFFICES ASSUME NEW kind \in Kinds
             PROVE  /\ Extends(streams[kind].log, streams'[kind].log)
                    /\ \A i \in 1..Len(streams'[kind].log) : ResultOrigin(kind, i)
                    /\ \/ streams'[kind].acked = streams[kind].acked
                       \/ \E m \in inbox, o \in CommandOutcomes(MaxAttempts) :
                            /\ ConsumerAck(m, o) /\ m[1] = kind
                            /\ streams'[kind].acked \subseteq streams[kind].acked \cup {m[2]}
  OBVIOUS
<1> DEFINE E == ResultEntries \cup ForeignEntries
           s == streams[kind]
<1>1. /\ streams \in [Kinds -> Streams(E)] /\ s \in Streams(E) /\ WellFormed(s)
  BY DEF TypeOK, StreamsTypeOK
<1> HIDE DEF E
<1>2. Extends(s.log, s.log) BY <1>1, ExtendsSame
<1>3. ASSUME streams'[kind].log = s.log
      PROVE  /\ Extends(s.log, streams'[kind].log)
             /\ \A i \in 1..Len(streams'[kind].log) : ResultOrigin(kind, i)
  BY <1>2, <1>3 DEF ResultOrigin
<1>4. ASSUME NEW e \in E, NEW n \in Nat, streams'[kind] = XAdd(s, e, n)
      PROVE  /\ Extends(s.log, streams'[kind].log)
             /\ streams'[kind].acked = s.acked
             /\ \A i \in 1..Len(streams'[kind].log) :
                  \/ i \in 1..Len(s.log) /\ streams'[kind].log[i] = s.log[i]
                  \/ streams'[kind].log[i] = e
  <2> DEFINE t == streams'[kind]
  <2>1. Len(s.log) \in Nat BY <1>2 DEF Extends
  <2>2. /\ Len(t.log) = Len(s.log) + n
        /\ \A i \in 1..Len(s.log) : t.log[i] = s.log[i]
        /\ \A i \in (Len(s.log) + 1)..(Len(s.log) + n) : t.log[i] = e
        /\ t.acked = s.acked
    BY <1>1, <1>4, XAddFacts
  <2>3. Extends(s.log, t.log) BY <1>1, <1>4, ExtendsXAdd
  <2> HIDE DEF s, t
  <2>4. \A i \in 1..Len(t.log) : (i \in 1..Len(s.log) /\ t.log[i] = s.log[i]) \/ t.log[i] = e
    BY <2>1, <2>2
  <2> QED BY <2>2, <2>3, <2>4 DEF s, t
<1>5. CASE streams' = streams BY <1>3, <1>5
<1>6. ASSUME NEW task \in fetched, NEW o \in CommandOutcomes(MaxAttempts),
             WorkerPublish(task[1], task[2], o)
      PROVE  /\ Extends(s.log, streams'[kind].log)
             /\ \A i \in 1..Len(streams'[kind].log) : ResultOrigin(kind, i)
             /\ streams'[kind].acked = s.acked
  <2>1. task[2] \in E BY DEF TypeOK, WorkerTypeOK, E
  <2>2. Executions(o, MaxAttempts) \in Nat BY OutcomeFacts DEF MaxAttempts
  <2>3. streams' = [streams EXCEPT ![StreamOf(task[2])] =
                      XAdd(@, task[2], Executions(o, MaxAttempts))]
    BY <1>6 DEF WorkerPublish
  <2>4. CASE kind = StreamOf(task[2])
    <3>1. streams'[kind] = XAdd(s, task[2], Executions(o, MaxAttempts))
      BY <1>1, <2>3, <2>4
    <3> QED BY <1>4, <1>6, <2>1, <2>2, <3>1 DEF ResultOrigin
  <2>5. CASE kind # StreamOf(task[2])
    <3>1. streams'[kind] = s BY <1>1, <2>3, <2>5
    <3> QED BY <1>3, <3>1
  <2> QED BY <2>4, <2>5
<1>7. ASSUME NEW o \in CommandOutcomes(MaxAttempts), ConsumerEnsureGroup(o)
      PROVE  streams'[kind].log = s.log /\ streams'[kind].acked = s.acked
  <2>1. \/ streams' = streams
        \/ streams' = [streams EXCEPT ![KindOrder[ensuring + 1]] = XGroupCreate(@)]
    BY <1>7 DEF ConsumerEnsureGroup
  <2>2. streams'[kind] = s \/ streams'[kind] = XGroupCreate(s) BY <1>1, <2>1
  <2> QED BY <1>1, <2>2, XGroupCreateFacts DEF SameLog
<1>8. ASSUME NEW o \in CommandOutcomes(MaxAttempts), ConsumerRead(o)
      PROVE  streams'[kind].log = s.log /\ streams'[kind].acked = s.acked
  <2> DEFINE behind == XReadGroup(s, o.lost * ConsumerReadCount)
  <2>1. streams'[kind] = behind \/ streams'[kind] = XReadGroup(behind, ConsumerReadCount)
    BY <1>8 DEF ConsumerRead
  <2>2. o.lost * ConsumerReadCount \in Nat BY OutcomeFacts, ConsumerReadCountAssumption DEF MaxAttempts
  <2>3. SameLog(s, behind, E) /\ behind.acked = s.acked
    BY <1>1, <2>2, XReadGroupFacts
  <2> HIDE DEF behind
  <2> QED BY <2>1, <2>3, XReadGroupFacts, ConsumerReadCountAssumption DEF SameLog
<1>9. ASSUME NEW m \in inbox, NEW o \in CommandOutcomes(MaxAttempts), ConsumerAck(m, o)
      PROVE  /\ streams'[kind].log = s.log
             /\ \/ streams'[kind].acked = s.acked
                \/ m[1] = kind /\ streams'[kind].acked \subseteq s.acked \cup {m[2]}
  <2>1. streams' = streams \/ streams' = [streams EXCEPT ![m[1]] = XAck(@, m[2])]
    BY <1>9 DEF ConsumerAck
  <2>2. streams'[kind] = s \/ (m[1] = kind /\ streams'[kind] = XAck(s, m[2]))
    BY <1>1, <2>1
  <2> QED BY <1>1, <2>2, XAckFacts DEF SameLog
<1>10. CASE RedisLost
  <2>1. streams'[kind].log = s.log /\ streams'[kind].acked = s.acked
    BY <1>1, <1>10, XLostFacts DEF RedisLost, SameLog
  <2> QED BY <1>3, <2>1
<1>11. ASSUME NEW entry \in ForeignEntries, ForeignWrite(entry)
       PROVE  /\ Extends(s.log, streams'[kind].log)
              /\ \A i \in 1..Len(streams'[kind].log) : ResultOrigin(kind, i)
              /\ streams'[kind].acked = s.acked
  <2>1. streams'[kind] = s \/ streams'[kind] = XAdd(s, entry, 1)
    BY <1>1, <1>11 DEF ForeignWrite
  <2>2. CASE streams'[kind] = s BY <1>3, <2>2
  <2>3. CASE streams'[kind] = XAdd(s, entry, 1)
    <3>1. entry \in E BY DEF E
    <3> QED BY <1>4, <2>3, <3>1 DEF ResultOrigin
  <2> QED BY <2>1, <2>2, <2>3
<1> QED BY <1>3, <1>5, <1>6, <1>7, <1>8, <1>9, <1>10, <1>11 DEF StreamsStep

-------------------------------------------------------------------------------
(* The worker: a message in work, and what its XACK means.                 *)

\* A published result stays in its stream.
LEMMA PublishedStable ==
  ASSUME TypeOK, \A kind \in Kinds : Extends(streams[kind].log, streams'[kind].log),
         NEW j, NEW f, Published(j, f)
  PROVE  Published(j, f)'
<1>1. PICK kind \in Kinds : \E i \in ResultsFor(kind, j) : streams[kind].log[i].feed = f
  BY DEF Published
<1>2. PICK i \in ResultsFor(kind, j) : streams[kind].log[i].feed = f
  BY <1>1
<1>3. i \in 1..Len(streams[kind].log) BY DEF ResultsFor
<1>4. streams'[kind].log[i] = streams[kind].log[i] /\ i \in 1..Len(streams'[kind].log)
  BY <1>3 DEF Extends
<1>5. i \in ResultsFor(kind, j)' BY <1>4 DEF ResultsFor
<1> QED BY <1>2, <1>4, <1>5 DEF Published

\* The entries of the request stream stay what they are.
LEMMA RequestStable ==
  ASSUME Extends(requests.log, requests'.log), NEW i \in 1..Len(requests.log)
  PROVE  /\ requests'.log[i] = requests.log[i]
         /\ FeedsIn(i)' = FeedsIn(i)
         /\ i \in 1..Len(requests'.log)
BY DEF Extends, FeedsIn

\* A coroutine that has its response holds a result of its own request.
LEMMA FetchedStep ==
  ASSUME TypeOK, FetchedInv, CoroutineStep, Extends(requests.log, requests'.log)
  PROVE  FetchedInv'
<1> SUFFICES ASSUME NEW task \in fetched'
             PROVE  /\ requests'.log[task[1]].form = "request"
                    /\ task[2].job = requests'.log[task[1]].job
                    /\ task[2].feed \in FeedsIn(task[1])'
  BY DEF FetchedInv
<1>1. CASE task \in fetched
  <2>1. task \in (1..Len(requests.log)) \X ResultEntries BY <1>1 DEF TypeOK, WorkerTypeOK
  <2>2. task[1] \in 1..Len(requests.log) BY <2>1
  <2> QED BY <1>1, <2>2, RequestStable DEF FetchedInv
<1>2. CASE task \notin fetched
  <2>1. PICK old \in todo, reply \in Replies : WorkerFetch(old[1], old[2], reply)
    BY <1>2 DEF CoroutineStep, WorkerRead, WorkerPublish, WorkerAck, WorkerCrash
  <2>2. PICK r \in FetchResults(requests.log[old[1]], old[2], reply) :
          fetched' = fetched \cup {<<old[1], r>>}
    BY <2>1 DEF WorkerFetch
  <2>3. task[1] = old[1] /\ task[2] = r BY <1>2, <2>2
  <2>4. old[1] \in 1..Len(requests.log) /\ old[2] \in FeedsIn(old[1])
    BY DEF TypeOK, WorkerTypeOK
  <2>5. requests.log[old[1]].form = "request" /\ old[2] \in DOMAIN requests.log[old[1]].feeds
    BY <2>4 DEF FeedsIn
  <2>6. requests.log[old[1]] \in RequestEntries BY <2>4, <2>5, RequestEntryFacts
  <2>7. r.job = requests.log[old[1]].job /\ r.feed = old[2]
    BY <2>5, <2>6, FetchFacts
  <2> QED BY <2>3, <2>4, <2>5, <2>7, RequestStable
<1> QED BY <1>1, <1>2

\* The last entry after an XADD that was executed is the one it added.
LEMMA XAddLast ==
  ASSUME NEW E, NEW s \in Streams(E), WellFormed(s), NEW e \in E, NEW n \in Nat, n > 0
  PROVE  LET l == XAdd(s, e, n).log IN Len(l) \in 1..Len(l) /\ l[Len(l)] = e
<1>1. Len(s.log) \in Nat BY DEF Streams
<1>2. LET l == XAdd(s, e, n).log
      IN  /\ Len(l) = Len(s.log) + n
          /\ \A i \in (Len(s.log) + 1)..(Len(s.log) + n) : l[i] = e
  BY XAddFacts
<1> QED BY <1>1, <1>2

\* A publication that succeeded is in its stream.
LEMMA PublishFacts ==
  ASSUME TypeOK, FetchedInv, NEW task \in fetched, NEW o \in CommandOutcomes(MaxAttempts),
         WorkerPublish(task[1], task[2], o), Succeeded(o, MaxAttempts)
  PROVE  Published(requests.log[task[1]].job, task[2].feed)'
<1> DEFINE E == ResultEntries \cup ForeignEntries
           r == task[2]
           k == StreamOf(r)
           n == Executions(o, MaxAttempts)
           last == Len(streams'[k].log)
<1>1. r \in ResultEntries BY DEF TypeOK, WorkerTypeOK
<1>2. r \in E /\ r.form = "result" BY <1>1 DEF ResultEntries
<1>3. k \in Kinds BY DEF StreamOf, Kinds
<1>4. streams \in [Kinds -> Streams(E)] /\ streams[k] \in Streams(E) /\ WellFormed(streams[k])
  BY <1>3 DEF TypeOK, StreamsTypeOK
<1>5. n \in Nat /\ n > 0 BY OutcomeFacts DEF MaxAttempts
<1>6. streams' = [streams EXCEPT ![k] = XAdd(streams[k], r, n)] BY DEF WorkerPublish
<1>7. r.job = requests.log[task[1]].job BY DEF FetchedInv
<1> HIDE DEF E, r, k, n
<1>8. streams'[k] = XAdd(streams[k], r, n) BY <1>3, <1>4, <1>6
<1>9. LET l == streams'[k].log IN Len(l) \in 1..Len(l) /\ l[Len(l)] = r
  BY <1>2, <1>4, <1>5, <1>8, XAddLast
<1>10. last \in 1..Len(streams'[k].log) /\ streams'[k].log[last] = r BY <1>9
<1> HIDE DEF last
<1>11. last \in ResultsFor(k, r.job)' BY <1>2, <1>10 DEF ResultsFor
<1>12. Published(r.job, r.feed)' BY <1>3, <1>10, <1>11 DEF Published
<1>13. (requests.log[task[1]].job)' = requests.log[task[1]].job BY DEF WorkerPublish
<1> QED BY <1>7, <1>12, <1>13 DEF r

\* No feed of a message in work is forgotten: a feed leaves todo with its
\* response and fetched with its publication, or its message leaves open.
LEMMA WorkStep ==
  ASSUME TypeOK, TypeOK', FetchedInv, WorkInv, CoroutineStep,
         Extends(requests.log, requests'.log),
         \A kind \in Kinds : Extends(streams[kind].log, streams'[kind].log)
  PROVE  WorkInv'
<1> DEFINE Done(i, f) ==
      \/ <<i, f>> \in todo
      \/ \E task \in fetched : task[1] = i /\ task[2].feed = f
      \/ Published(requests.log[i].job, f)
<1> SUFFICES ASSUME NEW i \in open', NEW f \in FeedsIn(i)' PROVE Done(i, f)'
  BY DEF WorkInv
<1>1. ASSUME i \in open
      PROVE  /\ f \in FeedsIn(i) /\ requests'.log[i] = requests.log[i]
             /\ Done(i, f)
             /\ Published(requests.log[i].job, f) => Done(i, f)'
  <2>1. i \in 1..Len(requests.log) BY <1>1 DEF TypeOK, WorkerTypeOK
  <2>2. f \in FeedsIn(i) /\ requests'.log[i] = requests.log[i] BY <2>1, RequestStable
  <2> QED BY <1>1, <2>2, PublishedStable DEF WorkInv
<1>2. CASE UNCHANGED <<open, todo, fetched>> BY <1>1, <1>2
<1>3. ASSUME NEW o \in CommandOutcomes(MaxAttempts), WorkerRead(o) PROVE Done(i, f)'
  <2>1. fetched' = fetched /\ todo \subseteq todo' BY <1>3 DEF WorkerRead
  <2>2. CASE i \in open BY <1>1, <2>1, <2>2
  <2>3. CASE i \notin open
    <3> DEFINE behind == XReadGroup(requests, o.lost * WorkerReadCount)
               ids == IF Succeeded(o, MaxAttempts) THEN Undelivered(behind, WorkerReadCount) ELSE {}
               messages == {k \in ids : requests.log[k].form # "missing"}
    <3>1. /\ open' = open \cup messages
          /\ todo' = todo \cup {task \in messages \X Feeds : task[2] \in FeedsIn(task[1])}
      BY <1>3, <2>3 DEF WorkerRead
    <3>2. i \in messages BY <2>3, <3>1
    <3> HIDE DEF messages
    <3>3. i \in 1..Len(requests'.log) BY DEF TypeOK, WorkerTypeOK
    <3>4. requests'.log = requests.log
      BY <1>3 DEF WorkerRead, XReadGroup, TypeOK, RequestsTypeOK, Streams
    <3>5. f \in FeedsIn(i) /\ f \in Feeds BY <3>3, <3>4, FeedsInFacts DEF FeedsIn
    <3> QED BY <3>1, <3>2, <3>5
  <2> QED BY <2>2, <2>3
<1>4. ASSUME NEW old \in todo, NEW reply \in Replies, WorkerFetch(old[1], old[2], reply)
      PROVE  Done(i, f)'
  <2>1. i \in open BY <1>4 DEF WorkerFetch
  <2>2. old[1] \in 1..Len(requests.log) /\ old[2] \in FeedsIn(old[1]) /\ old = <<old[1], old[2]>>
    BY DEF TypeOK, WorkerTypeOK
  <2>3. requests.log[old[1]].form = "request" /\ old[2] \in DOMAIN requests.log[old[1]].feeds
    BY <2>2 DEF FeedsIn
  <2>4. requests.log[old[1]] \in RequestEntries BY <2>2, <2>3, RequestEntryFacts
  <2>5. PICK r \in FetchResults(requests.log[old[1]], old[2], reply) :
          fetched' = fetched \cup {<<old[1], r>>}
    BY <1>4 DEF WorkerFetch
  <2>6. r.feed = old[2] BY <2>3, <2>4, FetchFacts
  <2>7. todo' = todo \ {<<old[1], old[2]>>} BY <1>4 DEF WorkerFetch
  <2>8. CASE <<i, f>> = <<old[1], old[2]>>
    <3>1. <<old[1], r>> \in fetched' BY <2>5
    <3> QED BY <2>6, <2>8, <3>1
  <2>9. CASE <<i, f>> # <<old[1], old[2]>> BY <1>1, <2>1, <2>5, <2>7, <2>9
  <2> QED BY <2>8, <2>9
<1>5. ASSUME NEW old \in fetched, NEW o \in CommandOutcomes(MaxAttempts),
             WorkerPublish(old[1], old[2], o)
      PROVE  Done(i, f)'
  <2>1. open' \subseteq open /\ todo' = todo /\ fetched' = fetched \ {<<old[1], old[2]>>}
    BY <1>5 DEF WorkerPublish, Abandon
  <2>2. i \in open BY <2>1
  <2>3. old = <<old[1], old[2]>> BY DEF TypeOK, WorkerTypeOK
  <2>4. CASE i = old[1] /\ f = old[2].feed
    <3>1. Succeeded(o, MaxAttempts) BY <1>5, <2>4 DEF WorkerPublish, Abandon
    <3>2. Published(requests.log[old[1]].job, old[2].feed)' BY <1>5, <3>1, PublishFacts
    <3> QED BY <2>4, <3>2
  <2>5. CASE ~ (i = old[1] /\ f = old[2].feed)
    <3>1. \A task \in fetched : (task[1] = i /\ task[2].feed = f) => task \in fetched'
      BY <2>1, <2>3, <2>5
    <3> QED BY <1>1, <2>1, <2>2, <3>1
  <2> QED BY <2>4, <2>5
<1>6. ASSUME NEW k \in open, NEW o \in CommandOutcomes(MaxAttempts), WorkerAck(k, o)
      PROVE  Done(i, f)'
  BY <1>1, <1>6 DEF WorkerAck, Abandon
<1>7. CASE WorkerCrash BY <1>7 DEF WorkerCrash
<1> QED BY <1>2, <1>3, <1>4, <1>5, <1>6, <1>7 DEF CoroutineStep

\* The worker's part of the invariant holds at the start and every step keeps it.
LEMMA WorkerInvariant ==
  /\ Init => WorkerInv
  /\ WorkerInv /\ [Next]_vars => WorkerInv'
<1>1. ASSUME Init PROVE WorkerInv
  <2>1. TypeOK BY <1>1, TypeInit
  <2>2. fetched = {} /\ open = {} /\ requests.acked = {}
    BY <1>1 DEF Init, SharedInit, WorkerInit, EmptyStream
  <2> QED BY <2>1, <2>2 DEF WorkerInv, FetchedInv, WorkInv, AckedRequestsArePublished
<1>2. ASSUME WorkerInv, [Next]_vars PROVE WorkerInv'
  <2>1. TypeOK /\ FetchedInv /\ WorkInv /\ AckedRequestsArePublished BY <1>2 DEF WorkerInv
  <2>2. TypeOK' BY <1>2, <2>1, TypeStep
  <2>3. CoroutineStep /\ RequestsStep /\ StreamsStep BY <1>2, StepWriters DEF Writers
  <2>4. /\ Extends(requests.log, requests'.log)
        /\ \/ requests'.acked = requests.acked
           \/ \E i \in open, o \in CommandOutcomes(MaxAttempts) :
                WorkerAck(i, o) /\ requests'.acked \subseteq requests.acked \cup {i}
    BY <2>1, <2>3, RequestsGrow
  <2>5. \A kind \in Kinds : Extends(streams[kind].log, streams'[kind].log)
    BY <2>1, <2>3, StreamsGrow
  <2>6. FetchedInv' BY <2>1, <2>3, <2>4, FetchedStep
  <2>7. WorkInv' BY <2>1, <2>2, <2>3, <2>4, <2>5, WorkStep
  <2>8. AckedRequestsArePublished'
    <3> SUFFICES ASSUME NEW i \in requests'.acked, NEW f \in FeedsIn(i)'
                 PROVE  Published(requests.log[i].job, f)'
      BY DEF AckedRequestsArePublished
    <3>1. \/ i \in requests.acked
          \/ i \in open /\ \E o \in CommandOutcomes(MaxAttempts) : WorkerAck(i, o)
      BY <2>4
    <3>2. i \in 1..Len(requests.log)
      BY <2>1, <3>1 DEF TypeOK, WorkerTypeOK, RequestsTypeOK, WellFormed
    <3>3. f \in FeedsIn(i) /\ requests'.log[i] = requests.log[i] BY <2>4, <3>2, RequestStable
    <3>4. Published(requests.log[i].job, f)
      <4>1. CASE i \in requests.acked BY <2>1, <3>3, <4>1 DEF AckedRequestsArePublished
      <4>2. CASE i \in open /\ \E o \in CommandOutcomes(MaxAttempts) : WorkerAck(i, o)
        <5>1. Finished(i) BY <4>2 DEF WorkerAck
        <5>2. <<i, f>> \notin todo /\ \A task \in fetched : task[1] # i
          BY <5>1 DEF Finished
        <5> QED BY <2>1, <3>3, <4>2, <5>2 DEF WorkInv
      <4> QED BY <3>1, <4>1, <4>2
    <3> QED BY <2>1, <2>5, <3>3, <3>4, PublishedStable
  <2> QED BY <2>2, <2>6, <2>7, <2>8 DEF WorkerInv
<1> QED BY <1>1, <1>2

\* ack_scrape_job: a request message is acknowledged only when every feed in it
\* has a result in a result stream, whatever was raised, repeated or lost
\* meanwhile.
THEOREM AckedRequestsPublished == Spec => []AckedRequestsArePublished
<1>1. WorkerInv => AckedRequestsArePublished BY DEF WorkerInv
<1> QED BY <1>1, WorkerInvariant, PTL DEF Spec

-------------------------------------------------------------------------------
(* The rows of a job.                                                      *)

\* The transaction of a result: it adds one row, for a feed that exists and of
\* a job that exists, and gives the job a status.
LEMMA PersistFacts ==
  ASSUME TypeOK, NEW m \in inbox, ConsumerPersist(m)
  PROVE  LET r == Entry(m)
         IN  /\ r \in ResultEntries /\ r.form = "result" /\ r.feed \in feeds
             /\ jobs[r.job].status # "none" /\ results[r.job][r.feed] = "none"
             /\ feeds' = feeds /\ streams' = streams
             /\ \A j \in Jobs : /\ jobs'[j].feeds = jobs[j].feeds
                                /\ jobs'[j].feed_count = jobs[j].feed_count
                                /\ j # r.job => jobs'[j] = jobs[j]
             /\ jobs'[r.job].status \in {"queued", "processing"} \cup Terminal
             /\ jobs'[r.job].status =
                  RefreshedStatus(jobs[r.job].feed_count, Cardinality(ResultsOf(r.job) \cup {r.feed}),
                                  Cardinality(IF r.status = "error" THEN ErrorsOf(r.job) \cup {r.feed}
                                              ELSE ErrorsOf(r.job)))
             /\ \A j \in Jobs, f \in Feeds :
                  results'[j][f] = IF j = r.job /\ f = r.feed THEN r.status ELSE results[j][f]
<1> DEFINE r == Entry(m)
           s == RefreshedStatus(jobs[r.job].feed_count, Cardinality(ResultsOf(r.job) \cup {r.feed}),
                                Cardinality(IF r.status = "error" THEN ErrorsOf(r.job) \cup {r.feed}
                                            ELSE ErrorsOf(r.job)))
<1>1. r.form = "result" /\ r.feed \in feeds /\ feeds' = feeds /\ streams' = streams BY DEF ConsumerPersist
<1>2. r \in ResultEntries BY <1>1, InboxFacts
<1>3. r.job \in Jobs /\ r.feed \in Feeds BY <1>2 DEF ResultEntries
<1>4. jobs[r.job].status # "none" /\ results[r.job][r.feed] = "none"
  BY DEF ConsumerPersist, IsNew
<1>5. jobs' = [jobs EXCEPT ![r.job].status = s] BY DEF ConsumerPersist
<1>6. results' = [results EXCEPT ![r.job][r.feed] = r.status] BY DEF ConsumerPersist
<1>7. jobs \in [Jobs -> JobRows] /\ results \in [Jobs -> [Feeds -> ResultStatuses]]
  BY DEF TypeOK, TablesTypeOK
<1>8. s \in {"queued", "processing"} \cup Terminal BY RefreshedStatusFacts DEF Terminal
<1> HIDE DEF r, s
<1>9. \A j \in Jobs : /\ jobs'[j].feeds = jobs[j].feeds
                      /\ jobs'[j].feed_count = jobs[j].feed_count
                      /\ j # r.job => jobs'[j] = jobs[j]
  BY <1>5, <1>7 DEF JobRows
<1>10. jobs'[r.job].status = s BY <1>3, <1>5, <1>7 DEF JobRows
<1>11. \A j \in Jobs, f \in Feeds :
         results'[j][f] = IF j = r.job /\ f = r.feed THEN r.status ELSE results[j][f]
  BY <1>3, <1>6, <1>7
<1> QED BY <1>1, <1>2, <1>4, <1>9, <1>10, <1>11, <1>8 DEF r, s

\* The commit of a job writes its row, and no other.
LEMMA CreateFacts ==
  ASSUME TypeOK, NEW j \in Jobs, EnqueueCreate(j)
  PROVE  /\ enqueue[j].pc = "create" /\ enqueue[j].left \subseteq feeds
         /\ feeds' = feeds /\ results' = results
         /\ jobs'[j].feeds = enqueue[j].left
         /\ jobs'[j].feed_count = Cardinality(enqueue[j].left)
         /\ jobs'[j].status = IF enqueue[j].left = {} THEN "completed" ELSE "queued"
         /\ enqueue'[j].pc = IF enqueue[j].left = {} THEN "done" ELSE "publish"
         /\ enqueue'[j].left = enqueue[j].left
         /\ \A k \in Jobs : k # j => jobs'[k] = jobs[k] /\ enqueue'[k] = enqueue[k]
<1>1. /\ jobs \in [Jobs -> JobRows]
      /\ enqueue \in [Jobs -> [pc : EnqueuePCs, ingest : BOOLEAN,
                               feeds : SnapshotSets, left : SUBSET Feeds]]
  BY DEF TypeOK, TablesTypeOK, EnqueueTypeOK
<1>2. /\ enqueue[j].pc = "create" /\ enqueue[j].left \subseteq feeds
      /\ feeds' = feeds /\ results' = results
      /\ CreateJob(j, enqueue[j].ingest, enqueue[j].left)
      /\ enqueue' = [enqueue EXCEPT ![j].pc = IF enqueue[j].left = {} THEN "done" ELSE "publish"]
  BY DEF EnqueueCreate
<1>3. /\ jobs'[j].feeds = enqueue[j].left
      /\ jobs'[j].feed_count = Cardinality(enqueue[j].left)
      /\ jobs'[j].status = IF enqueue[j].left = {} THEN "completed" ELSE "queued"
      /\ \A k \in Jobs : k # j => jobs'[k] = jobs[k]
  BY <1>1, <1>2 DEF CreateJob
<1>4. /\ enqueue'[j].pc = IF enqueue[j].left = {} THEN "done" ELSE "publish"
      /\ enqueue'[j].left = enqueue[j].left
      /\ \A k \in Jobs : k # j => enqueue'[k] = enqueue[k]
  BY <1>1, <1>2
<1> QED BY <1>2, <1>3, <1>4

\* The write of "failed" touches only the status of its job.
LEMMA MarkFailedFacts ==
  ASSUME TypeOK, NEW j \in Jobs, EnqueueMarkFailed(j)
  PROVE  /\ enqueue[j].pc = "mark_failed"
         /\ feeds' = feeds /\ results' = results
         /\ jobs'[j].status \in {"failed", jobs[j].status}
         /\ enqueue'[j].pc = "error" /\ enqueue'[j].left = enqueue[j].left
         /\ \A k \in Jobs : /\ jobs'[k].feeds = jobs[k].feeds
                            /\ jobs'[k].feed_count = jobs[k].feed_count
                            /\ k # j => jobs'[k] = jobs[k] /\ enqueue'[k] = enqueue[k]
<1>1. /\ jobs \in [Jobs -> JobRows]
      /\ enqueue \in [Jobs -> [pc : EnqueuePCs, ingest : BOOLEAN,
                               feeds : SnapshotSets, left : SUBSET Feeds]]
  BY DEF TypeOK, TablesTypeOK, EnqueueTypeOK
<1>2. /\ enqueue[j].pc = "mark_failed"
      /\ feeds' = feeds /\ results' = results
      /\ jobs' = jobs \/ jobs' = [jobs EXCEPT ![j].status = "failed"]
      /\ enqueue' = [enqueue EXCEPT ![j].pc = "error"]
  BY DEF EnqueueMarkFailed, SetStatus
<1>3. /\ jobs'[j].status \in {"failed", jobs[j].status}
      /\ \A k \in Jobs : /\ jobs'[k].feeds = jobs[k].feeds
                         /\ jobs'[k].feed_count = jobs[k].feed_count
                         /\ k # j => jobs'[k] = jobs[k]
  BY <1>1, <1>2 DEF JobRows
<1>4. /\ enqueue'[j].pc = "error" /\ enqueue'[j].left = enqueue[j].left
      /\ \A k \in Jobs : k # j => enqueue'[k] = enqueue[k]
  BY <1>1, <1>2
<1> QED BY <1>2, <1>3, <1>4

\* The deletion of a feed removes it from every table.
LEMMA DeleteFacts ==
  ASSUME TypeOK, NEW f \in Feeds, SyncDeletesFeed(f)
  PROVE  /\ feeds' = feeds \ {f}
         /\ \A j \in Jobs : /\ jobs'[j].feeds = jobs[j].feeds \ {f}
                            /\ jobs'[j].feed_count = jobs[j].feed_count
                            /\ jobs'[j].status = jobs[j].status
         /\ \A j \in Jobs, g \in Feeds : results'[j][g] = IF g = f THEN "none" ELSE results[j][g]
<1>1. jobs \in [Jobs -> JobRows] /\ results \in [Jobs -> [Feeds -> ResultStatuses]]
  BY DEF TypeOK, TablesTypeOK
<1>2. /\ feeds' = feeds \ {f}
      /\ jobs' = [j \in Jobs |-> [jobs[j] EXCEPT !.feeds = @ \ {f}]]
      /\ results' = [j \in Jobs |-> [results[j] EXCEPT ![f] = "none"]]
  BY DEF SyncDeletesFeed, DeleteFeedRow
<1>3. ASSUME NEW j \in Jobs
      PROVE  /\ jobs'[j].feeds = jobs[j].feeds \ {f}
             /\ jobs'[j].feed_count = jobs[j].feed_count
             /\ jobs'[j].status = jobs[j].status
  BY <1>1, <1>2 DEF JobRows
<1>4. ASSUME NEW j \in Jobs, NEW g \in Feeds
      PROVE  results'[j][g] = IF g = f THEN "none" ELSE results[j][g]
  BY <1>1, <1>2
<1> QED BY <1>2, <1>3, <1>4

\* A feed of an existing job stays one until it is deleted.
LEMMA MemberStable ==
  ASSUME TypeOK, JobRowsInv, TablesStep, NEW j \in Jobs, NEW f \in Feeds, Member(j, f)
  PROVE  Member(j, f)'
<1>1. CASE UNCHANGED <<feeds, jobs, results>> BY <1>1 DEF Member
<1>2. ASSUME NEW k \in Jobs, EnqueueCreate(k) PROVE Member(j, f)'
  <2>1. jobs[k].status = "none" BY <1>2, CreateFacts DEF JobRowsInv, JobRowsOf
  <2>2. jobs'[j] = jobs[j] /\ feeds' = feeds BY <1>2, <2>1, CreateFacts DEF Member
  <2> QED BY <2>2 DEF Member
<1>3. ASSUME NEW k \in Jobs, EnqueueMarkFailed(k) PROVE Member(j, f)'
  BY <1>3, MarkFailedFacts DEF Member
<1>4. ASSUME NEW m \in inbox, ConsumerPersist(m) PROVE Member(j, f)'
  <2>1. feeds' = feeds /\ jobs'[j].feeds = jobs[j].feeds BY <1>4, PersistFacts
  <2>2. jobs'[j].status # "none"
    <3>1. CASE j = Entry(m).job BY <1>4, <3>1, PersistFacts DEF Terminal
    <3>2. CASE j # Entry(m).job BY <1>4, <3>2, PersistFacts DEF Member
    <3> QED BY <3>1, <3>2
  <2> QED BY <2>1, <2>2 DEF Member
<1>5. ASSUME NEW g \in Feeds, SyncDeletesFeed(g) PROVE Member(j, f)'
  BY <1>5, DeleteFacts DEF Member
<1> QED BY <1>1, <1>2, <1>3, <1>4, <1>5 DEF TablesStep

\* A result row stays until its feed is deleted.
LEMMA ResultStable ==
  ASSUME TypeOK, TablesStep, NEW j \in Jobs, NEW f \in Feeds, f \in feeds',
         results[j][f] # "none"
  PROVE  results'[j][f] # "none"
<1>1. ASSUME NEW m \in inbox, ConsumerPersist(m) PROVE results'[j][f] # "none"
  <2>1. Entry(m).status # "none" BY <1>1, PersistFacts DEF ResultEntries
  <2> QED BY <1>1, <2>1, PersistFacts
<1>2. ASSUME NEW g \in Feeds, SyncDeletesFeed(g) PROVE results'[j][f] # "none"
  BY <1>2, DeleteFacts
<1> QED BY <1>1, <1>2, CreateFacts, MarkFailedFacts DEF TablesStep

\* A feed that exists after a step existed before it.
LEMMA FeedsShrink ==
  ASSUME TypeOK, TablesStep
  PROVE  feeds' \subseteq feeds
BY CreateFacts, MarkFailedFacts, PersistFacts, DeleteFacts DEF TablesStep

\* A publication of the backend: the request stays in its place or goes on.
LEMMA PublishStepFacts ==
  ASSUME TypeOK, NEW j \in Jobs, NEW b \in SUBSET Feeds,
         NEW o \in CommandOutcomes(PublishAttempts), EnqueuePublish(j, b, o)
  PROVE  /\ enqueue[j].pc = "publish" /\ b \subseteq enqueue[j].left
         /\ enqueue'[j].pc \in {"publish", "done", "mark_failed"}
         /\ enqueue'[j].left \subseteq enqueue[j].left
         /\ UNCHANGED <<feeds, jobs, results>>
         /\ enqueue'[j].pc = "mark_failed" \/
              /\ enqueue'[j].left = enqueue[j].left \ b
              /\ enqueue'[j].pc = "done" => enqueue[j].left = b
              /\ Executions(o, PublishAttempts) > 0
         /\ \A k \in Jobs : k # j => enqueue'[k] = enqueue[k]
<1>1. enqueue \in [Jobs -> [pc : EnqueuePCs, ingest : BOOLEAN,
                            feeds : SnapshotSets, left : SUBSET Feeds]]
  BY DEF TypeOK, EnqueueTypeOK
<1>2. /\ enqueue[j].pc = "publish" /\ b \subseteq enqueue[j].left
      /\ UNCHANGED <<feeds, jobs, results>>
  BY DEF EnqueuePublish, NextBatches, dbVars
<1>3. CASE PublishRaised(o)
  <2>1. enqueue' = [enqueue EXCEPT ![j].pc = "mark_failed"] BY <1>3 DEF EnqueuePublish
  <2> QED BY <1>1, <1>2, <2>1
<1>4. CASE ~ PublishRaised(o)
  <2>1. enqueue' = [enqueue EXCEPT ![j].left = @ \ b,
                                   ![j].pc = IF enqueue[j].left = b THEN "done" ELSE "publish"]
    BY <1>4 DEF EnqueuePublish
  <2>2. Executions(o, PublishAttempts) > 0
    BY <1>4, OutcomeFacts DEF PublishRaised, PublishAttempts
  <2>3. /\ enqueue'[j].left = enqueue[j].left \ b
        /\ enqueue'[j].pc = IF enqueue[j].left = b THEN "done" ELSE "publish"
        /\ \A k \in Jobs : k # j => enqueue'[k] = enqueue[k]
    BY <1>1, <2>1
  <2> QED BY <1>2, <2>2, <2>3
<1> QED BY <1>3, <1>4

\* The steps of the requests that write no table: a request moves along its
\* program, and what it has left to send shrinks.
LEMMA RequestMoves ==
  ASSUME TypeOK, RequestStep, NEW j \in Jobs,
         \A k \in Jobs : ~ EnqueueCreate(k) /\ ~ EnqueueMarkFailed(k)
  PROVE  \/ enqueue'[j] = enqueue[j]
         \/ enqueue[j].pc = "idle" /\ enqueue'[j].pc = "create"
         \/ /\ enqueue[j].pc \in {"create", "publish", "mark_failed"}
            /\ enqueue'[j].pc \in {"rejected", "crashed"}
         \/ /\ enqueue[j].pc = "publish"
            /\ enqueue'[j].pc \in {"publish", "done", "mark_failed"}
            /\ enqueue'[j].left \subseteq enqueue[j].left
<1>1. enqueue \in [Jobs -> [pc : EnqueuePCs, ingest : BOOLEAN,
                            feeds : SnapshotSets, left : SUBSET Feeds]]
  BY DEF TypeOK, EnqueueTypeOK
<1>2. ASSUME NEW k \in Jobs, NEW ingest \in BOOLEAN, NEW fs \in SUBSET Feeds,
             EnqueueRead(k, ingest, fs)
      PROVE  enqueue'[j] = enqueue[j] \/ (enqueue[j].pc = "idle" /\ enqueue'[j].pc = "create")
  <2>1. enqueue[k].pc = "idle" BY <1>2 DEF EnqueueRead
  <2>2. enqueue' = [enqueue EXCEPT ![k] =
                      [pc |-> "create", ingest |-> ingest, feeds |-> SnapshotOf(fs), left |-> fs]]
    BY <1>2 DEF EnqueueRead
  <2> QED BY <1>1, <2>1, <2>2
<1>3. ASSUME NEW k \in Jobs, EnqueueReject(k)
      PROVE  \/ enqueue'[j] = enqueue[j]
             \/ enqueue[j].pc = "create" /\ enqueue'[j].pc = "rejected"
  <2>1. enqueue[k].pc = "create" /\ enqueue' = [enqueue EXCEPT ![k].pc = "rejected"]
    BY <1>3 DEF EnqueueReject
  <2> QED BY <1>1, <2>1
<1>4. ASSUME BackendCrash
      PROVE  \/ enqueue'[j] = enqueue[j]
             \/ /\ enqueue[j].pc \in {"create", "publish", "mark_failed"}
                /\ enqueue'[j].pc = "crashed"
  <2>1. enqueue' = [k \in Jobs |->
                      IF enqueue[k].pc \in {"create", "publish", "mark_failed"}
                        THEN [enqueue[k] EXCEPT !.pc = "crashed"] ELSE enqueue[k]]
    BY <1>4 DEF BackendCrash
  <2> QED BY <1>1, <2>1
<1>5. ASSUME NEW k \in Jobs, NEW b \in SUBSET Feeds, NEW o \in CommandOutcomes(PublishAttempts),
             EnqueuePublish(k, b, o)
      PROVE  \/ enqueue'[j] = enqueue[j]
             \/ /\ enqueue[j].pc = "publish"
                /\ enqueue'[j].pc \in {"publish", "done", "mark_failed"}
                /\ enqueue'[j].left \subseteq enqueue[j].left
  BY <1>5, PublishStepFacts
<1> QED BY <1>2, <1>3, <1>4, <1>5 DEF RequestStep

\* The rows of a job keep together: results only for its feeds, even though
\* db_manager writes them from messages alone.
LEMMA JobRowsStep ==
  ASSUME TypeOK, JobRowsInv, MembersInv, TablesStep, RequestStep
  PROVE  JobRowsInv'
<1> SUFFICES ASSUME NEW j \in Jobs PROVE JobRowsOf(j)'
  BY DEF JobRowsInv, JobRowsOf
<1>1. JobRowsOf(j) BY DEF JobRowsInv, JobRowsOf
<1>2. ASSUME UNCHANGED <<feeds, jobs, results>>,
             \A k \in Jobs : ~ EnqueueCreate(k) /\ ~ EnqueueMarkFailed(k)
      PROVE  JobRowsOf(j)'
  <2>1. ResultsOf(j)' = ResultsOf(j) BY <1>2 DEF ResultsOf
  <2> QED BY <1>1, <1>2, <2>1, RequestMoves DEF JobRowsOf
<1>3. ASSUME NEW k \in Jobs, EnqueueCreate(k) PROVE JobRowsOf(j)'
  <2>1. ResultsOf(j)' = ResultsOf(j) BY <1>3, CreateFacts DEF ResultsOf
  <2>2. CASE j # k BY <1>1, <1>3, <2>1, <2>2, CreateFacts DEF JobRowsOf
  <2>3. CASE j = k
    <3>1. jobs[j].feeds = {} BY <1>1, <1>3, <2>3, CreateFacts DEF JobRowsOf
    <3>2. ResultsOf(j)' = {} BY <1>1, <2>1, <3>1 DEF JobRowsOf
    <3>3. IsFiniteSet(enqueue[j].left) BY FeedsAssumption, FS_Subset DEF TypeOK, EnqueueTypeOK
    <3>4. Cardinality(enqueue[j].left) \in Nat BY <3>3, FS_CardinalityType
    <3>5. Cardinality(jobs'[j].feeds) <= jobs'[j].feed_count BY <1>3, <2>3, <3>4, CreateFacts
    <3> QED BY <1>3, <2>3, <3>2, <3>5, CreateFacts DEF JobRowsOf
  <2> QED BY <2>2, <2>3
<1>4. ASSUME NEW k \in Jobs, EnqueueMarkFailed(k) PROVE JobRowsOf(j)'
  <2>1. ResultsOf(j)' = ResultsOf(j) BY <1>4, MarkFailedFacts DEF ResultsOf
  <2>2. CASE j # k BY <1>1, <1>4, <2>1, <2>2, MarkFailedFacts DEF JobRowsOf
  <2>3. CASE j = k BY <1>1, <1>4, <2>1, <2>3, MarkFailedFacts DEF JobRowsOf
  <2> QED BY <2>2, <2>3
<1>5. ASSUME enqueue' = enqueue, NEW m \in inbox, ConsumerPersist(m) PROVE JobRowsOf(j)'
  <2> DEFINE r == Entry(m)
  <2>1. /\ r \in ResultEntries /\ r.form = "result" /\ r.feed \in feeds
        /\ jobs[r.job].status # "none" /\ feeds' = feeds
        /\ \A f \in Feeds : results'[j][f] = IF j = r.job /\ f = r.feed THEN r.status ELSE results[j][f]
        /\ jobs'[j].feeds = jobs[j].feeds /\ jobs'[j].feed_count = jobs[j].feed_count
        /\ j # r.job => jobs'[j] = jobs[j]
        /\ jobs'[r.job].status # "none"
    BY <1>5, PersistFacts DEF Terminal
  <2>2. Member(r.job, r.feed)
    BY <2>1, InboxFacts DEF MembersInv, Entry
  <2> HIDE DEF r
  <2>3. ResultsOf(j)' \subseteq jobs[j].feeds
    <3>1. ResultsOf(j)' \subseteq ResultsOf(j) \cup (IF j = r.job THEN {r.feed} ELSE {})
      BY <2>1 DEF ResultsOf
    <3>2. j = r.job => r.feed \in jobs[j].feeds BY <2>1, <2>2 DEF Member
    <3> QED BY <1>1, <3>1, <3>2 DEF JobRowsOf
  <2>4. jobs'[j].status # "none" <=> jobs[j].status # "none" BY <2>1
  <2> QED BY <1>1, <1>5, <2>1, <2>3, <2>4 DEF JobRowsOf
<1>6. ASSUME enqueue' = enqueue, NEW f \in Feeds, SyncDeletesFeed(f) PROVE JobRowsOf(j)'
  <2>1. IsFiniteSet(jobs[j].feeds)
    BY FeedsAssumption, FS_Subset DEF TypeOK, TablesTypeOK, JobRows, JobFeedRows
  <2>2. /\ Cardinality(jobs[j].feeds \ {f}) <= Cardinality(jobs[j].feeds)
        /\ Cardinality(jobs[j].feeds \ {f}) \in Nat /\ Cardinality(jobs[j].feeds) \in Nat
    BY <2>1, FS_Subset, FS_CardinalityType
  <2>3. jobs[j].feed_count \in Nat BY DEF TypeOK, TablesTypeOK, JobRows
  <2>4. Cardinality(jobs'[j].feeds) <= jobs'[j].feed_count
    <3>1. jobs'[j].feeds = jobs[j].feeds \ {f} /\ jobs'[j].feed_count = jobs[j].feed_count
      BY <1>6, DeleteFacts
    <3>2. Cardinality(jobs[j].feeds) <= jobs[j].feed_count BY <1>1 DEF JobRowsOf
    <3> QED BY <2>2, <2>3, <3>1, <3>2
  <2>5. ResultsOf(j)' = ResultsOf(j) \ {f} BY <1>6, DeleteFacts DEF ResultsOf
  <2> QED BY <1>1, <1>6, <2>4, <2>5, DeleteFacts DEF JobRowsOf
<1> QED BY <1>2, <1>3, <1>4, <1>5, <1>6 DEF TablesStep

\* Whatever is on its way stays about a feed of an existing job.
LEMMA MembersStep ==
  ASSUME TypeOK, FetchedInv, JobRowsInv, MembersInv, Writers
  PROVE  MembersInv'
<1>1. TablesStep /\ RequestStep /\ RequestsStep /\ StreamsStep BY DEF Writers
<1>2. ASSUME NEW j \in Jobs, enqueue'[j].pc = "publish", NEW f \in enqueue'[j].left
      PROVE  Member(j, f)'
  <2>1. CASE \E k \in Jobs : EnqueueCreate(k)
    <3>1. PICK k \in Jobs : EnqueueCreate(k) BY <2>1
    <3>2. CASE k = j
      BY <1>2, <3>1, <3>2, CreateFacts DEF Member
    <3>3. CASE k # j
      <4>1. enqueue'[j] = enqueue[j] BY <3>1, <3>3, CreateFacts
      <4>2. Member(j, f) /\ f \in Feeds BY <1>2, <4>1 DEF MembersInv, TypeOK, EnqueueTypeOK
      <4> QED BY <1>1, <4>2, MemberStable
    <3> QED BY <3>2, <3>3
  <2>2. CASE \A k \in Jobs : ~ EnqueueCreate(k)
    <3>1. enqueue[j].pc = "publish" /\ f \in enqueue[j].left
      <4>1. CASE \E k \in Jobs : EnqueueMarkFailed(k)
        BY <1>2, <4>1, MarkFailedFacts
      <4>2. CASE \A k \in Jobs : ~ EnqueueMarkFailed(k)
        BY <1>1, <1>2, <2>2, <4>2, RequestMoves
      <4> QED BY <4>1, <4>2
    <3>2. Member(j, f) /\ f \in Feeds BY <3>1 DEF MembersInv, TypeOK, EnqueueTypeOK
    <3> QED BY <1>1, <3>2, MemberStable
  <2> QED BY <2>1, <2>2
<1>3. ASSUME NEW i \in 1..Len(requests'.log), NEW f \in FeedsIn(i)'
      PROVE  Member(requests.log[i].job, f)'
  <2> DEFINE e == requests'.log[i]
  <2>1. RequestOrigin(i) BY <1>1, RequestsGrow
  <2>2. e.form = "request" /\ f \in DOMAIN e.feeds BY DEF FeedsIn
  <2>3. \E j \in Jobs : e.job = j /\ f \in Feeds /\ Member(j, f)
    <3>1. CASE i \in 1..Len(requests.log) /\ requests'.log[i] = requests.log[i]
      <4>1. f \in FeedsIn(i) BY <2>2, <3>1 DEF FeedsIn
      <4>2. requests.log[i] \in RequestEntries BY <2>2, <3>1, RequestEntryFacts
      <4>3. e.job \in Jobs BY <3>1, <4>2 DEF RequestEntries
      <4> QED BY <3>1, <4>1, <4>3, FeedsInFacts DEF MembersInv
    <3>2. CASE requests'.log[i] \in ForeignEntries
      BY <2>2, <3>2 DEF ForeignEntries
    <3>3. CASE \E j \in Jobs, b \in SUBSET Feeds, o \in CommandOutcomes(PublishAttempts) :
                 EnqueuePublish(j, b, o) /\ requests'.log[i] = Message(j, b)
      <4>1. PICK j \in Jobs, b \in SUBSET Feeds, o \in CommandOutcomes(PublishAttempts) :
              EnqueuePublish(j, b, o) /\ requests'.log[i] = Message(j, b)
        BY <3>3
      <4>2. e.job = j /\ DOMAIN e.feeds = b BY <4>1 DEF Message, Request
      <4>3. enqueue[j].pc = "publish" /\ f \in enqueue[j].left
        BY <2>2, <4>1, <4>2, PublishStepFacts
      <4> QED BY <2>2, <4>2, <4>3 DEF MembersInv
    <3> QED BY <2>1, <3>1, <3>2, <3>3 DEF RequestOrigin
  <2>4. PICK j \in Jobs : e.job = j /\ f \in Feeds /\ Member(j, f) BY <2>3
  <2>5. Member(j, f)' BY <1>1, <2>4, MemberStable
  <2> QED BY <2>4, <2>5
<1>4. ASSUME NEW kind \in Kinds, NEW i \in 1..Len(streams'[kind].log),
             streams'[kind].log[i].form = "result"
      PROVE  Member(streams[kind].log[i].job, streams[kind].log[i].feed)'
  <2> DEFINE e == streams'[kind].log[i]
  <2>1. ResultOrigin(kind, i) BY <1>1, StreamsGrow
  <2>2. \E j \in Jobs, f \in Feeds : e.job = j /\ e.feed = f /\ Member(j, f)
    <3>1. CASE i \in 1..Len(streams[kind].log) /\ e = streams[kind].log[i]
      <4>1. e \in ResultEntries BY <1>4, <3>1, ResultEntryFacts
      <4>2. e.job \in Jobs /\ e.feed \in Feeds BY <4>1 DEF ResultEntries
      <4> QED BY <1>4, <3>1, <4>2 DEF MembersInv
    <3>2. CASE e \in ForeignEntries BY <1>4, <3>2 DEF ForeignEntries
    <3>3. ASSUME NEW task \in fetched, e = task[2]
          PROVE  \E j \in Jobs, f \in Feeds : e.job = j /\ e.feed = f /\ Member(j, f)
      <4>1. task[1] \in 1..Len(requests.log) /\ e \in ResultEntries
        BY <3>3 DEF TypeOK, WorkerTypeOK
      <4>2. e.job \in Jobs /\ e.feed \in Feeds BY <4>1 DEF ResultEntries
      <4>3. e.job = requests.log[task[1]].job /\ e.feed \in FeedsIn(task[1])
        BY <3>3 DEF FetchedInv
      <4> QED BY <4>1, <4>2, <4>3 DEF MembersInv
    <3> QED BY <2>1, <3>1, <3>2, <3>3 DEF ResultOrigin
  <2>3. PICK j \in Jobs, f \in Feeds : e.job = j /\ e.feed = f /\ Member(j, f) BY <2>2
  <2>4. Member(j, f)' BY <1>1, <2>3, MemberStable
  <2> QED BY <2>3, <2>4
<1> QED BY <1>2, <1>3, <1>4 DEF MembersInv

-------------------------------------------------------------------------------
(* db_manager: the message in hand, and what its XACK means.               *)

\* There is one next message of a read.
LEMMA NextIsUnique ==
  ASSUME TypeOK, NEW m, NEW n, IsNext(m), IsNext(n)
  PROVE  m = n
<1>1. m \in inbox /\ n \in inbox BY DEF IsNext
<1>2. /\ m = <<m[1], m[2]>> /\ n = <<n[1], n[2]>>
      /\ m[1] \in Kinds /\ n[1] \in Kinds
      /\ m[2] \in 1..Len(streams[m[1]].log) /\ n[2] \in 1..Len(streams[n[1]].log)
  BY <1>1 DEF TypeOK, ConsumerTypeOK
<1>3. m[2] \in Int /\ n[2] \in Int BY <1>2
<1>4. Rank(m[1]) \in Int /\ Rank(n[1]) \in Int BY DEF Rank
<1>5. m[1] = n[1] /\ m[2] = n[2] BY <1>1, <1>3, <1>4 DEF IsNext
<1> QED BY <1>2, <1>5

\* The entries of the result streams stay what they are.
LEMMA EntryStable ==
  ASSUME TypeOK, \A kind \in Kinds : Extends(streams[kind].log, streams'[kind].log),
         NEW m \in inbox
  PROVE  Entry(m)' = Entry(m)
<1>1. m[1] \in Kinds /\ m[2] \in 1..Len(streams[m[1]].log) BY InboxFacts
<1> QED BY <1>1 DEF Entry, Extends

\* When the XACK of a message is due its row is committed, or its feed is gone.
LEMMA AckingStep ==
  ASSUME TypeOK, TypeOK', MembersInv, AckingInv, TablesStep, InboxStep,
         \A kind \in Kinds : Extends(streams[kind].log, streams'[kind].log)
  PROVE  AckingInv'
<1> SUFFICES ASSUME acking', NEW n \in inbox', IsNext(n)', Entry(n)'.form = "result",
                    Entry(n)'.feed \in feeds'
             PROVE  results'[Entry(n)'.job][Entry(n)'.feed] # "none"
  BY DEF AckingInv
<1>1. acking \in BOOLEAN /\ (acking => inbox # {}) BY DEF TypeOK, ConsumerTypeOK
<1>2. CASE UNCHANGED <<inbox, acking>>
  <2>1. IsNext(n) /\ n \in inbox /\ Entry(n)' = Entry(n) BY <1>2, EntryStable DEF IsNext
  <2>2. Entry(n) \in ResultEntries BY <2>1, InboxFacts
  <2>3. Entry(n).job \in Jobs /\ Entry(n).feed \in Feeds BY <2>2 DEF ResultEntries
  <2>4. Entry(n).feed \in feeds BY <2>1, FeedsShrink
  <2>5. results[Entry(n).job][Entry(n).feed] # "none" BY <1>2, <2>1, <2>4 DEF AckingInv
  <2> QED BY <2>1, <2>3, <2>5, ResultStable
<1>3. ASSUME NEW m \in inbox, inbox' = inbox, IsNext(m) PROVE n = m
  <2>1. IsNext(n) BY <1>3 DEF IsNext
  <2> QED BY <1>3, <2>1, NextIsUnique
<1>4. ASSUME NEW m \in inbox, ConsumerInvalid(m)
      PROVE  results'[Entry(n)'.job][Entry(n)'.feed] # "none"
  <2>1. n = m BY <1>3, <1>4 DEF ConsumerInvalid
  <2>2. Entry(n)'.form = "invalid" BY <1>4, <2>1, EntryStable DEF ConsumerInvalid
  <2> QED BY <2>2
<1>5. ASSUME NEW m \in inbox, ConsumerDuplicate(m)
      PROVE  results'[Entry(n)'.job][Entry(n)'.feed] # "none"
  <2>1. n = m /\ Entry(n)' = Entry(m) BY <1>3, <1>5, EntryStable DEF ConsumerDuplicate
  <2>2. Entry(m) \in ResultEntries BY <2>1, InboxFacts
  <2>3. Entry(m).job \in Jobs /\ Entry(m).feed \in Feeds BY <2>2 DEF ResultEntries
  <2>4. Member(Entry(m).job, Entry(m).feed) BY <2>1, InboxFacts DEF MembersInv, Entry
  <2>5. results[Entry(m).job][Entry(m).feed] # "none"
    BY <1>5, <2>4 DEF ConsumerDuplicate, IsNew, Member
  <2> QED BY <2>1, <2>3, <2>5, ResultStable
<1>6. ASSUME NEW m \in inbox, ConsumerPersist(m)
      PROVE  results'[Entry(n)'.job][Entry(n)'.feed] # "none"
  <2>1. n = m /\ Entry(n)' = Entry(m) BY <1>3, <1>6, EntryStable DEF ConsumerPersist
  <2>2. /\ Entry(m).job \in Jobs /\ Entry(m).feed \in Feeds /\ Entry(m).status # "none"
        /\ results'[Entry(m).job][Entry(m).feed] = Entry(m).status
    BY <1>6, PersistFacts DEF ResultEntries
  <2> QED BY <2>1, <2>2
<1>7. ASSUME NEW m \in inbox, ConsumerRollback(m) PROVE FALSE
  BY <1>1, <1>7 DEF ConsumerRollback
<1>8. ASSUME NEW o \in CommandOutcomes(MaxAttempts), ConsumerRead(o) PROVE FALSE
  BY <1>1, <1>8 DEF ConsumerRead
<1>9. ASSUME NEW m \in inbox, NEW o \in CommandOutcomes(MaxAttempts), ConsumerAck(m, o)
      PROVE  FALSE
  BY <1>9 DEF ConsumerAck
<1>10. CASE ConsumerCrash BY <1>10 DEF ConsumerCrash
<1> QED BY <1>2, <1>4, <1>5, <1>6, <1>7, <1>8, <1>9, <1>10 DEF InboxStep

\* The invariant of both services holds at the start.
LEMMA PipelineInit == Init => PipelineInv
<1> SUFFICES ASSUME Init PROVE PipelineInv OBVIOUS
<1>1. WorkerInv BY WorkerInvariant
<1>2. /\ feeds = Feeds /\ jobs = [j \in Jobs |-> NoJob]
      /\ results = [j \in Jobs |-> [f \in Feeds |-> "none"]]
      /\ requests = EmptyStream /\ streams = [k \in Kinds |-> EmptyStream]
      /\ enqueue = [j \in Jobs |-> [pc |-> "idle", ingest |-> FALSE, feeds |-> NoFeeds, left |-> {}]]
      /\ acking = FALSE
  BY DEF Init, SharedInit, EnqueueInit, ConsumerInit
<1>3. Len(requests.log) = 0 /\ \A kind \in Kinds : Len(streams[kind].log) = 0 /\ streams[kind].acked = {}
  BY <1>2 DEF EmptyStream
<1>4. JobRowsInv
  <2>1. ASSUME NEW j \in Jobs PROVE JobRowsOf(j)
    <3>1. jobs[j] = NoJob /\ enqueue[j].pc = "idle" /\ ResultsOf(j) = {} BY <1>2 DEF ResultsOf
    <3>2. Cardinality({}) = 0 BY FS_EmptySet
    <3> QED BY <3>1, <3>2 DEF JobRowsOf, NoJob
  <2> QED BY <2>1 DEF JobRowsInv, JobRowsOf
<1>5. MembersInv BY <1>2, <1>3 DEF MembersInv
<1>6. AckingInv BY <1>2 DEF AckingInv
<1>7. AckedResultsArePersisted BY <1>3 DEF AckedResultsArePersisted
<1> QED BY <1>1, <1>4, <1>5, <1>6, <1>7 DEF PipelineInv

\* Every step keeps it.
LEMMA PipelineStep ==
  ASSUME PipelineInv, [Next]_vars
  PROVE  PipelineInv'
<1>1. /\ WorkerInv /\ TypeOK /\ FetchedInv /\ JobRowsInv /\ MembersInv /\ AckingInv
      /\ AckedResultsArePersisted
  BY DEF PipelineInv, WorkerInv
<1>2. WorkerInv' BY <1>1, WorkerInvariant
<1>3. TypeOK' BY <1>2 DEF WorkerInv
<1>4. Writers BY StepWriters
<1>5. TablesStep /\ RequestStep /\ StreamsStep /\ InboxStep BY <1>4 DEF Writers
<1>6. \A kind \in Kinds :
        /\ Extends(streams[kind].log, streams'[kind].log)
        /\ \/ streams'[kind].acked = streams[kind].acked
           \/ \E m \in inbox, o \in CommandOutcomes(MaxAttempts) :
                /\ ConsumerAck(m, o) /\ m[1] = kind
                /\ streams'[kind].acked \subseteq streams[kind].acked \cup {m[2]}
  BY <1>1, <1>5, StreamsGrow
<1>7. JobRowsInv' BY <1>1, <1>5, JobRowsStep
<1>8. MembersInv' BY <1>1, <1>4, MembersStep
<1>9. AckingInv' BY <1>1, <1>3, <1>5, <1>6, AckingStep
<1>10. AckedResultsArePersisted'
  <2> SUFFICES ASSUME NEW kind \in Kinds, NEW i \in streams'[kind].acked,
                      streams'[kind].log[i].form = "result", streams'[kind].log[i].feed \in feeds'
               PROVE  results'[streams'[kind].log[i].job][streams'[kind].log[i].feed] # "none"
    BY DEF AckedResultsArePersisted
  <2>1. \/ i \in streams[kind].acked
        \/ \E m \in inbox, o \in CommandOutcomes(MaxAttempts) :
             ConsumerAck(m, o) /\ m[1] = kind /\ m[2] = i
    BY <1>6
  <2>2. i \in 1..Len(streams[kind].log)
    <3>1. CASE i \in streams[kind].acked BY <1>1, <3>1 DEF TypeOK, StreamsTypeOK, WellFormed
    <3>2. CASE i \notin streams[kind].acked BY <1>1, <2>1, <3>2, InboxFacts
    <3> QED BY <3>1, <3>2
  <2> DEFINE e == streams[kind].log[i]
  <2>3. streams'[kind].log[i] = e BY <1>6, <2>2 DEF Extends
  <2>4. e \in ResultEntries BY <1>1, <2>2, <2>3, ResultEntryFacts
  <2>5. e.job \in Jobs /\ e.feed \in Feeds BY <2>4 DEF ResultEntries
  <2>6. e.feed \in feeds BY <1>1, <1>5, <2>3, FeedsShrink
  <2>7. results[e.job][e.feed] # "none"
    <3>1. CASE i \in streams[kind].acked BY <1>1, <2>3, <2>6, <3>1 DEF AckedResultsArePersisted
    <3>2. ASSUME NEW m \in inbox, NEW o \in CommandOutcomes(MaxAttempts),
                 ConsumerAck(m, o), m[1] = kind, m[2] = i
          PROVE  results[e.job][e.feed] # "none"
      <4>1. IsNext(m) /\ acking /\ Entry(m) = e BY <3>2 DEF ConsumerAck, Entry
      <4> QED BY <1>1, <2>3, <2>6, <4>1 DEF AckingInv
    <3> QED BY <2>1, <3>1, <3>2
  <2> HIDE DEF e
  <2> QED BY <1>1, <1>5, <2>3, <2>5, <2>7, ResultStable
<1> QED BY <1>2, <1>7, <1>8, <1>9, <1>10 DEF PipelineInv

\* ack_worker_result: a result message is acknowledged only when its row is
\* committed, or its feed has been deleted.
THEOREM AckedResultsPersisted == Spec => []AckedResultsArePersisted
<1>1. PipelineInv => AckedResultsArePersisted BY DEF PipelineInv
<1>2. PipelineInv /\ [Next]_vars => PipelineInv' BY PipelineStep
<1> QED BY <1>1, <1>2, PipelineInit, PTL DEF Spec

\* GET /jobs/{id} and GET /jobs/{id}/feeds never disagree about how many feeds
\* of a job are through.
THEOREM ReadsAgree == Spec => []StatusReadsAgree
<1>1. PipelineInv => StatusReadsAgree
  <2> SUFFICES ASSUME PipelineInv, NEW j \in Jobs
               PROVE  /\ StatusRead(j).feeds_processed =
                           Cardinality({f \in jobs[j].feeds : FeedRead(j, f) # "pending"})
                      /\ StatusRead(j).feeds_processed <= StatusRead(j).feeds_total
    BY DEF StatusReadsAgree
  <2>1. TypeOK /\ JobRowsOf(j) BY DEF PipelineInv, WorkerInv, JobRowsInv, JobRowsOf
  <2>2. jobs[j].feeds \subseteq Feeds /\ jobs[j].feed_count \in Nat
        /\ \A f \in Feeds : results[j][f] \in ResultStatuses
    BY <2>1 DEF TypeOK, TablesTypeOK, JobRows, JobFeedRows
  <2>3. ResultsOf(j) = {f \in jobs[j].feeds : FeedRead(j, f) # "pending"}
    BY <2>1, <2>2 DEF JobRowsOf, ResultsOf, FeedRead, ResultStatuses
  <2>4. IsFiniteSet(jobs[j].feeds) BY <2>2, FeedsAssumption, FS_Subset
  <2>5. /\ Cardinality(ResultsOf(j)) <= Cardinality(jobs[j].feeds)
        /\ Cardinality(ResultsOf(j)) \in Nat /\ Cardinality(jobs[j].feeds) \in Nat
    BY <2>1, <2>4, FS_Subset, FS_CardinalityType DEF JobRowsOf
  <2>6. Cardinality(jobs[j].feeds) <= jobs[j].feed_count BY <2>1 DEF JobRowsOf
  <2>7. Cardinality(ResultsOf(j)) <= jobs[j].feed_count BY <2>2, <2>5, <2>6
  <2>8. /\ StatusRead(j).feeds_processed = Cardinality(ResultsOf(j))
        /\ StatusRead(j).feeds_total = jobs[j].feed_count
    BY DEF StatusRead
  <2> QED BY <2>3, <2>7, <2>8
<1>2. PipelineInv /\ [Next]_vars => PipelineInv' BY PipelineStep
<1> QED BY <1>1, <1>2, PipelineInit, PTL DEF Spec
===============================================================================
