--------------------------- MODULE SourcePartitions ----------------------------
(***************************************************************************)
(* The partitioned tables rss_sources and rss_source_feeds, with the two   *)
(* transactions that write them: db_manager's upsert of a source, and the  *)
(* backend's repartitioning, which copies the default partitions to        *)
(* temporary tables, empties them, creates the missing weekly partitions   *)
(* and inserts the copies again.  Both run under READ COMMITTED: every     *)
(* statement sees what is committed when it starts.                        *)
(*                                                                         *)
(* A source is known by its (url, published_at), an element of Keys; a     *)
(* link by the source it joins to its feed.  The content of a row is the   *)
(* number of the write it comes from.  PostgreSQL's locks are those that   *)
(* decide something here: a row written by one transaction makes a writer  *)
(* of the same row wait, and CREATE TABLE ... PARTITION OF takes the       *)
(* parent exclusively, until its transaction ends.                         *)
(***************************************************************************)
EXTENDS Naturals, FiniteSets, FiniteSetsExt

CONSTANTS
  Keys,        \* the (url, published_at) of sources
  Week,        \* date_trunc('week', published_at); 0 for the fallback of 1970
  Published,   \* published_at: two keys may share it
  MaxWrites,   \* bound: upserts
  MaxRuns      \* bound: repartition requests

ASSUME KeysAssumption == IsFiniteSet(Keys)
ASSUME WeekAssumption == Week \in [Keys -> Nat]
ASSUME PublishedAssumption == DOMAIN Published = Keys
ASSUME BoundsAssumption == MaxWrites \in Nat /\ MaxRuns \in Nat

Fallback == 0
NoRow == [id |-> 0, write |-> 0, partition |-> "none"]
NoRows == [k \in {} |-> NoRow]

VARIABLES
  sources,   \* rss_sources as committed
  links,     \* rss_source_feeds as committed
  weeks,     \* the weekly partitions of both tables
  sequence,  \* the last value of rss_sources_id_seq
  repart,    \* the repartitioning transaction
  writer,    \* the transaction of db_manager
  writes,
  runs,
  mixed      \* a repartitioning that overlaps an upsert set the sequence; for the properties

vars == <<sources, links, weeks, sequence, repart, writer, writes, runs, mixed>>

NoRepart == [phase |-> "idle", buffer |-> NoRows, linkBuffer |-> {}, deleted |-> {},
             unlinked |-> {}, todo |-> {}, created |-> {}, restored |-> NoRows,
             old |-> NoRows, oldLinks |-> {}, alone |-> TRUE]
NoWriter == [phase |-> "idle"]

Init ==
  /\ sources = [k \in Keys |-> NoRow]
  /\ links = {}
  /\ weeks = {}
  /\ sequence = 0
  /\ repart = NoRepart
  /\ writer = NoWriter
  /\ writes = 0
  /\ runs = 0
  /\ mixed = FALSE

Stored == {k \in Keys : sources[k] # NoRow}
DefaultRows == {k \in Stored : sources[k].partition = "default"}

\* Where a row of the key is routed.
PartitionFor(k, existing) == IF Week[k] \in existing THEN "week" ELSE "default"

-------------------------------------------------------------------------------
(* upsert_sources_for_feed, for one source.                                *)

ParentLocked == repart.created # {}

\* The INSERT starts: it locks the parent against DDL and draws an id.
UpsertBegins(k) ==
  /\ writer.phase = "idle"
  /\ writes < MaxWrites
  /\ ~ParentLocked
  /\ sequence' = sequence + 1
  /\ writes' = writes + 1
  /\ writer' = [phase |-> "insert", key |-> k, id |-> sequence + 1]
  /\ UNCHANGED <<sources, links, weeks, repart, runs, mixed>>

\* The key's row is deleted or inserted by the repartitioning: the INSERT waits.
RowLocked(k) == k \in repart.deleted

\* Mutant: the conflicting row is replaced rather than updated.
UpsertedRow_Replaced(k, id) ==
  [id |-> id, write |-> writes, partition |-> PartitionFor(k, weeks)]

\* ON CONFLICT (url, published_at) DO UPDATE, else a row with the drawn id.
UpsertedRow(k, id) ==
  IF k \in Stored THEN [sources[k] EXCEPT !.write = writes]
  ELSE [id |-> id, write |-> writes, partition |-> PartitionFor(k, weeks)]

\* The primary key (id, published_at) refuses an id drawn twice.
DuplicateKey(k, id) ==
  k \notin Stored /\ \E j \in Stored : Published[j] = Published[k] /\ sources[j].id = id

UpsertRow ==
  /\ writer.phase = "insert"
  /\ ~RowLocked(writer.key)
  /\ ~DuplicateKey(writer.key, writer.id)
  /\ writer' = [writer EXCEPT !.phase = "commit"]
  /\ UNCHANGED <<sources, links, weeks, sequence, repart, writes, runs, mixed>>

\* The link, which waits when the repartitioning has deleted it, and the commit.
UpsertCommits ==
  /\ writer.phase = "commit"
  /\ writer.key \notin repart.unlinked
  /\ sources' = [sources EXCEPT ![writer.key] = UpsertedRow(writer.key, writer.id)]
  /\ links' = links \cup {writer.key}
  /\ writer' = NoWriter
  /\ repart' = [repart EXCEPT !.alone = (repart.phase = "idle")]
  /\ UNCHANGED <<weeks, sequence, writes, runs, mixed>>

\* A constraint, a deadlock, a failure: rolled back, but the id stays drawn.
UpsertAborts ==
  /\ writer.phase # "idle"
  /\ writer' = NoWriter
  /\ UNCHANGED <<sources, links, weeks, sequence, repart, writes, runs, mixed>>

-------------------------------------------------------------------------------
(* repartition_default_sources_by_published_at.                            *)

Goto(from, to) ==
  /\ repart.phase = from
  /\ repart' = [repart EXCEPT !.phase = to]

\* CREATE TEMP TABLE ... AS SELECT ... FROM rss_sources_default.
BufferSources ==
  /\ repart.phase = "idle"
  /\ runs < MaxRuns
  /\ runs' = runs + 1
  /\ repart' = [NoRepart EXCEPT !.phase = "links",
                                !.buffer = [k \in DefaultRows |-> sources[k]],
                                !.old = sources, !.oldLinks = links]
  /\ UNCHANGED <<sources, links, weeks, sequence, writer, writes, mixed>>

\* Mutant: the links are copied after they were deleted.
BufferLinks_Late ==
  /\ repart.phase = "links"
  /\ repart' = [repart EXCEPT !.phase = "clear links", !.linkBuffer = {}]
  /\ UNCHANGED <<sources, links, weeks, sequence, writer, writes, runs, mixed>>

\* CREATE TEMP TABLE ... AS SELECT ... FROM rss_source_feeds_default.
BufferLinks ==
  /\ repart.phase = "links"
  /\ repart' = [repart EXCEPT !.phase = "clear links", !.linkBuffer = links \cap DefaultRows]
  /\ UNCHANGED <<sources, links, weeks, sequence, writer, writes, runs, mixed>>

\* DELETE FROM rss_source_feeds_default.
ClearLinks ==
  /\ repart.phase = "clear links"
  /\ repart' = [repart EXCEPT !.phase = "clear", !.unlinked = links \cap DefaultRows]
  /\ UNCHANGED <<sources, links, weeks, sequence, writer, writes, runs, mixed>>

\* DELETE FROM rss_sources_default, with the cascade to the links; it waits for
\* a row an upsert has updated.
ClearSources ==
  /\ repart.phase = "clear"
  /\ ~(writer.phase = "commit" /\ writer.key \in DefaultRows)
  /\ repart' = [repart EXCEPT !.phase = "weeks", !.deleted = DefaultRows,
                              !.unlinked = @ \cup (links \cap DefaultRows)]
  /\ UNCHANGED <<sources, links, weeks, sequence, writer, writes, runs, mixed>>

\* _list_week_starts_for_all_sources.
ListWeeks ==
  /\ repart.phase = "weeks"
  /\ repart' = [repart EXCEPT !.phase = "create",
       !.todo = {Week[k] : k \in (Stored \ repart.deleted) \cup DOMAIN repart.buffer}
                \ {Fallback}]
  /\ UNCHANGED <<sources, links, weeks, sequence, writer, writes, runs, mixed>>

\* _create_weekly_partition_pair for the next week.  A new partition takes the
\* parent exclusively; it is refused when the default partition has rows of
\* the week.
CreatePartition ==
  /\ repart.phase = "create"
  /\ repart.todo # {}
  /\ LET week == Min(repart.todo)
     IN  /\ week \notin weeks => /\ writer.phase = "idle"
                                 /\ \A k \in DefaultRows \ repart.deleted : Week[k] # week
         /\ repart' = [repart EXCEPT !.todo = @ \ {week},
                                     !.created = IF week \in weeks THEN @ ELSE @ \cup {week}]
  /\ UNCHANGED <<sources, links, weeks, sequence, writer, writes, runs, mixed>>

\* Mutant: INSERT INTO rss_sources_default.
RestoreSources_InDefault ==
  /\ repart.phase = "create"
  /\ repart.todo = {}
  /\ repart' = [repart EXCEPT !.phase = "restore links", !.restored = repart.buffer]
  /\ UNCHANGED <<sources, links, weeks, sequence, writer, writes, runs, mixed>>

\* _restore_sources_from_buffer: the rows are routed again.
RestoreSources ==
  /\ repart.phase = "create"
  /\ repart.todo = {}
  /\ repart' = [repart EXCEPT !.phase = "restore links",
       !.restored = [k \in DOMAIN repart.buffer |->
          [repart.buffer[k] EXCEPT !.partition = PartitionFor(k, weeks \cup repart.created)]]]
  /\ UNCHANGED <<sources, links, weeks, sequence, writer, writes, runs, mixed>>

\* What the transaction sees of rss_sources.
Visible ==
  [k \in Keys |-> IF k \in DOMAIN repart.restored THEN repart.restored[k]
                  ELSE IF k \in repart.deleted THEN NoRow ELSE sources[k]]

\* _restore_source_feeds_from_buffer: the foreign key wants the source.
RestoreLinks ==
  /\ \A k \in repart.linkBuffer : Visible[k] # NoRow
  /\ Goto("restore links", "sequence")
  /\ UNCHANGED <<sources, links, weeks, sequence, writer, writes, runs, mixed>>

\* Mutant: setval(..., false), the value itself is given out next.
SyncSequence_NotCalled ==
  /\ Goto("sequence", "commit")
  /\ sequence' = Max({0} \cup {Visible[k].id - 1 : k \in {k \in Keys : Visible[k] # NoRow}})
  /\ mixed' = (mixed \/ writer.phase # "idle" \/ ~repart.alone)
  /\ UNCHANGED <<sources, links, weeks, writer, writes, runs>>

\* _sync_sources_sequence: setval takes effect at once and is not rolled back.
SyncSequence ==
  /\ Goto("sequence", "commit")
  /\ sequence' = Max({0} \cup {Visible[k].id : k \in Keys})
  /\ mixed' = (mixed \/ writer.phase # "idle" \/ ~repart.alone)
  /\ UNCHANGED <<sources, links, weeks, writer, writes, runs>>

RepartCommits ==
  /\ repart.phase = "commit"
  /\ sources' = Visible
  /\ links' = (links \ repart.unlinked) \cup repart.linkBuffer
  /\ weeks' = weeks \cup repart.created
  /\ repart' = NoRepart
  /\ UNCHANGED <<sequence, writer, writes, runs, mixed>>

\* A refused partition or link, a deadlock with an upsert, a failure.
RepartAborts ==
  /\ repart.phase # "idle"
  /\ repart' = NoRepart
  /\ UNCHANGED <<sources, links, weeks, sequence, writer, writes, runs, mixed>>

Next ==
  \/ \E k \in Keys : UpsertBegins(k)
  \/ UpsertRow
  \/ UpsertCommits
  \/ UpsertAborts
  \/ BufferSources
  \/ BufferLinks
  \/ ClearLinks
  \/ ClearSources
  \/ ListWeeks
  \/ CreatePartition
  \/ RestoreSources
  \/ RestoreLinks
  \/ SyncSequence
  \/ RepartCommits
  \/ RepartAborts

Spec == Init /\ [][Next]_vars

-------------------------------------------------------------------------------

Rows == [id : Nat, write : Nat, partition : {"default", "week"}]

TypeOK ==
  /\ sources \in [Keys -> Rows \cup {NoRow}]
  /\ links \subseteq Stored
  /\ \A k \in Stored : sources[k].partition = PartitionFor(k, weeks)
  /\ repart.deleted \subseteq DefaultRows
  /\ DOMAIN repart.buffer \subseteq Keys
  /\ sequence \in Nat

RepartEnds == repart.phase # "idle" /\ repart'.phase = "idle"

\* Repartitioning with no upsert in between loses and changes nothing: every
\* row keeps its id, content and link although it is deleted and inserted
\* again, and the default partition is left with the rows without a date.
RepartitionKeepsSources ==
  [][ RepartEnds /\ repart.alone /\ <<sources, links>>' # <<sources, links>> =>
        /\ links' = links
        /\ \A k \in Keys : /\ sources'[k].id = sources[k].id
                           /\ sources'[k].write = sources[k].write
        /\ \A k \in Stored :
             sources'[k].partition = "default" => Week[k] = Fallback ]_vars

\* Whatever upserts it overlaps with, a repartitioning keeps the
\* id and the link of every source that was there when it began: only what is
\* committed while it runs is in danger.
OldSourcesSurvive ==
  [][ RepartEnds =>
        \A k \in Keys : repart.old[k] # NoRow =>
          /\ sources'[k].id = repart.old[k].id
          /\ k \in repart.oldLinks => k \in links' ]_vars

\* The next id is fresh as long as no repartitioning that overlapped an upsert
\* set the sequence: also after conflicting inserts that used up ids, and
\* after repartitionings that were rolled back.
NextIdIsFresh ==
  ~mixed => \A k \in Stored : sources[k].id <= sequence
===============================================================================
