------------------------- MODULE SourcePartitionsProofs -------------------------
(***************************************************************************)
(* The repartitioning of the sources beside the upserts of db_manager, for *)
(* any sources, weeks and bounds.                                          *)
(***************************************************************************)
EXTENDS SourcePartitions, FiniteSetTheorems, WellFoundedInduction, TLAPS

-------------------------------------------------------------------------------
(* The largest of finitely many ids.                                       *)

\* A finite set of naturals has an upper bound.
LEMMA Bounded ==
  ASSUME NEW S \in SUBSET Nat, IsFiniteSet(S)
  PROVE  \E b \in Nat : \A x \in S : x <= b
<1> DEFINE Unbounded(X) == \A b \in Nat : \E x \in X : ~ (x <= b)
           T == {n \in Nat : \E X \in SUBSET Nat : IsFiniteSet(X) /\ Cardinality(X) = n /\ Unbounded(X)}
<1> SUFFICES ASSUME Unbounded(S) PROVE FALSE OBVIOUS
<1>1. T # {} /\ T \subseteq Nat BY FS_CardinalityType
<1>2. PICK n \in T : \A m \in T : ~ (<<m, n>> \in OpToRel(<, Nat))
  <2> HIDE DEF T
  <2> QED BY <1>1, NatLessThanWellFounded, WFMin
<1>3. \A m \in T : ~ (m < n) BY <1>1, <1>2 DEF OpToRel
<1>4. PICK X \in SUBSET Nat : IsFiniteSet(X) /\ Cardinality(X) = n /\ Unbounded(X) OBVIOUS
<1>5. PICK x \in X : TRUE BY <1>4
<1>6. IsFiniteSet(X \ {x}) /\ Cardinality(X \ {x}) = Cardinality(X) - 1 BY <1>4, <1>5, FS_RemoveElement
<1>7. Cardinality(X \ {x}) \in Nat BY <1>6, FS_CardinalityType
<1>8. Cardinality(X \ {x}) \notin T BY <1>1, <1>3, <1>4, <1>6, <1>7
<1>9. ~ Unbounded(X \ {x}) BY <1>6, <1>7, <1>8
<1>10. PICK b \in Nat : \A y \in X \ {x} : y <= b BY <1>9
<1>11. PICK c \in Nat : b <= c /\ x <= c BY <1>5
<1>12. \A y \in X : y <= c BY <1>10, <1>11
<1> QED BY <1>4, <1>12

\* Max of a finite non-empty set of naturals.
LEMMA MaxFacts ==
  ASSUME NEW S \in SUBSET Nat, IsFiniteSet(S), S # {}
  PROVE  Max(S) \in S /\ \A x \in S : x <= Max(S)
<1> DEFINE B == {b \in Nat : \A x \in S : x <= b}
<1>1. B # {} /\ B \subseteq Nat BY Bounded
<1>2. PICK m \in B : \A b \in B : ~ (<<b, m>> \in OpToRel(<, Nat))
  <2> HIDE DEF B
  <2> QED BY <1>1, NatLessThanWellFounded, WFMin
<1>3. \A b \in B : ~ (b < m) BY <1>1, <1>2 DEF OpToRel
<1>4. m \in S
  <2> SUFFICES ASSUME m \notin S PROVE FALSE OBVIOUS
  <2>1. \A x \in S : x < m OBVIOUS
  <2>2. m > 0
    <3>1. PICK x \in S : TRUE OBVIOUS
    <3> QED BY <2>1, <3>1
  <2>3. m - 1 \in B BY <2>1, <2>2
  <2> QED BY <1>3, <2>3
<1>5. \E x \in S : \A y \in S : x >= y BY <1>4
<1> QED BY <1>5 DEF Max

-------------------------------------------------------------------------------
(* The inductive invariant.  What is committed cannot tell whether a       *)
(* repartitioning in progress will restore it: the invariant ties the      *)
(* copies the transaction holds, and what it has deleted and created but   *)
(* not committed, to the rows that were there when it began.               *)

\* The phases after each statement.
Linked == {"clear links", "clear", "weeks", "create", "restore links", "sequence", "commit"}
Cleared == {"weeks", "create", "restore links", "sequence", "commit"}
Creating == {"create", "restore links", "sequence", "commit"}
Restored == {"restore links", "sequence", "commit"}

\* What was in the default partition when the transaction began.
OldDefault == {k \in Keys : repart.old[k] # NoRow /\ repart.old[k].partition = "default"}

\* repart has its fields.
ShapeInv ==
  repart = [phase |-> repart.phase, buffer |-> repart.buffer, linkBuffer |-> repart.linkBuffer,
            deleted |-> repart.deleted, unlinked |-> repart.unlinked, todo |-> repart.todo,
            created |-> repart.created, restored |-> repart.restored, old |-> repart.old,
            oldLinks |-> repart.oldLinks, alone |-> repart.alone]

\* The upsert holds an id that was drawn.
WriterInv ==
  /\ writes \in Nat
  /\ \/ writer = NoWriter
     \/ /\ writer = [phase |-> writer.phase, key |-> writer.key, id |-> writer.id]
        /\ writer.phase \in {"insert", "commit"} /\ writer.key \in Keys /\ writer.id \in Nat
        /\ ~mixed => writer.id <= sequence

\* No old row has gone, moved or changed its id since; the copy is of them.
OldInv ==
  /\ repart.old \in [Keys -> Rows \cup {NoRow}]
  /\ \A k \in Keys : repart.old[k] # NoRow =>
       /\ sources[k] # NoRow /\ sources[k].id = repart.old[k].id
       /\ sources[k].partition = repart.old[k].partition
  /\ repart.oldLinks \subseteq links
  /\ repart.alone => sources = repart.old /\ links = repart.oldLinks
  /\ repart.buffer = [k \in OldDefault |-> repart.old[k]]

\* The copy of the links, and the links that are deleted.
LinksInv ==
  /\ repart.linkBuffer \subseteq Keys
  /\ repart.unlinked \subseteq links \cap DefaultRows
  /\ repart.phase \in Linked =>
       /\ repart.oldLinks \cap OldDefault \subseteq repart.linkBuffer
       /\ repart.alone => repart.linkBuffer = links \cap DefaultRows
  /\ repart.phase \in {"sequence", "commit"} => \A k \in repart.linkBuffer : Visible[k] # NoRow

\* What is deleted covers the old default rows, with their links, and no upsert
\* is past its lock.
DeletedInv ==
  /\ repart.phase \notin Cleared => repart.deleted = {}
  /\ repart.phase \in Cleared =>
       /\ OldDefault \subseteq repart.deleted
       /\ repart.deleted \cap links \subseteq repart.unlinked
  /\ writer.phase = "commit" => writer.key \notin repart.deleted

\* The new partitions have no rows waiting in the default partition, and cover
\* the weeks of all sources.
CreatedInv ==
  /\ repart.phase \notin Creating => repart.created = {}
  /\ repart.phase \in Restored => repart.todo = {}
  /\ repart.created # {} =>
       /\ writer.phase = "idle"
       /\ \A k \in DefaultRows \ repart.deleted : Week[k] \notin repart.created
  /\ (repart.phase \in Creating /\ repart.alone) =>
       \A k \in Stored : Week[k] = Fallback \/ Week[k] \in repart.todo \cup weeks \cup repart.created

\* The restored rows are the old ones, routed again.
RestoredInv ==
  repart.restored =
    IF repart.phase \in Restored
      THEN [k \in OldDefault |->
              [repart.old[k] EXCEPT !.partition = PartitionFor(k, weeks \cup repart.created)]]
      ELSE NoRows

PartitionsInv ==
  /\ TypeOK
  /\ ShapeInv
  /\ WriterInv
  /\ repart.phase = "idle" => repart = NoRepart
  /\ repart.phase # "idle" => OldInv /\ LinksInv /\ DeletedInv /\ CreatedInv /\ RestoredInv
  /\ mixed \in BOOLEAN
  /\ NextIdIsFresh
  /\ repart.phase \in {"idle", "links"} \cup Linked

-------------------------------------------------------------------------------
(* Steps of the repartitioning.                                            *)

\* A step within the transaction that leaves its first copy alone.
LEMMA WithinTransaction ==
  ASSUME PartitionsInv, repart.phase # "idle",
         UNCHANGED <<sources, links, weeks, sequence, writer, writes, mixed>>,
         UNCHANGED <<repart.old, repart.oldLinks, repart.alone, repart.buffer>>
  PROVE  /\ Stored' = Stored /\ DefaultRows' = DefaultRows /\ OldDefault' = OldDefault
         /\ WriterInv' /\ NextIdIsFresh' /\ OldInv'
         /\ repart'.deleted \subseteq DefaultRows => TypeOK'
<1>1. Stored' = Stored /\ DefaultRows' = DefaultRows BY DEF Stored, DefaultRows
<1>2. OldDefault' = OldDefault BY DEF OldDefault
<1>3. WriterInv' BY DEF PartitionsInv, WriterInv
<1>4. NextIdIsFresh' BY <1>1 DEF PartitionsInv, NextIdIsFresh
<1>5. OldInv' BY <1>1, <1>2 DEF PartitionsInv, OldInv
<1>6. repart'.deleted \subseteq DefaultRows => TypeOK'
  BY <1>1 DEF PartitionsInv, TypeOK, PartitionFor
<1> QED BY <1>1, <1>2, <1>3, <1>4, <1>5, <1>6

\* CREATE TEMP TABLE ... AS SELECT ... FROM rss_sources_default.
LEMMA BufferSourcesStep == PartitionsInv /\ BufferSources => PartitionsInv'
<1> SUFFICES ASSUME PartitionsInv, BufferSources PROVE PartitionsInv' OBVIOUS
<1>1. /\ repart.phase = "idle" /\ repart = NoRepart
      /\ UNCHANGED <<sources, links, weeks, sequence, writer, writes, mixed>>
      /\ repart' = [NoRepart EXCEPT !.phase = "links", !.buffer = [k \in DefaultRows |-> sources[k]],
                                    !.old = sources, !.oldLinks = links]
  BY DEF BufferSources, PartitionsInv
<1>2. /\ repart'.phase = "links" /\ repart'.buffer = [k \in DefaultRows |-> sources[k]]
      /\ repart'.old = sources /\ repart'.oldLinks = links /\ repart'.linkBuffer = {}
      /\ repart'.deleted = {} /\ repart'.unlinked = {} /\ repart'.created = {}
      /\ repart'.restored = NoRows
      /\ ShapeInv'
  BY <1>1 DEF NoRepart, ShapeInv
<1>3. Stored' = Stored /\ DefaultRows' = DefaultRows BY <1>1 DEF Stored, DefaultRows
<1>4. OldDefault' = DefaultRows
  BY <1>2 DEF OldDefault, DefaultRows, Stored
<1>5. TypeOK'
  <2>1. DOMAIN repart'.buffer \subseteq Keys BY <1>2 DEF DefaultRows, Stored
  <2> QED BY <1>1, <1>2, <1>3, <2>1 DEF PartitionsInv, TypeOK, PartitionFor
<1>6. WriterInv' /\ NextIdIsFresh'
  BY <1>1, <1>3 DEF PartitionsInv, WriterInv, NextIdIsFresh
<1>7. OldInv'
  <2>1. sources \in [Keys -> Rows \cup {NoRow}] BY DEF PartitionsInv, TypeOK
  <2>2. repart'.buffer = [k \in OldDefault' |-> repart'.old[k]] BY <1>2, <1>4
  <2> QED BY <1>1, <1>2, <2>1, <2>2 DEF OldInv
<1>8. LinksInv' /\ DeletedInv' /\ CreatedInv' /\ RestoredInv'
  BY <1>2 DEF LinksInv, DeletedInv, CreatedInv, RestoredInv, Linked, Cleared, Creating, Restored
<1> QED BY <1>1, <1>2, <1>5, <1>6, <1>7, <1>8 DEF PartitionsInv

\* CREATE TEMP TABLE ... AS SELECT ... FROM rss_source_feeds_default.
LEMMA BufferLinksStep == PartitionsInv /\ BufferLinks => PartitionsInv'
<1> SUFFICES ASSUME PartitionsInv, BufferLinks PROVE PartitionsInv' OBVIOUS
<1>1. /\ ShapeInv /\ TypeOK /\ OldInv /\ LinksInv /\ DeletedInv /\ CreatedInv /\ RestoredInv
      /\ repart.phase = "links" /\ mixed \in BOOLEAN
      /\ UNCHANGED <<sources, links, weeks, sequence, writer, writes, mixed>>
      /\ repart' = [repart EXCEPT !.phase = "clear links", !.linkBuffer = links \cap DefaultRows]
  BY DEF BufferLinks, PartitionsInv
<1>2. /\ repart'.phase = "clear links" /\ repart'.linkBuffer = links \cap DefaultRows
      /\ UNCHANGED <<repart.old, repart.oldLinks, repart.alone, repart.buffer>>
      /\ UNCHANGED <<repart.deleted, repart.unlinked, repart.todo, repart.created, repart.restored>>
      /\ ShapeInv'
  BY <1>1 DEF ShapeInv
<1>3. /\ Stored' = Stored /\ DefaultRows' = DefaultRows /\ OldDefault' = OldDefault
      /\ WriterInv' /\ NextIdIsFresh' /\ OldInv' /\ TypeOK'
  BY <1>1, <1>2, WithinTransaction DEF TypeOK
<1>4. LinksInv'
  <2>1. repart'.oldLinks \cap OldDefault \subseteq links \cap DefaultRows
    BY <1>1, <1>2 DEF OldInv, OldDefault, DefaultRows, Stored
  <2>2. DefaultRows \subseteq Keys BY DEF DefaultRows, Stored
  <2>3. repart.unlinked \subseteq links \cap DefaultRows BY <1>1 DEF LinksInv
  <2> QED BY <1>1, <1>2, <1>3, <2>1, <2>2, <2>3 DEF LinksInv
<1>5. DeletedInv' BY <1>1, <1>2, <1>3 DEF DeletedInv, Cleared
<1>6. CreatedInv' BY <1>1, <1>2, <1>3 DEF CreatedInv, Creating, Restored
<1>7. RestoredInv' BY <1>1, <1>2 DEF RestoredInv, Restored
<1> QED BY <1>1, <1>2, <1>3, <1>4, <1>5, <1>6, <1>7 DEF PartitionsInv, Linked

\* DELETE FROM rss_source_feeds_default.
LEMMA ClearLinksStep == PartitionsInv /\ ClearLinks => PartitionsInv'
<1> SUFFICES ASSUME PartitionsInv, ClearLinks PROVE PartitionsInv' OBVIOUS
<1>1. /\ ShapeInv /\ TypeOK /\ OldInv /\ LinksInv /\ DeletedInv /\ CreatedInv /\ RestoredInv
      /\ repart.phase = "clear links" /\ mixed \in BOOLEAN
      /\ UNCHANGED <<sources, links, weeks, sequence, writer, writes, mixed>>
      /\ repart' = [repart EXCEPT !.phase = "clear", !.unlinked = links \cap DefaultRows]
  BY DEF ClearLinks, PartitionsInv
<1>2. /\ repart'.phase = "clear" /\ repart'.unlinked = links \cap DefaultRows
      /\ UNCHANGED <<repart.old, repart.oldLinks, repart.alone, repart.buffer>>
      /\ UNCHANGED <<repart.linkBuffer, repart.deleted, repart.todo, repart.created, repart.restored>>
      /\ ShapeInv'
  BY <1>1 DEF ShapeInv
<1>3. /\ Stored' = Stored /\ DefaultRows' = DefaultRows /\ OldDefault' = OldDefault
      /\ WriterInv' /\ NextIdIsFresh' /\ OldInv' /\ TypeOK'
  BY <1>1, <1>2, WithinTransaction DEF TypeOK
<1>4. LinksInv' BY <1>1, <1>2, <1>3 DEF LinksInv, Linked
<1>5. DeletedInv' BY <1>1, <1>2, <1>3 DEF DeletedInv, Cleared
<1>6. CreatedInv' BY <1>1, <1>2, <1>3 DEF CreatedInv, Creating, Restored
<1>7. RestoredInv' BY <1>1, <1>2 DEF RestoredInv, Restored
<1> QED BY <1>1, <1>2, <1>3, <1>4, <1>5, <1>6, <1>7 DEF PartitionsInv, Linked

\* DELETE FROM rss_sources_default waits for the upsert of one of its rows.
LEMMA ClearSourcesStep == PartitionsInv /\ ClearSources => PartitionsInv'
<1> SUFFICES ASSUME PartitionsInv, ClearSources PROVE PartitionsInv' OBVIOUS
<1>1. /\ ShapeInv /\ TypeOK /\ OldInv /\ LinksInv /\ DeletedInv /\ CreatedInv /\ RestoredInv
      /\ repart.phase = "clear" /\ mixed \in BOOLEAN
      /\ ~ (writer.phase = "commit" /\ writer.key \in DefaultRows)
      /\ UNCHANGED <<sources, links, weeks, sequence, writer, writes, mixed>>
      /\ repart' = [repart EXCEPT !.phase = "weeks", !.deleted = DefaultRows,
                                  !.unlinked = repart.unlinked \cup (links \cap DefaultRows)]
  BY DEF ClearSources, PartitionsInv
<1>2. /\ repart'.phase = "weeks" /\ repart'.deleted = DefaultRows
      /\ repart'.unlinked = repart.unlinked \cup (links \cap DefaultRows)
      /\ UNCHANGED <<repart.old, repart.oldLinks, repart.alone, repart.buffer>>
      /\ UNCHANGED <<repart.linkBuffer, repart.todo, repart.created, repart.restored>>
      /\ ShapeInv'
  BY <1>1 DEF ShapeInv
<1>3. /\ Stored' = Stored /\ DefaultRows' = DefaultRows /\ OldDefault' = OldDefault
      /\ WriterInv' /\ NextIdIsFresh' /\ OldInv' /\ TypeOK'
  BY <1>1, <1>2, WithinTransaction
<1>4. LinksInv' BY <1>1, <1>2, <1>3 DEF LinksInv, Linked
<1>5. DeletedInv'
  <2>1. OldDefault \subseteq DefaultRows BY <1>1 DEF OldInv, OldDefault, DefaultRows, Stored
  <2> QED BY <1>1, <1>2, <1>3, <2>1 DEF DeletedInv, Cleared
<1>6. CreatedInv' BY <1>1, <1>2, <1>3 DEF CreatedInv, Creating, Restored
<1>7. RestoredInv' BY <1>1, <1>2 DEF RestoredInv, Restored
<1> QED BY <1>1, <1>2, <1>3, <1>4, <1>5, <1>6, <1>7 DEF PartitionsInv, Linked

\* _list_week_starts_for_all_sources.
LEMMA ListWeeksStep == PartitionsInv /\ ListWeeks => PartitionsInv'
<1> SUFFICES ASSUME PartitionsInv, ListWeeks PROVE PartitionsInv' OBVIOUS
<1> DEFINE listed == {Week[k] : k \in (Stored \ repart.deleted) \cup DOMAIN repart.buffer} \ {Fallback}
<1>1. /\ ShapeInv /\ TypeOK /\ OldInv /\ LinksInv /\ DeletedInv /\ CreatedInv /\ RestoredInv
      /\ repart.phase = "weeks" /\ mixed \in BOOLEAN
      /\ UNCHANGED <<sources, links, weeks, sequence, writer, writes, mixed>>
      /\ repart' = [repart EXCEPT !.phase = "create", !.todo = listed]
  BY DEF ListWeeks, PartitionsInv
<1>2. /\ repart'.phase = "create" /\ repart'.todo = listed
      /\ UNCHANGED <<repart.old, repart.oldLinks, repart.alone, repart.buffer>>
      /\ UNCHANGED <<repart.linkBuffer, repart.deleted, repart.unlinked, repart.created, repart.restored>>
      /\ ShapeInv'
  BY <1>1 DEF ShapeInv
<1>3. /\ Stored' = Stored /\ DefaultRows' = DefaultRows /\ OldDefault' = OldDefault
      /\ WriterInv' /\ NextIdIsFresh' /\ OldInv' /\ TypeOK'
  BY <1>1, <1>2, WithinTransaction DEF TypeOK
<1>4. LinksInv' BY <1>1, <1>2, <1>3 DEF LinksInv, Linked
<1>5. DeletedInv' BY <1>1, <1>2, <1>3 DEF DeletedInv, Cleared
<1>6. CreatedInv'
  <2>1. repart.created = {} BY <1>1 DEF CreatedInv, Creating
  <2>2. ASSUME repart.alone, NEW k \in Stored PROVE Week[k] = Fallback \/ Week[k] \in listed
    <3>1. repart.deleted \subseteq DefaultRows BY <1>1 DEF TypeOK
    <3>2. DOMAIN repart.buffer = OldDefault /\ sources = repart.old BY <1>1, <2>2 DEF OldInv
    <3>3. k \in repart.deleted => k \in DOMAIN repart.buffer
      BY <3>1, <3>2 DEF OldDefault, DefaultRows, Stored
    <3> QED BY <3>3
  <2> HIDE DEF listed
  <2> QED BY <1>1, <1>2, <1>3, <2>1, <2>2 DEF CreatedInv, Creating, Restored
<1>7. RestoredInv' BY <1>1, <1>2 DEF RestoredInv, Restored
<1> QED BY <1>1, <1>2, <1>3, <1>4, <1>5, <1>6, <1>7 DEF PartitionsInv, Linked

\* _create_weekly_partition_pair: the exclusive lock keeps upserts out.
LEMMA CreatePartitionStep == PartitionsInv /\ CreatePartition => PartitionsInv'
<1> SUFFICES ASSUME PartitionsInv, CreatePartition PROVE PartitionsInv' OBVIOUS
<1> DEFINE week == Min(repart.todo)
<1>1. /\ ShapeInv /\ TypeOK /\ OldInv /\ LinksInv /\ DeletedInv /\ CreatedInv /\ RestoredInv
      /\ repart.phase = "create" /\ mixed \in BOOLEAN
      /\ UNCHANGED <<sources, links, weeks, sequence, writer, writes, mixed>>
      /\ week \notin weeks => /\ writer.phase = "idle"
                              /\ \A k \in DefaultRows \ repart.deleted : Week[k] # week
      /\ repart' = [repart EXCEPT !.todo = repart.todo \ {week},
                                  !.created = IF week \in weeks THEN repart.created
                                              ELSE repart.created \cup {week}]
  BY DEF CreatePartition, PartitionsInv
<1> HIDE DEF week
<1>2. /\ repart'.phase = "create" /\ repart'.todo = repart.todo \ {week}
      /\ repart'.created = IF week \in weeks THEN repart.created ELSE repart.created \cup {week}
      /\ UNCHANGED <<repart.old, repart.oldLinks, repart.alone, repart.buffer>>
      /\ UNCHANGED <<repart.linkBuffer, repart.deleted, repart.unlinked, repart.restored>>
      /\ ShapeInv'
  BY <1>1 DEF ShapeInv
<1>3. /\ Stored' = Stored /\ DefaultRows' = DefaultRows /\ OldDefault' = OldDefault
      /\ WriterInv' /\ NextIdIsFresh' /\ OldInv' /\ TypeOK'
  BY <1>1, <1>2, WithinTransaction DEF TypeOK
<1>4. LinksInv' BY <1>1, <1>2, <1>3 DEF LinksInv, Linked
<1>5. DeletedInv' BY <1>1, <1>2, <1>3 DEF DeletedInv, Cleared
<1>6. CreatedInv'
  <2>1. repart'.created # {} =>
          /\ writer.phase = "idle"
          /\ \A k \in DefaultRows \ repart.deleted : Week[k] \notin repart'.created
    BY <1>1, <1>2 DEF CreatedInv
  <2>2. repart.todo \cup weeks \cup repart.created \subseteq repart'.todo \cup weeks \cup repart'.created
    BY <1>2
  <2> QED BY <1>1, <1>2, <1>3, <2>1, <2>2 DEF CreatedInv, Creating, Restored
<1>7. RestoredInv' BY <1>1, <1>2 DEF RestoredInv, Restored
<1> QED BY <1>1, <1>2, <1>3, <1>4, <1>5, <1>6, <1>7 DEF PartitionsInv, Linked

\* _restore_sources_from_buffer.
LEMMA RestoreSourcesStep == PartitionsInv /\ RestoreSources => PartitionsInv'
<1> SUFFICES ASSUME PartitionsInv, RestoreSources PROVE PartitionsInv' OBVIOUS
<1> DEFINE again == [k \in DOMAIN repart.buffer |->
              [repart.buffer[k] EXCEPT !.partition = PartitionFor(k, weeks \cup repart.created)]]
<1>1. /\ ShapeInv /\ TypeOK /\ OldInv /\ LinksInv /\ DeletedInv /\ CreatedInv
      /\ repart.phase = "create" /\ repart.todo = {} /\ mixed \in BOOLEAN
      /\ UNCHANGED <<sources, links, weeks, sequence, writer, writes, mixed>>
      /\ repart' = [repart EXCEPT !.phase = "restore links", !.restored = again]
  BY DEF RestoreSources, PartitionsInv
<1>2. again = [k \in OldDefault |->
                 [repart.old[k] EXCEPT !.partition = PartitionFor(k, weeks \cup repart.created)]]
  BY <1>1 DEF OldInv
<1> HIDE DEF again
<1>3. /\ repart'.phase = "restore links" /\ repart'.restored = again
      /\ UNCHANGED <<repart.old, repart.oldLinks, repart.alone, repart.buffer>>
      /\ UNCHANGED <<repart.linkBuffer, repart.deleted, repart.unlinked, repart.todo, repart.created>>
      /\ ShapeInv'
  BY <1>1 DEF ShapeInv
<1>4. /\ Stored' = Stored /\ DefaultRows' = DefaultRows /\ OldDefault' = OldDefault
      /\ WriterInv' /\ NextIdIsFresh' /\ OldInv' /\ TypeOK'
  BY <1>1, <1>3, WithinTransaction DEF TypeOK
<1>5. LinksInv' BY <1>1, <1>3, <1>4 DEF LinksInv, Linked
<1>6. DeletedInv' BY <1>1, <1>3, <1>4 DEF DeletedInv, Cleared
<1>7. CreatedInv' BY <1>1, <1>3, <1>4 DEF CreatedInv, Creating, Restored
<1>8. RestoredInv' BY <1>1, <1>2, <1>3, <1>4 DEF RestoredInv, Restored, PartitionFor
<1> QED BY <1>1, <1>3, <1>4, <1>5, <1>6, <1>7, <1>8 DEF PartitionsInv, Linked

\* _restore_source_feeds_from_buffer.
LEMMA RestoreLinksStep == PartitionsInv /\ RestoreLinks => PartitionsInv'
<1> SUFFICES ASSUME PartitionsInv, RestoreLinks PROVE PartitionsInv' OBVIOUS
<1>1. /\ ShapeInv /\ TypeOK /\ OldInv /\ LinksInv /\ DeletedInv /\ CreatedInv /\ RestoredInv
      /\ repart.phase = "restore links" /\ mixed \in BOOLEAN
      /\ \A k \in repart.linkBuffer : Visible[k] # NoRow
      /\ UNCHANGED <<sources, links, weeks, sequence, writer, writes, mixed>>
      /\ repart' = [repart EXCEPT !.phase = "sequence"]
  BY DEF RestoreLinks, Goto, PartitionsInv
<1>2. /\ repart'.phase = "sequence"
      /\ UNCHANGED <<repart.old, repart.oldLinks, repart.alone, repart.buffer>>
      /\ UNCHANGED <<repart.linkBuffer, repart.deleted, repart.unlinked, repart.todo,
                     repart.created, repart.restored>>
      /\ ShapeInv'
  BY <1>1 DEF ShapeInv
<1>3. /\ Stored' = Stored /\ DefaultRows' = DefaultRows /\ OldDefault' = OldDefault
      /\ WriterInv' /\ NextIdIsFresh' /\ OldInv' /\ TypeOK'
  BY <1>1, <1>2, WithinTransaction DEF TypeOK
<1>4. LinksInv'
  <2>1. Visible' = Visible
    <3>1. /\ sources' = sources /\ repart'.restored = repart.restored
          /\ repart'.deleted = repart.deleted
      BY <1>1, <1>2
    <3> QED BY <3>1, Zenon DEF Visible
  <2> QED BY <1>1, <1>2, <1>3, <2>1 DEF LinksInv, Linked
<1>5. DeletedInv' BY <1>1, <1>2, <1>3 DEF DeletedInv, Cleared
<1>6. CreatedInv' BY <1>1, <1>2, <1>3 DEF CreatedInv, Creating, Restored
<1>7. RestoredInv' BY <1>1, <1>2, <1>3 DEF RestoredInv, Restored, PartitionFor
<1> QED BY <1>1, <1>2, <1>3, <1>4, <1>5, <1>6, <1>7 DEF PartitionsInv, Linked

\* What the transaction sees once it has restored the rows: the old default
\* rows, routed again, nothing of what was deleted beside them, and the rest.
LEMMA VisibleFacts ==
  ASSUME PartitionsInv, repart.phase \in Restored, NEW k \in Keys
  PROVE  /\ k \in OldDefault =>
              /\ Visible[k] \in Rows /\ Visible[k] # NoRow
              /\ Visible[k].id = repart.old[k].id /\ Visible[k].write = repart.old[k].write
              /\ Visible[k].partition = PartitionFor(k, weeks \cup repart.created)
         /\ k \notin OldDefault /\ k \in repart.deleted => Visible[k] = NoRow
         /\ k \notin OldDefault /\ k \notin repart.deleted => Visible[k] = sources[k]
         /\ Visible[k] \in Rows \cup {NoRow}
<1>1. TypeOK /\ OldInv /\ RestoredInv BY DEF PartitionsInv, Restored
<1>2. repart.restored = [j \in OldDefault |->
        [repart.old[j] EXCEPT !.partition = PartitionFor(j, weeks \cup repart.created)]]
  BY <1>1 DEF RestoredInv
<1>3. Visible[k] = IF k \in OldDefault THEN repart.restored[k]
                   ELSE IF k \in repart.deleted THEN NoRow ELSE sources[k]
  BY <1>2 DEF Visible
<1>4. sources[k] \in Rows \cup {NoRow} BY <1>1 DEF TypeOK
<1>5. ASSUME k \in OldDefault
      PROVE  /\ Visible[k] \in Rows /\ Visible[k] # NoRow
             /\ Visible[k].id = repart.old[k].id /\ Visible[k].write = repart.old[k].write
             /\ Visible[k].partition = PartitionFor(k, weeks \cup repart.created)
  <2>1. repart.old[k] \in Rows BY <1>1, <1>5 DEF OldInv, OldDefault
  <2>2. PartitionFor(k, weeks \cup repart.created) \in {"default", "week"} BY DEF PartitionFor
  <2>3. Visible[k] = [repart.old[k] EXCEPT !.partition = PartitionFor(k, weeks \cup repart.created)]
    BY <1>2, <1>3, <1>5
  <2> QED BY <2>1, <2>2, <2>3 DEF Rows, NoRow
<1> QED BY <1>3, <1>4, <1>5

\* A transaction that no upsert overlapped sees every source, as it was.
LEMMA AloneFacts ==
  ASSUME PartitionsInv, repart.phase \in Restored, repart.alone, NEW k \in Keys
  PROVE  /\ Visible[k].id = sources[k].id /\ Visible[k].write = sources[k].write
         /\ Visible[k] = NoRow <=> sources[k] = NoRow
<1>1. TypeOK /\ OldInv BY DEF PartitionsInv, Restored
<1>2. sources = repart.old /\ repart.deleted \subseteq OldDefault
  BY <1>1 DEF TypeOK, OldInv, OldDefault, DefaultRows, Stored
<1>3. CASE k \in OldDefault
  <2>1. sources[k] # NoRow BY <1>2, <1>3 DEF OldDefault
  <2> QED BY <1>2, <1>3, <2>1, VisibleFacts
<1>4. CASE k \notin OldDefault BY <1>2, <1>4, VisibleFacts
<1> QED BY <1>3, <1>4

\* _sync_sources_sequence.
LEMMA SyncSequenceStep == PartitionsInv /\ SyncSequence => PartitionsInv'
<1> SUFFICES ASSUME PartitionsInv, SyncSequence PROVE PartitionsInv' OBVIOUS
<1> DEFINE ids == {0} \cup {Visible[k].id : k \in Keys}
<1>1. /\ ShapeInv /\ TypeOK /\ OldInv /\ LinksInv /\ DeletedInv /\ CreatedInv /\ RestoredInv /\ WriterInv
      /\ repart.phase = "sequence" /\ mixed \in BOOLEAN
      /\ UNCHANGED <<sources, links, weeks, writer, writes>>
      /\ sequence' = Max(ids)
      /\ mixed' = (mixed \/ writer.phase # "idle" \/ ~repart.alone)
      /\ repart' = [repart EXCEPT !.phase = "commit"]
  BY DEF SyncSequence, Goto, PartitionsInv
<1>2. /\ repart'.phase = "commit"
      /\ UNCHANGED <<repart.old, repart.oldLinks, repart.alone, repart.buffer>>
      /\ UNCHANGED <<repart.linkBuffer, repart.deleted, repart.unlinked, repart.todo,
                     repart.created, repart.restored>>
      /\ ShapeInv'
  BY <1>1 DEF ShapeInv
<1>3. repart.phase \in Restored BY <1>1 DEF Restored
<1>4. /\ ids \in SUBSET Nat /\ IsFiniteSet(ids) /\ ids # {}
  <2>1. \A k \in Keys : Visible[k].id \in Nat BY <1>3, VisibleFacts DEF Rows, NoRow
  <2>2. IsFiniteSet({Visible[k].id : k \in Keys})
    <3> DEFINE f == [k \in Keys |-> Visible[k].id]
    <3>1. f \in Surjection(Keys, {Visible[k].id : k \in Keys}) BY DEF Surjection
    <3> HIDE DEF f
    <3> QED BY <3>1, KeysAssumption, FS_Surjection
  <2>3. \A X : IsFiniteSet(X) => IsFiniteSet({0} \cup X) BY FS_Singleton, FS_Union
  <2>4. IsFiniteSet(ids) BY <2>2, <2>3
  <2>5. ids \in SUBSET Nat /\ 0 \in ids BY <2>1
  <2> QED BY <2>4, <2>5
<1>5. Max(ids) \in ids /\ \A x \in ids : x <= Max(ids)
  <2> HIDE DEF ids
  <2> QED BY <1>4, MaxFacts
<1>6. sequence' \in Nat /\ \A k \in Keys : Visible[k].id <= sequence' BY <1>1, <1>4, <1>5
<1> HIDE DEF ids
<1>7. Stored' = Stored /\ DefaultRows' = DefaultRows BY <1>1 DEF Stored, DefaultRows
<1>8. OldDefault' = OldDefault BY <1>2 DEF OldDefault
<1>9. TypeOK' BY <1>1, <1>2, <1>6, <1>7 DEF TypeOK, PartitionFor
<1>10. NextIdIsFresh'
  <2> SUFFICES ASSUME ~mixed', NEW k \in Stored' PROVE sources'[k].id <= sequence'
    BY DEF NextIdIsFresh
  <2>1. repart.alone /\ k \in Keys BY <1>1, <1>7 DEF Stored
  <2>2. Visible[k].id = sources[k].id BY <1>3, <2>1, AloneFacts
  <2> QED BY <1>1, <1>6, <2>1, <2>2
<1>11. WriterInv' /\ mixed' \in BOOLEAN
  <2>1. ~mixed' => writer.phase = "idle" BY <1>1
  <2>2. mixed' \in BOOLEAN BY <1>1
  <2> QED BY <1>1, <2>1, <2>2 DEF WriterInv, NoWriter
<1>12. OldInv' BY <1>1, <1>2, <1>8 DEF OldInv
<1>13. LinksInv'
  <2>1. Visible' = Visible
    <3>1. /\ sources' = sources /\ repart'.restored = repart.restored
          /\ repart'.deleted = repart.deleted
      BY <1>1, <1>2
    <3> QED BY <3>1, Zenon DEF Visible
  <2> QED BY <1>1, <1>2, <1>7, <1>8, <2>1 DEF LinksInv, Linked
<1>14. DeletedInv' BY <1>1, <1>2, <1>8 DEF DeletedInv, Cleared
<1>15. CreatedInv' BY <1>1, <1>2, <1>7 DEF CreatedInv, Creating, Restored
<1>16. RestoredInv' BY <1>1, <1>2, <1>8 DEF RestoredInv, Restored, PartitionFor
<1> QED BY <1>1, <1>2, <1>9, <1>10, <1>11, <1>12, <1>13, <1>14, <1>15, <1>16 DEF PartitionsInv, Linked

\* The fields of a transaction that is not there.
LEMMA NoRepartFacts ==
  /\ NoRepart.phase = "idle" /\ NoRepart.deleted = {} /\ DOMAIN NoRepart.buffer = {}
  /\ NoRepart = [phase |-> NoRepart.phase, buffer |-> NoRepart.buffer,
       linkBuffer |-> NoRepart.linkBuffer, deleted |-> NoRepart.deleted,
       unlinked |-> NoRepart.unlinked, todo |-> NoRepart.todo, created |-> NoRepart.created,
       restored |-> NoRepart.restored, old |-> NoRepart.old, oldLinks |-> NoRepart.oldLinks,
       alone |-> NoRepart.alone]
BY DEF NoRepart, NoRows

\* What the commit makes of the tables.
LEMMA CommitFacts ==
  ASSUME PartitionsInv, RepartCommits
  PROVE  /\ sources' \in [Keys -> Rows \cup {NoRow}]
         /\ links' \subseteq Stored'
         /\ \A k \in Stored' : sources'[k].partition = PartitionFor(k, weeks')
<1>1. /\ TypeOK /\ OldInv /\ LinksInv /\ DeletedInv /\ CreatedInv
      /\ repart.phase = "commit" /\ repart.phase \in Restored
      /\ sources' = Visible /\ links' = (links \ repart.unlinked) \cup repart.linkBuffer
      /\ weeks' = weeks \cup repart.created
  BY DEF RepartCommits, PartitionsInv, Restored
<1>2. \A k \in Keys :
         /\ k \in OldDefault =>
              /\ Visible[k] \in Rows /\ Visible[k] # NoRow
              /\ Visible[k].id = repart.old[k].id /\ Visible[k].write = repart.old[k].write
              /\ Visible[k].partition = PartitionFor(k, weeks \cup repart.created)
         /\ k \notin OldDefault /\ k \in repart.deleted => Visible[k] = NoRow
         /\ k \notin OldDefault /\ k \notin repart.deleted => Visible[k] = sources[k]
         /\ Visible[k] \in Rows \cup {NoRow}
  BY <1>1, VisibleFacts
<1>3. sources' \in [Keys -> Rows \cup {NoRow}] BY <1>1, <1>2 DEF Visible
<1>4. ASSUME NEW k \in links' PROVE k \in Stored'
  <2>1. CASE k \in repart.linkBuffer
    BY <1>1, <2>1 DEF LinksInv, Stored
  <2>2. CASE k \in links \ repart.unlinked
    <3>1. k \in Keys /\ sources[k] # NoRow BY <1>1, <2>2 DEF TypeOK, Stored
    <3>2. k \notin repart.deleted BY <1>1, <2>2 DEF DeletedInv, Cleared
    <3>3. Visible[k] # NoRow BY <1>2, <3>1, <3>2
    <3> QED BY <1>1, <3>1, <3>3 DEF Stored
  <2> QED BY <1>1, <2>1, <2>2
<1>5. ASSUME NEW k \in Stored' PROVE sources'[k].partition = PartitionFor(k, weeks')
  <2>1. k \in Keys /\ Visible[k] # NoRow BY <1>1 DEF Stored
  <2>2. CASE k \in OldDefault BY <1>1, <1>2, <2>1, <2>2
  <2>3. CASE k \notin OldDefault
    <3>1. k \notin repart.deleted /\ Visible[k] = sources[k] BY <1>2, <2>1, <2>3
    <3>2. k \in Stored BY <2>1, <3>1 DEF Stored
    <3>3. sources[k].partition = PartitionFor(k, weeks) BY <1>1, <3>2 DEF TypeOK
    <3>4. Week[k] \in weeks \cup repart.created => Week[k] \in weeks
      BY <1>1, <3>1, <3>2, <3>3 DEF CreatedInv, DefaultRows, PartitionFor
    <3> QED BY <1>1, <3>1, <3>3, <3>4 DEF PartitionFor
  <2> QED BY <2>2, <2>3
<1> QED BY <1>3, <1>4, <1>5

\* The commit: nothing that is left has an id the sequence could give again.
LEMMA RepartCommitsStep == PartitionsInv /\ RepartCommits => PartitionsInv'
<1> SUFFICES ASSUME PartitionsInv, RepartCommits PROVE PartitionsInv' OBVIOUS
<1>1. /\ TypeOK /\ OldInv /\ WriterInv /\ NextIdIsFresh /\ mixed \in BOOLEAN
      /\ repart.phase \in Restored
      /\ sources' = Visible /\ repart' = NoRepart
      /\ UNCHANGED <<sequence, writer, writes, mixed>>
  BY DEF RepartCommits, PartitionsInv, Restored
<1>2. TypeOK'
  <2>1. repart'.deleted = {} /\ DOMAIN repart'.buffer = {} BY <1>1, NoRepartFacts
  <2> QED BY <1>1, <2>1, CommitFacts DEF TypeOK
<1>3. WriterInv' BY <1>1 DEF WriterInv
<1>4. NextIdIsFresh'
  <2> SUFFICES ASSUME ~mixed, NEW k \in Keys, Visible[k] # NoRow PROVE Visible[k].id <= sequence
    BY <1>1 DEF NextIdIsFresh, Stored
  <2>1. CASE k \in OldDefault
    <3>1. repart.old[k] # NoRow BY <2>1 DEF OldDefault
    <3>2. k \in Stored /\ sources[k].id = repart.old[k].id BY <1>1, <3>1 DEF OldInv, Stored
    <3>3. Visible[k].id = repart.old[k].id BY <1>1, <2>1, VisibleFacts
    <3> QED BY <1>1, <3>2, <3>3 DEF NextIdIsFresh
  <2>2. CASE k \notin OldDefault
    <3>1. Visible[k] = sources[k] BY <1>1, <2>2, VisibleFacts
    <3>2. k \in Stored BY <3>1 DEF Stored
    <3> QED BY <1>1, <3>1, <3>2 DEF NextIdIsFresh
  <2> QED BY <2>1, <2>2
<1>5. ShapeInv' /\ repart'.phase = "idle" BY <1>1, NoRepartFacts DEF ShapeInv
<1> QED BY <1>1, <1>2, <1>3, <1>4, <1>5 DEF PartitionsInv

\* A rollback leaves the tables as they are.
LEMMA RepartAbortsStep == PartitionsInv /\ RepartAborts => PartitionsInv'
<1> SUFFICES ASSUME PartitionsInv, RepartAborts PROVE PartitionsInv' OBVIOUS
<1>1. /\ TypeOK /\ WriterInv /\ NextIdIsFresh /\ mixed \in BOOLEAN /\ repart' = NoRepart
      /\ UNCHANGED <<sources, links, weeks, sequence, writer, writes, mixed>>
  BY DEF RepartAborts, PartitionsInv
<1>2. Stored' = Stored BY <1>1 DEF Stored
<1>3. TypeOK'
  <2>1. repart'.deleted = {} /\ DOMAIN repart'.buffer = {} BY <1>1, NoRepartFacts
  <2> QED BY <1>1, <1>2, <2>1 DEF TypeOK, PartitionFor
<1>4. WriterInv' /\ NextIdIsFresh' BY <1>1, <1>2 DEF WriterInv, NextIdIsFresh
<1>5. ShapeInv' /\ repart'.phase = "idle" BY <1>1, NoRepartFacts DEF ShapeInv
<1> QED BY <1>1, <1>3, <1>4, <1>5 DEF PartitionsInv

-------------------------------------------------------------------------------
(* Steps of the upsert, at any moment of a repartitioning.                 *)

\* A step of the upsert that commits nothing.
LEMMA UpsertWithin ==
  ASSUME PartitionsInv, UNCHANGED <<sources, links, weeks, repart, mixed>>,
         WriterInv', sequence' \in Nat, sequence <= sequence',
         \/ repart.created = {} \/ writer'.phase = "idle",
         writer'.phase = "commit" => writer'.key \notin repart.deleted
  PROVE  PartitionsInv'
<1>1. Stored' = Stored /\ DefaultRows' = DefaultRows BY DEF Stored, DefaultRows
<1>2. OldDefault' = OldDefault BY DEF OldDefault
<1>3. TypeOK' BY <1>1 DEF PartitionsInv, TypeOK, PartitionFor
<1>4. NextIdIsFresh'
  <2> SUFFICES ASSUME ~mixed, NEW k \in Stored PROVE sources[k].id <= sequence'
    BY <1>1 DEF NextIdIsFresh
  <2>1. sources[k].id <= sequence BY DEF PartitionsInv, NextIdIsFresh
  <2>2. sources[k].id \in Nat /\ sequence \in Nat
    BY DEF PartitionsInv, TypeOK, Stored, Rows, NoRow
  <2> QED BY <2>1, <2>2
<1>5. ASSUME repart.phase # "idle" PROVE OldInv' /\ LinksInv' /\ DeletedInv' /\ CreatedInv' /\ RestoredInv'
  <2>1. OldInv /\ LinksInv /\ DeletedInv /\ CreatedInv /\ RestoredInv BY <1>5 DEF PartitionsInv
  <2>2. OldInv' BY <1>2, <2>1 DEF OldInv
  <2>3. LinksInv'
    <3>1. Visible' = Visible BY Zenon DEF Visible
    <3> QED BY <1>1, <1>2, <2>1, <3>1 DEF LinksInv
  <2>4. DeletedInv' BY <1>2, <2>1 DEF DeletedInv
  <2>5. CreatedInv' BY <1>1, <2>1 DEF CreatedInv
  <2>6. RestoredInv' BY <1>2, <2>1 DEF RestoredInv, PartitionFor
  <2> QED BY <2>2, <2>3, <2>4, <2>5, <2>6
<1>6. ShapeInv' BY DEF PartitionsInv, ShapeInv
<1> QED BY <1>3, <1>4, <1>5, <1>6 DEF PartitionsInv

\* The INSERT draws an id.
LEMMA UpsertBeginsStep ==
  ASSUME PartitionsInv, NEW k \in Keys, UpsertBegins(k) PROVE PartitionsInv'
<1>1. /\ sequence' = sequence + 1 /\ writes' = writes + 1 /\ repart.created = {}
      /\ writer' = [phase |-> "insert", key |-> k, id |-> sequence + 1]
      /\ UNCHANGED <<sources, links, weeks, repart, mixed>>
      /\ sequence \in Nat /\ writes \in Nat
  BY DEF UpsertBegins, ParentLocked, PartitionsInv, TypeOK, WriterInv
<1>2. WriterInv' BY <1>1 DEF WriterInv
<1>3. writer'.phase = "insert" BY <1>1
<1>4. sequence' \in Nat /\ sequence <= sequence' BY <1>1
<1> QED BY <1>1, <1>2, <1>3, <1>4, UpsertWithin

\* The row is locked by the upsert: the repartitioning has not deleted it.
LEMMA UpsertRowStep == PartitionsInv /\ UpsertRow => PartitionsInv'
<1> SUFFICES ASSUME PartitionsInv, UpsertRow PROVE PartitionsInv' OBVIOUS
<1>1. /\ writer.phase = "insert" /\ writer.key \notin repart.deleted
      /\ writer' = [writer EXCEPT !.phase = "commit"]
      /\ UNCHANGED <<sources, links, weeks, sequence, repart, writes, mixed>>
      /\ sequence \in Nat /\ WriterInv
  BY DEF UpsertRow, RowLocked, PartitionsInv, TypeOK
<1>2. /\ writer' = [phase |-> "commit", key |-> writer.key, id |-> writer.id]
      /\ writer.key \in Keys /\ writer.id \in Nat /\ writes \in Nat
      /\ ~mixed => writer.id <= sequence
  BY <1>1 DEF WriterInv, NoWriter
<1>3. WriterInv' BY <1>1, <1>2 DEF WriterInv
<1>4. repart.created = {}
  BY <1>1, NoRepartFacts DEF PartitionsInv, CreatedInv, NoRepart
<1> QED BY <1>1, <1>2, <1>3, <1>4, UpsertWithin

\* A rollback of the upsert.
LEMMA UpsertAbortsStep == PartitionsInv /\ UpsertAborts => PartitionsInv'
<1> SUFFICES ASSUME PartitionsInv, UpsertAborts PROVE PartitionsInv' OBVIOUS
<1>1. /\ writer' = NoWriter /\ sequence \in Nat /\ writes \in Nat
      /\ UNCHANGED <<sources, links, weeks, sequence, repart, writes, mixed>>
  BY DEF UpsertAborts, PartitionsInv, TypeOK, WriterInv
<1>2. WriterInv' /\ writer'.phase = "idle" BY <1>1 DEF WriterInv, NoWriter
<1> QED BY <1>1, <1>2, UpsertWithin

\* The row an upsert commits: that of the key with new content, or a new one
\* with the drawn id.
LEMMA UpsertedFacts ==
  ASSUME PartitionsInv, writer.phase = "commit", NEW k, k = writer.key, NEW row,
         row = UpsertedRow(k, writer.id)
  PROVE  /\ k \in Keys /\ row \in Rows /\ row # NoRow
         /\ k \in Stored => row.id = sources[k].id /\ row.partition = sources[k].partition
         /\ row.partition = PartitionFor(k, weeks)
         /\ ~mixed => row.id <= sequence
<1>1. /\ TypeOK /\ writer.key \in Keys /\ writer.id \in Nat /\ writes \in Nat /\ NextIdIsFresh
      /\ ~mixed => writer.id <= sequence
  BY DEF PartitionsInv, WriterInv, NoWriter
<1>2. PartitionFor(k, weeks) \in {"default", "week"} BY DEF PartitionFor
<1>3. CASE k \in Stored
  <2>1. sources[k] \in Rows /\ sources[k].partition = PartitionFor(k, weeks)
    BY <1>1, <1>3 DEF TypeOK, Stored
  <2>2. row = [sources[k] EXCEPT !.write = writes] BY <1>3 DEF UpsertedRow
  <2>3. /\ row \in Rows /\ row.id = sources[k].id /\ row.partition = sources[k].partition
    BY <1>1, <2>1, <2>2 DEF Rows
  <2>4. ~mixed => row.id <= sequence BY <1>1, <1>3, <2>3 DEF NextIdIsFresh
  <2> QED BY <1>1, <1>2, <2>1, <2>3, <2>4 DEF Rows, NoRow
<1>4. CASE k \notin Stored
  <2>1. row = [id |-> writer.id, write |-> writes, partition |-> PartitionFor(k, weeks)]
    BY <1>4 DEF UpsertedRow
  <2>2. row \in Rows /\ row.partition = PartitionFor(k, weeks) /\ row.id = writer.id
    BY <1>1, <1>2, <2>1 DEF Rows
  <2> QED BY <1>1, <1>2, <1>4, <2>2 DEF Rows, NoRow
<1> QED BY <1>3, <1>4

\* The commit of an upsert: nothing the repartitioning has a copy of goes, and
\* nothing it has deleted comes back.
LEMMA UpsertCommitsStep == PartitionsInv /\ UpsertCommits => PartitionsInv'
<1> SUFFICES ASSUME PartitionsInv, UpsertCommits PROVE PartitionsInv' OBVIOUS
<1>0. PICK k : k = writer.key OBVIOUS
<1>1. PICK row : row = UpsertedRow(k, writer.id) OBVIOUS
<1>2. /\ writer.phase = "commit" /\ k \notin repart.unlinked
      /\ sources' = [sources EXCEPT ![k] = row] /\ links' = links \cup {k}
      /\ writer' = NoWriter
      /\ repart' = [repart EXCEPT !.alone = (repart.phase = "idle")]
      /\ UNCHANGED <<weeks, sequence, writes, mixed>>
  BY <1>0, <1>1 DEF UpsertCommits
<1>3. /\ k \in Keys /\ row \in Rows /\ row # NoRow
      /\ k \in Stored => row.id = sources[k].id /\ row.partition = sources[k].partition
      /\ row.partition = PartitionFor(k, weeks)
      /\ ~mixed => row.id <= sequence
  BY <1>0, <1>1, <1>2, UpsertedFacts
<1>4. /\ TypeOK /\ WriterInv /\ ShapeInv /\ NextIdIsFresh /\ mixed \in BOOLEAN
      /\ sources \in [Keys -> Rows \cup {NoRow}]
  BY DEF PartitionsInv, TypeOK
<1>5. /\ UNCHANGED <<repart.phase, repart.old, repart.oldLinks, repart.buffer>>
      /\ UNCHANGED <<repart.linkBuffer, repart.deleted, repart.unlinked, repart.todo,
                     repart.created, repart.restored>>
      /\ repart'.alone = (repart.phase = "idle")
      /\ ShapeInv'
  BY <1>2, <1>4 DEF ShapeInv
<1>6. /\ sources'[k] = row /\ \A j \in Keys \ {k} : sources'[j] = sources[j]
      /\ sources' \in [Keys -> Rows \cup {NoRow}]
  BY <1>2, <1>3, <1>4
<1>7. Stored' = Stored \cup {k} BY <1>3, <1>6 DEF Stored
<1>8. DefaultRows \subseteq DefaultRows' BY <1>3, <1>6, <1>7 DEF DefaultRows, Stored
<1>9. OldDefault' = OldDefault BY <1>5 DEF OldDefault
<1>10. TypeOK'
  <2>1. links' \subseteq Stored' BY <1>2, <1>4, <1>7 DEF TypeOK
  <2>2. ASSUME NEW j \in Stored' PROVE sources'[j].partition = PartitionFor(j, weeks')
    <3>1. CASE j = k BY <1>2, <1>3, <1>6, <3>1
    <3>2. CASE j # k
      <4>1. j \in Stored /\ sources'[j] = sources[j] BY <1>6, <1>7, <3>2 DEF Stored
      <4> QED BY <1>2, <1>4, <4>1 DEF TypeOK
    <3> QED BY <3>1, <3>2
  <2>3. repart'.deleted \subseteq DefaultRows' BY <1>4, <1>5, <1>8 DEF TypeOK
  <2> QED BY <1>2, <1>4, <1>5, <1>6, <2>1, <2>2, <2>3 DEF TypeOK
<1>11. WriterInv' BY <1>2, <1>4 DEF WriterInv
<1>12. NextIdIsFresh'
  BY <1>2, <1>3, <1>4, <1>6, <1>7 DEF NextIdIsFresh, Stored
<1>13. ASSUME repart.phase = "idle" PROVE repart' = NoRepart
  <2>1. repart = NoRepart BY <1>13 DEF PartitionsInv
  <2>2. repart.alone = TRUE BY <2>1 DEF NoRepart
  <2>3. repart'.alone = TRUE BY <1>5, <1>13
  <2>4. repart' = repart BY <1>4, <1>5, <2>2, <2>3 DEF ShapeInv
  <2> QED BY <2>1, <2>4
<1>14. ASSUME repart.phase # "idle"
       PROVE  OldInv' /\ LinksInv' /\ DeletedInv' /\ CreatedInv' /\ RestoredInv'
  <2>1. OldInv /\ LinksInv /\ DeletedInv /\ CreatedInv /\ RestoredInv BY <1>14 DEF PartitionsInv
  <2>2. OldInv'
    <3>1. ASSUME NEW j \in Keys, repart.old[j] # NoRow
          PROVE  /\ sources'[j] # NoRow /\ sources'[j].id = repart.old[j].id
                 /\ sources'[j].partition = repart.old[j].partition
      <4>1. /\ j \in Stored /\ sources[j].id = repart.old[j].id
            /\ sources[j].partition = repart.old[j].partition
        BY <2>1, <3>1 DEF OldInv, Stored
      <4> QED BY <1>3, <1>6, <4>1 DEF Stored
    <3>2. repart'.oldLinks \subseteq links' BY <1>2, <1>5, <2>1 DEF OldInv
    <3> QED BY <1>5, <1>9, <1>14, <2>1, <3>1, <3>2 DEF OldInv
  <2>3. LinksInv'
    <3>1. repart'.unlinked \subseteq links' \cap DefaultRows' BY <1>2, <1>5, <1>8, <2>1 DEF LinksInv
    <3>2. ASSUME NEW j \in Keys, Visible[j] # NoRow PROVE Visible'[j] # NoRow
      <4>1. /\ Visible'[j] = IF j \in DOMAIN repart.restored THEN repart.restored[j]
                             ELSE IF j \in repart.deleted THEN NoRow ELSE sources'[j]
            /\ Visible[j] = IF j \in DOMAIN repart.restored THEN repart.restored[j]
                            ELSE IF j \in repart.deleted THEN NoRow ELSE sources[j]
        BY <1>5 DEF Visible
      <4> QED BY <1>3, <1>6, <3>2, <4>1
    <3> QED BY <1>5, <1>9, <1>14, <2>1, <3>1, <3>2 DEF LinksInv
  <2>4. k \notin repart.deleted BY <1>0, <1>2, <2>1 DEF DeletedInv
  <2>5. DeletedInv' BY <1>2, <1>5, <1>9, <2>1, <2>4 DEF DeletedInv, NoWriter
  <2>6. CreatedInv'
    <3>1. repart.created = {} BY <1>2, <2>1 DEF CreatedInv
    <3> QED BY <1>5, <1>14, <2>1, <3>1 DEF CreatedInv
  <2>7. RestoredInv' BY <1>2, <1>5, <1>9, <2>1 DEF RestoredInv, PartitionFor
  <2> QED BY <2>2, <2>3, <2>5, <2>6, <2>7
<1>15. repart'.phase = repart.phase /\ mixed' = mixed BY <1>2, <1>5
<1>16. repart.phase \in {"idle", "links"} \cup Linked BY DEF PartitionsInv
<1> QED BY <1>4, <1>5, <1>10, <1>11, <1>12, <1>13, <1>14, <1>15, <1>16 DEF PartitionsInv

-------------------------------------------------------------------------------
(* The theorems.                                                           *)

\* Empty tables, no transaction.
LEMMA PartitionsInvInit == Init => PartitionsInv
<1> SUFFICES ASSUME Init PROVE PartitionsInv OBVIOUS
<1>1. Stored = {} BY DEF Init, Stored
<1>2. repart = NoRepart /\ writer = NoWriter BY DEF Init
<1>3. ShapeInv /\ repart.phase = "idle" /\ repart.deleted = {} /\ DOMAIN repart.buffer = {}
  BY <1>2, NoRepartFacts DEF ShapeInv
<1>4. TypeOK BY <1>1, <1>3 DEF Init, TypeOK
<1>5. WriterInv /\ NextIdIsFresh /\ mixed \in BOOLEAN
  BY <1>1, <1>2 DEF Init, WriterInv, NextIdIsFresh
<1> QED BY <1>2, <1>3, <1>4, <1>5 DEF PartitionsInv

\* Each statement of either transaction preserves the invariant.
LEMMA PartitionsInvStep == PartitionsInv /\ [Next]_vars => PartitionsInv'
<1> SUFFICES ASSUME PartitionsInv, [Next]_vars PROVE PartitionsInv' OBVIOUS
<1>1. ASSUME NEW k \in Keys, UpsertBegins(k) PROVE PartitionsInv' BY <1>1, UpsertBeginsStep
<1>2. CASE UpsertRow BY <1>2, UpsertRowStep
<1>3. CASE UpsertCommits BY <1>3, UpsertCommitsStep
<1>4. CASE UpsertAborts BY <1>4, UpsertAbortsStep
<1>5. CASE BufferSources BY <1>5, BufferSourcesStep
<1>6. CASE BufferLinks BY <1>6, BufferLinksStep
<1>7. CASE ClearLinks BY <1>7, ClearLinksStep
<1>8. CASE ClearSources BY <1>8, ClearSourcesStep
<1>9. CASE ListWeeks BY <1>9, ListWeeksStep
<1>10. CASE CreatePartition BY <1>10, CreatePartitionStep
<1>11. CASE RestoreSources BY <1>11, RestoreSourcesStep
<1>12. CASE RestoreLinks BY <1>12, RestoreLinksStep
<1>13. CASE SyncSequence BY <1>13, SyncSequenceStep
<1>14. CASE RepartCommits BY <1>14, RepartCommitsStep
<1>15. CASE RepartAborts BY <1>15, RepartAbortsStep
<1>16. CASE UNCHANGED vars
  <2>1. /\ UNCHANGED <<sources, links, weeks, sequence, writer, writes, mixed>>
        /\ UNCHANGED repart
    BY <1>16 DEF vars
  <2>2. /\ WriterInv /\ sequence \in Nat
        /\ \/ repart.created = {} \/ writer.phase = "idle"
        /\ writer.phase = "commit" => writer.key \notin repart.deleted
    BY DEF PartitionsInv, TypeOK, CreatedInv, DeletedInv, NoRepart
  <2>3. WriterInv' BY <2>1, <2>2 DEF WriterInv
  <2> QED BY <2>1, <2>2, <2>3, UpsertWithin
<1> QED BY <1>1, <1>2, <1>3, <1>4, <1>5, <1>6, <1>7, <1>8, <1>9, <1>10, <1>11, <1>12, <1>13,
           <1>14, <1>15, <1>16 DEF Next

\* PartitionsInv is inductive.
LEMMA PartitionsInvariant == Spec => []PartitionsInv
BY PartitionsInvInit, PartitionsInvStep, PTL DEF Spec

\* Every row is in the partition its week calls for, every link has its source
\* and the transaction in progress deletes default rows only.
THEOREM PartitionsTypeCorrect == Spec => []TypeOK
<1>1. PartitionsInv => TypeOK BY DEF PartitionsInv
<1> QED BY <1>1, PartitionsInvariant, PTL

\* The next id rss_sources_id_seq gives is above those of all stored sources,
\* unless a repartitioning that overlapped an upsert has set the sequence.
THEOREM NextIdFresh == Spec => []NextIdIsFresh
<1>1. PartitionsInv => NextIdIsFresh BY DEF PartitionsInv
<1> QED BY <1>1, PartitionsInvariant, PTL

\* Only the commit and the rollback end a repartitioning.
LEMMA EndingSteps ==
  ASSUME PartitionsInv, [Next]_vars, RepartEnds PROVE RepartCommits \/ RepartAborts
<1>1. ShapeInv /\ repart.phase # "idle" /\ repart'.phase = "idle" BY DEF PartitionsInv, RepartEnds
<1>2. ASSUME UNCHANGED repart PROVE FALSE BY <1>1, <1>2
<1>3. ASSUME UpsertCommits PROVE FALSE
  <2>1. repart' = [repart EXCEPT !.alone = (repart.phase = "idle")] BY <1>3 DEF UpsertCommits
  <2> QED BY <1>1, <2>1 DEF ShapeInv
<1>4. \A k \in Keys : ~ UpsertBegins(k) BY <1>2 DEF UpsertBegins
<1>5. ~ UpsertRow /\ ~ UpsertAborts BY <1>2 DEF UpsertRow, UpsertAborts
<1>6. ~ BufferSources BY <1>1 DEF BufferSources
<1>7. ~ BufferLinks BY <1>1 DEF BufferLinks, ShapeInv
<1>8. ~ ClearLinks /\ ~ ClearSources BY <1>1 DEF ClearLinks, ClearSources, ShapeInv
<1>9. ~ ListWeeks
  <2> SUFFICES ASSUME ListWeeks PROVE FALSE OBVIOUS
  <2>1. PICK todo : repart' = [repart EXCEPT !.phase = "create", !.todo = todo] BY DEF ListWeeks
  <2> QED BY <1>1, <2>1 DEF ShapeInv
<1>10. ~ CreatePartition
  <2> SUFFICES ASSUME CreatePartition PROVE FALSE OBVIOUS
  <2>1. PICK todo, created : repart' = [repart EXCEPT !.todo = todo, !.created = created]
    BY DEF CreatePartition
  <2> QED BY <1>1, <2>1 DEF ShapeInv
<1>11. ~ RestoreSources
  <2> SUFFICES ASSUME RestoreSources PROVE FALSE OBVIOUS
  <2>1. PICK rows : repart' = [repart EXCEPT !.phase = "restore links", !.restored = rows]
    BY DEF RestoreSources
  <2> QED BY <1>1, <2>1 DEF ShapeInv
<1>12. ~ RestoreLinks /\ ~ SyncSequence BY <1>1 DEF RestoreLinks, SyncSequence, Goto, ShapeInv
<1>13. ~ UNCHANGED vars BY <1>2 DEF vars
<1> QED BY <1>3, <1>4, <1>5, <1>6, <1>7, <1>8, <1>9, <1>10, <1>11, <1>12, <1>13 DEF Next

\* A source that was there when a repartitioning began has its id and
\* its link when it ends, whatever db_manager committed in between.
THEOREM OldSourcesKept == Spec => OldSourcesSurvive
<1>1. ASSUME PartitionsInv, [Next]_vars, RepartEnds, NEW k \in Keys, repart.old[k] # NoRow
      PROVE  /\ sources'[k].id = repart.old[k].id
             /\ k \in repart.oldLinks => k \in links'
  <2>1. RepartCommits \/ RepartAborts BY <1>1, EndingSteps
  <2>2. /\ TypeOK /\ OldInv /\ LinksInv /\ DeletedInv
        /\ sources[k] # NoRow /\ sources[k].id = repart.old[k].id
        /\ sources[k].partition = repart.old[k].partition
    BY <1>1 DEF PartitionsInv, RepartEnds, OldInv
  <2>3. CASE RepartAborts BY <2>2, <2>3 DEF RepartAborts, OldInv
  <2>4. CASE RepartCommits
    <3>1. /\ repart.phase \in Restored /\ repart.phase \in Linked /\ sources' = Visible
          /\ links' = (links \ repart.unlinked) \cup repart.linkBuffer
      BY <2>4 DEF RepartCommits, Restored, Linked
    <3>2. CASE k \in OldDefault
      <4>1. Visible[k].id = repart.old[k].id BY <1>1, <3>1, <3>2, VisibleFacts
      <4>2. k \in repart.oldLinks => k \in repart.linkBuffer BY <2>2, <3>1, <3>2 DEF LinksInv
      <4> QED BY <3>1, <4>1, <4>2
    <3>3. CASE k \notin OldDefault
      <4>1. k \notin DefaultRows BY <1>1, <2>2, <3>3 DEF OldDefault, DefaultRows
      <4>2. k \notin repart.deleted /\ k \notin repart.unlinked
        BY <2>2, <4>1 DEF TypeOK, LinksInv
      <4>3. Visible[k] = sources[k] BY <1>1, <3>1, <3>3, <4>2, VisibleFacts
      <4> QED BY <2>2, <3>1, <4>2, <4>3 DEF OldInv
    <3> QED BY <3>2, <3>3
  <2> QED BY <2>1, <2>3, <2>4
<1>2. PartitionsInv /\ [Next]_vars =>
        (RepartEnds =>
          \A k \in Keys : repart.old[k] # NoRow =>
            /\ sources'[k].id = repart.old[k].id
            /\ k \in repart.oldLinks => k \in links')
  BY <1>1
<1>3. Spec => [][Next]_vars BY DEF Spec
<1> QED BY <1>2, <1>3, PartitionsInvariant, PTL DEF OldSourcesSurvive

\* A repartitioning that no upsert overlapped changes no source and no link,
\* and leaves only the sources without a date in the default partition.
THEOREM RepartitionKeeps == Spec => RepartitionKeepsSources
<1>1. ASSUME PartitionsInv, [Next]_vars, RepartEnds, repart.alone,
             <<sources, links>>' # <<sources, links>>
      PROVE  /\ links' = links
             /\ \A k \in Keys : /\ sources'[k].id = sources[k].id
                                /\ sources'[k].write = sources[k].write
             /\ \A k \in Stored :
                  sources'[k].partition = "default" => Week[k] = Fallback
  <2>1. RepartCommits BY <1>1, EndingSteps DEF RepartAborts
  <2>2. /\ TypeOK /\ OldInv /\ LinksInv /\ DeletedInv /\ CreatedInv
        /\ repart.phase \in Restored /\ repart.phase \in Linked /\ repart.phase \in Creating
        /\ sources' = Visible /\ weeks' = weeks \cup repart.created
        /\ links' = (links \ repart.unlinked) \cup repart.linkBuffer
    BY <1>1, <2>1 DEF PartitionsInv, RepartEnds, RepartCommits, Restored, Linked, Creating
  <2>3. links' = links
    <3>1. repart.linkBuffer = links \cap DefaultRows /\ repart.unlinked \subseteq links \cap DefaultRows
      BY <1>1, <2>2 DEF LinksInv
    <3> QED BY <2>2, <3>1
  <2>4. \A k \in Keys : sources'[k].id = sources[k].id /\ sources'[k].write = sources[k].write
    BY <1>1, <2>2, AloneFacts
  <2>5. ASSUME NEW k \in Stored, sources'[k].partition = "default" PROVE Week[k] = Fallback
    <3>1. k \in Keys /\ sources[k] # NoRow BY DEF Stored
    <3>2. Visible[k] # NoRow BY <1>1, <2>2, <3>1, AloneFacts
    <3>3. k \in Stored' BY <2>2, <3>1, <3>2 DEF Stored
    <3>4. PartitionFor(k, weeks') = "default" BY <1>1, <2>1, <2>5, <3>3, CommitFacts
    <3>5. Week[k] \notin weeks \cup repart.created BY <2>2, <3>4 DEF PartitionFor
    <3> QED BY <1>1, <2>2, <3>5 DEF CreatedInv
  <2> QED BY <2>3, <2>4, <2>5
<1>2. PartitionsInv /\ [Next]_vars =>
        (RepartEnds /\ repart.alone /\ <<sources, links>>' # <<sources, links>> =>
           /\ links' = links
           /\ \A k \in Keys : /\ sources'[k].id = sources[k].id
                              /\ sources'[k].write = sources[k].write
           /\ \A k \in Stored :
                sources'[k].partition = "default" => Week[k] = Fallback)
  BY <1>1
<1>3. Spec => [][Next]_vars BY DEF Spec
<1> QED BY <1>2, <1>3, PartitionsInvariant, PTL DEF RepartitionKeepsSources
===============================================================================
