---------------------------- MODULE CatalogSyncProofs ----------------------------
(***************************************************************************)
(* The catalog sync beside the toggles, for any files, urls, names, tags   *)
(* and contents of the repository.                                         *)
(***************************************************************************)
EXTENDS CatalogSync, FiniteSetTheorems, WellFoundedInduction, TLAPS

-------------------------------------------------------------------------------
(* Types.                                                                  *)

Row ==
  [company : Names \cup {Nobody}, enabled : BOOLEAN, fetchprotection : 0..2, tags : SUBSET Tags]
CompanyRow == [enabled : BOOLEAN, fetchprotection : 0..2]
PartialFunctions(S, T) == UNION {[D -> T] : D \in SUBSET S}
\* A feed in memory that no attribute was set of since the last flush is as it was.
Object ==
  {o \in [was : Row, now : Row, modified : BOOLEAN] : ~ o.modified => o.now = o.was}
Session ==
  [objects : PartialFunctions(Urls, Object), written : PartialFunctions(Urls, Row \cup {NoFeed}),
   deleted : SUBSET Urls, companies : PartialFunctions(Names, 0..2), tags : SUBSET Tags]

Tables ==
  /\ feeds \in [Urls -> Row \cup {NoFeed}]
  /\ companies \in [Names -> CompanyRow \cup {NoCompany}]
  /\ tags \in SUBSET Tags

LEMMA NoFeedIsNoRow == NoFeed \notin Row
<1>1. \A r \in Row : DOMAIN r = {"company", "enabled", "fetchprotection", "tags"} BY DEF Row
<1>2. DOMAIN NoFeed = {"kind"} BY DEF NoFeed
<1> QED BY <1>1, <1>2

LEMMA NoCompanyIsNoRow == NoCompany \notin CompanyRow
<1>1. \A r \in CompanyRow : DOMAIN r = {"enabled", "fetchprotection"} BY DEF CompanyRow
<1>2. DOMAIN NoCompany = {"kind"} BY DEF NoCompany
<1> QED BY <1>1, <1>2

\* The fields of a session are partial functions.
LEMMA SessionFields ==
  ASSUME NEW s \in Session
  PROVE  /\ DOMAIN s.objects \subseteq Urls /\ \A u \in DOMAIN s.objects : s.objects[u] \in Object
         /\ DOMAIN s.written \subseteq Urls /\ \A u \in DOMAIN s.written : s.written[u] \in Row \cup {NoFeed}
         /\ DOMAIN s.companies \subseteq Names /\ \A n \in DOMAIN s.companies : s.companies[n] \in 0..2
         /\ s.deleted \in SUBSET Urls /\ s.tags \in SUBSET Tags
<1>1. PICK D \in SUBSET Urls : s.objects \in [D -> Object] BY DEF Session, PartialFunctions
<1>2. PICK E \in SUBSET Urls : s.written \in [E -> Row \cup {NoFeed}] BY DEF Session, PartialFunctions
<1>3. PICK F \in SUBSET Names : s.companies \in [F -> 0..2] BY DEF Session, PartialFunctions
<1>4. s.deleted \in SUBSET Urls /\ s.tags \in SUBSET Tags BY DEF Session
<1> QED BY <1>1, <1>2, <1>3, <1>4

LEMMA ObjectFields ==
  ASSUME NEW s \in Session, NEW u \in DOMAIN s.objects
  PROVE  s.objects[u].was \in Row /\ s.objects[u].now \in Row
<1>1. s.objects[u] \in Object BY SessionFields
<1> QED BY <1>1 DEF Object

\* A feed that was loaded or flushed, and one that was changed in memory.
LEMMA LoadedObject ==
  ASSUME NEW r \in Row
  PROVE  Unmodified(r) \in Object /\ Unmodified(r).was = r /\ Unmodified(r).now = r
BY DEF Unmodified, Object

LEMMA ChangedObject ==
  ASSUME NEW o, o.was \in Row, NEW r \in Row
  PROVE  Modified(o, r) \in Object /\ Modified(o, r).was = o.was /\ Modified(o, r).now = r
BY DEF Modified, Object

LEMMA FeedRowType ==
  ASSUME Tables, NEW s \in Session, NEW u \in Urls
  PROVE  FeedRow(s, u) \in Row \cup {NoFeed}
BY SessionFields DEF FeedRow, Tables

-------------------------------------------------------------------------------
(* What each operation of the session does to a url.                       *)

\* The UPDATE writes the columns that changed in memory.
LEMMA UpdatedFacts ==
  ASSUME NEW row \in Row, NEW o \in Object
  PROVE  /\ Updated(row, o) \in Row
         /\ Updated(row, o).company = IF o.now.company # o.was.company THEN o.now.company ELSE row.company
         /\ Updated(row, o).enabled = IF o.now.enabled # o.was.enabled THEN o.now.enabled ELSE row.enabled
         /\ Updated(row, o).tags = IF o.now.tags # o.was.tags THEN o.now.tags ELSE row.tags
<1>1. DOMAIN row = {"company", "enabled", "fetchprotection", "tags"} BY DEF Row
<1>2. o.was \in Row /\ o.now \in Row BY DEF Object
<1>3. Updated(row, o) =
        [company |-> IF o.now.company # o.was.company THEN o.now.company ELSE row.company,
         enabled |-> IF o.now.enabled # o.was.enabled THEN o.now.enabled ELSE row.enabled,
         fetchprotection |-> IF o.now.fetchprotection # o.was.fetchprotection
                             THEN o.now.fetchprotection ELSE row.fetchprotection,
         tags |-> IF o.now.tags # o.was.tags THEN o.now.tags ELSE row.tags]
  BY <1>1, <1>2 DEF Updated, Row
<1> QED BY <1>2, <1>3 DEF Row

\* Every loaded feed has a row.
Loaded(s) == \A u \in DOMAIN s.objects : FeedRow(s, u) # NoFeed

LEMMA FlushFacts ==
  ASSUME Tables, NEW s \in Session, Loaded(s), NEW t, t = Flush(s)
  PROVE  /\ t \in Session /\ DOMAIN t.objects = DOMAIN s.objects
         /\ \A u \in DOMAIN s.objects :
              t.objects[u].was = s.objects[u].now /\ t.objects[u].now = s.objects[u].now
         /\ \A u \in Urls : FeedRow(t, u) = IF u \in Dirty(s) THEN Updated(FeedRow(s, u), s.objects[u])
                                            ELSE FeedRow(s, u)
         /\ DOMAIN t.written = DOMAIN s.written \cup Dirty(s)
         /\ \A u \in DOMAIN t.written : t.written[u] = NoFeed => u \in DOMAIN s.written /\ s.written[u] = NoFeed
         /\ t.deleted = s.deleted /\ t.companies = s.companies /\ t.tags = s.tags
<1> DEFINE D == DOMAIN s.objects
           E == DOMAIN s.written \cup Dirty(s)
           o == [u \in D |-> Unmodified(s.objects[u].now)]
           w == [u \in E |-> IF u \in Dirty(s) THEN Updated(FeedRow(s, u), s.objects[u]) ELSE s.written[u]]
<1>1. D \subseteq Urls /\ DOMAIN s.written \subseteq Urls BY SessionFields
<1>2. Dirty(s) \subseteq D BY DEF Dirty
<1>3. \A u \in D : s.objects[u] \in Object /\ s.objects[u].now \in Row BY SessionFields, ObjectFields
<1>4. \A u \in D : FeedRow(s, u) \in Row BY <1>1, FeedRowType DEF Loaded
<1>5. \A u \in D : Updated(FeedRow(s, u), s.objects[u]) \in Row BY <1>3, <1>4, UpdatedFacts
<1>6. o \in [D -> Object] BY <1>3, LoadedObject
<1>7. w \in [E -> Row \cup {NoFeed}] BY <1>2, <1>5, SessionFields
<1>8. /\ o \in PartialFunctions(Urls, Object)
      /\ w \in PartialFunctions(Urls, Row \cup {NoFeed})
  <2>1. D \in SUBSET Urls /\ E \in SUBSET Urls BY <1>1, <1>2
  <2> HIDE DEF o, w, D, E
  <2> QED BY <1>6, <1>7, <2>1 DEF PartialFunctions
<1>9. t = [s EXCEPT !.written = w, !.objects = o] BY DEF Flush
<1>10. /\ t \in Session /\ t.objects = o /\ t.written = w
       /\ t.deleted = s.deleted /\ t.companies = s.companies /\ t.tags = s.tags
  <2> HIDE DEF o, w
  <2> QED BY <1>8, <1>9 DEF Session
<1>11. \A u \in Urls : FeedRow(t, u) = IF u \in Dirty(s) THEN Updated(FeedRow(s, u), s.objects[u])
                                       ELSE FeedRow(s, u)
  BY <1>10 DEF FeedRow
<1>12. \A u \in DOMAIN t.written : t.written[u] = NoFeed => u \in DOMAIN s.written /\ s.written[u] = NoFeed
  BY <1>2, <1>5, <1>10, NoFeedIsNoRow
<1>13. /\ DOMAIN t.objects = DOMAIN s.objects
       /\ DOMAIN t.written = DOMAIN s.written \cup Dirty(s)
  BY <1>6, <1>7, <1>10
<1>14. \A u \in DOMAIN s.objects :
         t.objects[u].was = s.objects[u].now /\ t.objects[u].now = s.objects[u].now
  BY <1>3, <1>10, LoadedObject
<1> HIDE DEF D, E, o, w
<1> QED BY <1>10, <1>11, <1>12, <1>13, <1>14

\* get_or_create_company before its flush.
AddCompany(s, n, p) == [s EXCEPT !.companies = Put(s.companies, n, p)]

LEMMA CompanyFacts ==
  ASSUME Tables, NEW s \in Session, Loaded(s), NEW n \in Names, NEW p \in 0..2,
         NEW t, t = AddCompany(s, n, p)
  PROVE  /\ t \in Session /\ t.objects = s.objects /\ t.written = s.written
         /\ t.deleted = s.deleted /\ t.tags = s.tags
         /\ DOMAIN t.companies = DOMAIN s.companies \cup {n}
         /\ \A u : FeedRow(t, u) = FeedRow(s, u)
<1> DEFINE c == Put(s.companies, n, p)
<1>1. c \in [DOMAIN s.companies \cup {n} -> 0..2] BY SessionFields DEF Put
<1>2. DOMAIN s.companies \cup {n} \in SUBSET Names BY SessionFields
<1>3. c \in PartialFunctions(Names, 0..2)
  <2> HIDE DEF c
  <2> QED BY <1>1, <1>2 DEF PartialFunctions
<1>4. DOMAIN c = DOMAIN s.companies \cup {n} BY <1>1
<1>5. t \in Session /\ t.objects = s.objects /\ t.written = s.written
      /\ t.deleted = s.deleted /\ t.tags = s.tags /\ t.companies = c
  <2> HIDE DEF c
  <2> QED BY <1>3 DEF c, Session, AddCompany
<1> QED BY <1>4, <1>5 DEF FeedRow

\* list_rss_feeds_by_urls.
LEMMA LoadFacts ==
  ASSUME Tables, NEW s \in Session, NEW urls \in SUBSET Urls, NEW t, t = LoadFeeds(s, urls)
  PROVE  /\ t \in Session /\ t.written = s.written /\ t.deleted = s.deleted
         /\ t.companies = s.companies /\ t.tags = s.tags
         /\ \A u : FeedRow(t, u) = FeedRow(s, u)
         /\ DOMAIN s.objects \subseteq DOMAIN t.objects
         /\ \A u \in DOMAIN s.objects : t.objects[u] = s.objects[u]
         /\ \A u \in DOMAIN t.objects : u \notin DOMAIN s.objects =>
              /\ u \in Urls /\ FeedRow(s, u) # NoFeed
              /\ t.objects[u].was = FeedRow(s, u) /\ t.objects[u].now = FeedRow(s, u)
<1> DEFINE found == {u \in urls \ DOMAIN s.objects : FeedRow(s, u) # NoFeed}
           D == DOMAIN s.objects \cup found
           o == [u \in D |-> IF u \in DOMAIN s.objects THEN s.objects[u]
                             ELSE Unmodified(FeedRow(s, u))]
<1>1. D \in SUBSET Urls BY SessionFields
<1>2. \A u \in found : FeedRow(s, u) \in Row BY FeedRowType
<1>3. o \in [D -> Object] BY <1>2, SessionFields, LoadedObject
<1>4. o \in PartialFunctions(Urls, Object)
  <2> HIDE DEF o, D
  <2> QED BY <1>1, <1>3 DEF PartialFunctions
<1>5. t = [s EXCEPT !.objects = o] BY DEF LoadFeeds
<1>6. /\ t \in Session /\ t.objects = o /\ t.written = s.written
      /\ t.deleted = s.deleted /\ t.companies = s.companies /\ t.tags = s.tags
  <2> HIDE DEF o
  <2> QED BY <1>4, <1>5 DEF Session
<1>7. ASSUME NEW u \in found PROVE o[u].was = FeedRow(s, u) /\ o[u].now = FeedRow(s, u)
  BY <1>2, <1>7, LoadedObject
<1> QED BY <1>6, <1>7 DEF FeedRow

\* get_or_create_tags before its flush.
LEMMA TagsFacts ==
  ASSUME NEW s \in Session, NEW names \in SUBSET Tags, NEW t, t = [s EXCEPT !.tags = @ \cup names]
  PROVE  /\ t \in Session /\ t.objects = s.objects /\ t.written = s.written
         /\ t.deleted = s.deleted /\ t.companies = s.companies /\ t.tags = s.tags \cup names
         /\ \A u : FeedRow(t, u) = FeedRow(s, u)
<1>1. s.tags \cup names \in SUBSET Tags BY SessionFields
<1>2. /\ t \in Session /\ t.objects = s.objects /\ t.written = s.written
      /\ t.deleted = s.deleted /\ t.companies = s.companies /\ t.tags = s.tags \cup names
  BY <1>1 DEF Session
<1> QED BY <1>2 DEF FeedRow

UpsertAndLink(s, e, p, n) == LinkCompanyToFeed(UpsertFeed(s, e, p), e.url, n)

\* A new feed: flushed, then linked in memory.
LEMMA InsertFacts ==
  ASSUME NEW s \in Session, NEW f \in Session, f = Flush(s), NEW e, IsEntry(e), NEW p \in 0..2,
         NEW n \in Names, e.url \notin DOMAIN s.objects, DOMAIN f.objects = DOMAIN s.objects,
         NEW t, t = UpsertAndLink(s, e, p, n)
  PROVE  /\ t \in Session /\ DOMAIN t.objects = DOMAIN f.objects \cup {e.url}
         /\ \A v \in DOMAIN f.objects : t.objects[v] = f.objects[v]
         /\ t.objects[e.url].was.company = Nobody /\ t.objects[e.url].was.enabled = e.enabled
         /\ t.objects[e.url].now.company = n /\ t.objects[e.url].now.enabled = e.enabled
         /\ t.objects[e.url].now.tags = e.tags
         /\ FeedRow(t, e.url) \in Row /\ FeedRow(t, e.url).company = Nobody
         /\ FeedRow(t, e.url).enabled = e.enabled /\ FeedRow(t, e.url).tags = e.tags
         /\ \A v : v # e.url => FeedRow(t, v) = FeedRow(f, v)
         /\ DOMAIN t.written = DOMAIN f.written \cup {e.url}
         /\ \A v \in DOMAIN f.written : v # e.url => t.written[v] = f.written[v]
         /\ t.written[e.url] \in Row
         /\ t.deleted = f.deleted /\ t.companies = f.companies /\ t.tags = f.tags
<1>1. PICK u : u = e.url OBVIOUS
<1>2. PICK new : new = [company |-> Nobody, enabled |-> e.enabled, fetchprotection |-> p, tags |-> e.tags]
  OBVIOUS
<1>3. u \in Urls /\ e.enabled \in BOOLEAN /\ e.tags \in SUBSET Tags BY <1>1 DEF IsEntry
<1>4. new \in Row /\ new.company = Nobody /\ new.enabled = e.enabled /\ new.tags = e.tags
  BY <1>2, <1>3 DEF Row
<1>5. PICK linked : linked = [new EXCEPT !.company = n] OBVIOUS
<1>6. linked \in Row /\ linked.company = n /\ linked.enabled = e.enabled /\ linked.tags = e.tags
  BY <1>4, <1>5 DEF Row
<1>7. PICK x : x = Modified(Unmodified(new), linked) OBVIOUS
<1>8. x \in Object /\ x.was = new /\ x.now = linked BY <1>4, <1>6, <1>7, LoadedObject, ChangedObject
<1>9. PICK o : o = Put(f.objects, u, x) OBVIOUS
<1>10. PICK w : w = Put(f.written, u, new) OBVIOUS
<1>11. o \in [DOMAIN f.objects \cup {u} -> Object] BY <1>8, <1>9, SessionFields DEF Put
<1>12. w \in [DOMAIN f.written \cup {u} -> Row \cup {NoFeed}] BY <1>4, <1>10, SessionFields DEF Put
<1>13. /\ o \in PartialFunctions(Urls, Object)
       /\ w \in PartialFunctions(Urls, Row \cup {NoFeed})
  <2>1. DOMAIN f.objects \cup {u} \in SUBSET Urls /\ DOMAIN f.written \cup {u} \in SUBSET Urls
    BY <1>3, SessionFields
  <2> QED BY <1>11, <1>12, <2>1 DEF PartialFunctions
<1>14. PICK q : q = Put(f.objects, u, Unmodified(new)) OBVIOUS
<1>15. UpsertFeed(s, e, p) = [f EXCEPT !.written = w, !.objects = q]
  BY <1>1, <1>2, <1>10, <1>14 DEF UpsertFeed
<1>16. [q EXCEPT ![u] = Modified(@, [@.now EXCEPT !.company = n])] = o
  <2>1. DOMAIN q = DOMAIN f.objects \cup {u} /\ q[u] = Unmodified(new)
    BY <1>14 DEF Put
  <2>2. \A v \in DOMAIN f.objects \cup {u} : v # u => q[v] = f.objects[v] /\ o[v] = f.objects[v]
    BY <1>9, <1>14 DEF Put
  <2>3. o[u] = x /\ DOMAIN o = DOMAIN f.objects \cup {u} BY <1>9 DEF Put
  <2>4. Modified(q[u], [q[u].now EXCEPT !.company = n]) = x
    <3>1. q[u].now = new BY <1>4, <2>1, LoadedObject
    <3> QED BY <1>5, <1>7, <2>1, <3>1
  <2>5. o = [v \in DOMAIN f.objects \cup {u} |-> o[v]] BY <1>11
  <2>6. [q EXCEPT ![u] = Modified(@, [@.now EXCEPT !.company = n])]
          = [v \in DOMAIN q |-> IF v = u THEN Modified(q[u], [q[u].now EXCEPT !.company = n]) ELSE q[v]]
    BY <2>1
  <2> QED BY <2>1, <2>2, <2>3, <2>4, <2>5, <2>6
<1>17. t = [f EXCEPT !.written = w, !.objects = o]
  <2>1. t = [UpsertFeed(s, e, p) EXCEPT !.objects[u] = Modified(@, [@.now EXCEPT !.company = n])]
    BY <1>1 DEF LinkCompanyToFeed, UpsertAndLink
  <2>2. PICK g : g = UpsertFeed(s, e, p) OBVIOUS
  <2>3. g.objects = q /\ g = [f EXCEPT !.written = w, !.objects = q] BY <1>15, <2>2 DEF Session
  <2>4. [g EXCEPT !.objects[u] = Modified(@, [@.now EXCEPT !.company = n])] = [g EXCEPT !.objects = o]
    BY <1>16, <2>3 DEF Session
  <2>5. [g EXCEPT !.objects = o] = [f EXCEPT !.written = w, !.objects = o] BY <2>3 DEF Session
  <2> QED BY <2>1, <2>2, <2>4, <2>5
<1>18. /\ t \in Session /\ t.objects = o /\ t.written = w
       /\ t.deleted = f.deleted /\ t.companies = f.companies /\ t.tags = f.tags
  BY <1>13, <1>17 DEF Session
<1>19. DOMAIN o = DOMAIN f.objects \cup {u} /\ o[u] = x /\ \A v \in DOMAIN f.objects : v # u => o[v] = f.objects[v]
  BY <1>9 DEF Put
<1>20. DOMAIN w = DOMAIN f.written \cup {u} /\ w[u] = new /\ \A v \in DOMAIN f.written : v # u => w[v] = f.written[v]
  BY <1>10 DEF Put
<1>21. FeedRow(t, u) = new /\ \A v : v # u => FeedRow(t, v) = FeedRow(f, v)
  BY <1>18, <1>20 DEF FeedRow
<1>22. u \notin DOMAIN f.objects BY <1>1
<1> QED BY <1>1, <1>4, <1>6, <1>8, <1>18, <1>19, <1>20, <1>21, <1>22

\* A loaded feed: changed and linked in memory.
Changed(s, e, n, t) ==
  /\ t \in Session /\ DOMAIN t.objects = DOMAIN s.objects
  /\ \A v \in DOMAIN s.objects : v # e.url => t.objects[v] = s.objects[v]
  /\ t.objects[e.url].was = s.objects[e.url].was
  /\ t.objects[e.url].now.company = n /\ t.objects[e.url].now.enabled = e.enabled
  /\ t.objects[e.url].now.tags = e.tags
  /\ \A v : FeedRow(t, v) = FeedRow(s, v)
  /\ t.written = s.written /\ t.deleted = s.deleted
  /\ t.companies = s.companies /\ t.tags = s.tags

LEMMA ChangeFacts ==
  ASSUME NEW s \in Session, NEW e, IsEntry(e), NEW p \in 0..2,
         NEW n \in Names, e.url \in DOMAIN s.objects,
         NEW t, t = UpsertAndLink(s, e, p, n)
  PROVE  Changed(s, e, n, t)
<1>1. PICK u : u = e.url OBVIOUS
<1>2. PICK old : old = s.objects[u].now OBVIOUS
<1>3. u \in Urls /\ e.enabled \in BOOLEAN /\ e.tags \in SUBSET Tags /\ u \in DOMAIN s.objects
  BY <1>1 DEF IsEntry
<1>4. old \in Row /\ s.objects[u].was \in Row BY <1>2, <1>3, ObjectFields
<1>5. PICK m : m = MaxOf(old.fetchprotection, p) OBVIOUS
<1>6. m \in 0..2 BY <1>4, <1>5 DEF MaxOf, Row
<1>7. PICK y : y = [old EXCEPT !.enabled = e.enabled, !.fetchprotection = m, !.tags = e.tags] OBVIOUS
<1>8. y \in Row /\ y.enabled = e.enabled /\ y.tags = e.tags BY <1>3, <1>4, <1>6, <1>7 DEF Row
<1>9. PICK linked : linked = [y EXCEPT !.company = n] OBVIOUS
<1>10. linked \in Row /\ linked.company = n /\ linked.enabled = e.enabled /\ linked.tags = e.tags
  BY <1>8, <1>9 DEF Row
<1>11. PICK x : x = Modified(s.objects[u], linked) OBVIOUS
<1>12. x \in Object /\ x.was = s.objects[u].was /\ x.now = linked BY <1>4, <1>10, <1>11, ChangedObject
<1>13. PICK o : o = [v \in DOMAIN s.objects |-> IF v = u THEN x ELSE s.objects[v]] OBVIOUS
<1>14. o \in [DOMAIN s.objects -> Object] BY <1>12, <1>13, SessionFields
<1>15. o \in PartialFunctions(Urls, Object)
  <2>1. DOMAIN s.objects \in SUBSET Urls BY SessionFields
  <2> QED BY <1>14, <2>1 DEF PartialFunctions
<1>16. PICK q : q = [s.objects EXCEPT ![u] = Modified(@, y)] OBVIOUS
<1>17. PICK g : g = UpsertFeed(s, e, p) OBVIOUS
<1>18. g = [s EXCEPT !.objects = q]
  <2>1. g = [s EXCEPT !.objects[u] = Modified(@, y)]
    BY <1>1, <1>2, <1>3, <1>5, <1>7, <1>17 DEF UpsertFeed
  <2> QED BY <1>16, <2>1
<1>19. [q EXCEPT ![u] = Modified(@, [@.now EXCEPT !.company = n])] = o
  <2>1. q = [v \in DOMAIN s.objects |-> IF v = u THEN Modified(s.objects[u], y) ELSE s.objects[v]]
    BY <1>16
  <2>2. q[u] = Modified(s.objects[u], y) BY <1>3, <2>1
  <2>3. q[u].was = s.objects[u].was /\ q[u].now = y BY <1>4, <1>8, <2>2, ChangedObject
  <2>4. Modified(q[u], [q[u].now EXCEPT !.company = n]) = x BY <1>9, <1>11, <2>3 DEF Modified
  <2>5. [q EXCEPT ![u] = Modified(@, [@.now EXCEPT !.company = n])]
          = [v \in DOMAIN q |-> IF v = u THEN Modified(q[u], [q[u].now EXCEPT !.company = n]) ELSE q[v]]
    OBVIOUS
  <2>6. DOMAIN q = DOMAIN s.objects /\ \A v \in DOMAIN s.objects : v # u => q[v] = s.objects[v]
    BY <2>1
  <2> QED BY <1>13, <2>4, <2>5, <2>6
<1>20. t = [s EXCEPT !.objects = o]
  <2>1. t = [g EXCEPT !.objects[u] = Modified(@, [@.now EXCEPT !.company = n])]
    BY <1>1, <1>17 DEF LinkCompanyToFeed, UpsertAndLink
  <2>2. g.objects = q BY <1>18 DEF Session
  <2>3. [g EXCEPT !.objects[u] = Modified(@, [@.now EXCEPT !.company = n])] = [g EXCEPT !.objects = o]
    BY <1>18, <1>19, <2>2 DEF Session
  <2>4. [g EXCEPT !.objects = o] = [s EXCEPT !.objects = o] BY <1>18 DEF Session
  <2> QED BY <2>1, <2>3, <2>4
<1>21. /\ t \in Session /\ t.objects = o /\ t.written = s.written
       /\ t.deleted = s.deleted /\ t.companies = s.companies /\ t.tags = s.tags
  BY <1>15, <1>20 DEF Session
<1>22. DOMAIN o = DOMAIN s.objects /\ o[u] = x /\ \A v \in DOMAIN s.objects : v # u => o[v] = s.objects[v]
  BY <1>3, <1>13
<1>23. \A v : FeedRow(t, v) = FeedRow(s, v) BY <1>21 DEF FeedRow
<1> QED BY <1>1, <1>10, <1>12, <1>21, <1>22, <1>23 DEF Changed

\* delete_company_feeds_not_in_urls.
LEMMA DeleteFacts ==
  ASSUME Tables, NEW s \in Session, NEW n, NEW expected,
         NEW t, t = DeleteCompanyFeedsNotIn(s, n, expected)
  PROVE  /\ t \in Session /\ t.companies = s.companies /\ t.tags = s.tags
         /\ DOMAIN t.objects \subseteq DOMAIN s.objects
         /\ \A u \in DOMAIN t.objects : t.objects[u] = s.objects[u]
         /\ \A u \in Urls : \/ FeedRow(t, u) = NoFeed /\ u \notin DOMAIN t.objects
                            \/ /\ FeedRow(t, u) = FeedRow(s, u)
                               /\ u \in DOMAIN t.objects <=> u \in DOMAIN s.objects
         /\ \A u \in Urls :
              IF u \notin expected /\ FeedRow(s, u) # NoFeed /\ FeedRow(s, u).company = n
              THEN FeedRow(t, u) = NoFeed
              ELSE FeedRow(t, u) = FeedRow(s, u) /\ (u \in DOMAIN t.objects <=> u \in DOMAIN s.objects)
         /\ s.deleted \subseteq t.deleted /\ DOMAIN s.written \subseteq DOMAIN t.written
         /\ \A u \in DOMAIN t.written : t.written[u] = NoFeed =>
              u \in t.deleted \/ (u \in DOMAIN s.written /\ s.written[u] = NoFeed)
<1> DEFINE gone == {u \in Urls \ expected : FeedRow(s, u) # NoFeed /\ FeedRow(s, u).company = n}
           E == DOMAIN s.written \cup gone
           w == [u \in E |-> IF u \in gone THEN NoFeed ELSE s.written[u]]
           D == DOMAIN s.objects \ gone
           o == [u \in D |-> s.objects[u]]
<1>1. D \in SUBSET Urls /\ E \in SUBSET Urls BY SessionFields
<1>2. o \in [D -> Object] BY SessionFields
<1>3. w \in [E -> Row \cup {NoFeed}] BY SessionFields
<1>4. o \in PartialFunctions(Urls, Object) /\ w \in PartialFunctions(Urls, Row \cup {NoFeed})
  <2> HIDE DEF o, w, D, E
  <2> QED BY <1>1, <1>2, <1>3 DEF PartialFunctions
<1>5. t = [s EXCEPT !.written = w, !.deleted = @ \cup gone, !.objects = o]
  BY DEF DeleteCompanyFeedsNotIn, Without
<1>6. s.deleted \cup gone \in SUBSET Urls BY SessionFields
<1>7. /\ t \in Session /\ t.objects = o /\ t.written = w /\ t.deleted = s.deleted \cup gone
      /\ t.companies = s.companies /\ t.tags = s.tags
  <2> HIDE DEF o, w, gone
  <2> QED BY <1>4, <1>5, <1>6 DEF Session
<1>8. \A u \in Urls : FeedRow(t, u) = IF u \in gone THEN NoFeed ELSE FeedRow(s, u)
  BY <1>7 DEF FeedRow
<1>9. DOMAIN o = D /\ DOMAIN w = E OBVIOUS
<1>10. \A u \in Urls : \/ FeedRow(t, u) = NoFeed /\ u \notin DOMAIN t.objects
                       \/ /\ FeedRow(t, u) = FeedRow(s, u)
                          /\ u \in DOMAIN t.objects <=> u \in DOMAIN s.objects
  BY <1>7, <1>8, <1>9
<1>11. \A u \in DOMAIN t.written : t.written[u] = NoFeed =>
         u \in t.deleted \/ (u \in DOMAIN s.written /\ s.written[u] = NoFeed)
  BY <1>7, <1>9
<1>12. \A u \in Urls :
         IF u \notin expected /\ FeedRow(s, u) # NoFeed /\ FeedRow(s, u).company = n
         THEN FeedRow(t, u) = NoFeed
         ELSE FeedRow(t, u) = FeedRow(s, u) /\ (u \in DOMAIN t.objects <=> u \in DOMAIN s.objects)
  BY <1>7, <1>8, <1>9
<1> QED BY <1>7, <1>9, <1>10, <1>11, <1>12

\* The identity map at the end of a file.
LEMMA EndFacts ==
  ASSUME NEW s \in Session, NEW t, t = EndOfFile(s)
  PROVE  /\ t \in Session /\ t.written = s.written /\ t.deleted = s.deleted
         /\ t.companies = s.companies /\ t.tags = s.tags
         /\ \A u : FeedRow(t, u) = FeedRow(s, u)
         /\ DOMAIN t.objects \subseteq DOMAIN s.objects
         /\ \A u \in DOMAIN t.objects : t.objects[u] = s.objects[u]
         /\ \A u \in DOMAIN s.objects : u \notin DOMAIN t.objects => s.objects[u].now = s.objects[u].was
<1> DEFINE D == DOMAIN s.objects \ {u \in DOMAIN s.objects : ~ s.objects[u].modified}
           o == [u \in D |-> s.objects[u]]
<1>1. D \in SUBSET Urls BY SessionFields
<1>2. o \in [D -> Object] BY SessionFields
<1>3. o \in PartialFunctions(Urls, Object)
  <2> HIDE DEF o, D
  <2> QED BY <1>1, <1>2 DEF PartialFunctions
<1>4. t = [s EXCEPT !.objects = o] BY DEF EndOfFile, Without
<1>5. /\ t \in Session /\ t.objects = o /\ t.written = s.written
      /\ t.deleted = s.deleted /\ t.companies = s.companies /\ t.tags = s.tags
  <2> HIDE DEF o
  <2> QED BY <1>3, <1>4 DEF Session
<1>6. \A u \in DOMAIN s.objects : ~ s.objects[u].modified => s.objects[u].now = s.objects[u].was
  BY SessionFields DEF Object
<1> QED BY <1>5, <1>6 DEF FeedRow

-------------------------------------------------------------------------------
(* The invariant of the session.  E are the entries that were handled, K   *)
(* gives the feeds toggled since the sync began the flag last answered.    *)

Flags(E, u) == {e.enabled : e \in {e \in E : e.url = u}}

Answered(K, u, flag) == u \in DOMAIN K /\ K[u] = flag

\* The foreign keys of a row, in the tables as the transaction sees them.
KeysHold(s, r) ==
  /\ r.tags \subseteq tags \cup s.tags
  /\ r.company # Nobody => CompanyExists(s, r.company)

\* A feed in memory: a row without a company yet gets one at the next flush, the
\* flag of the row is the loaded one or the one a toggle answered last, and a flag
\* the next flush writes is the catalog's.
ObjectInv(s, u, E, K) ==
  /\ FeedRow(s, u) # NoFeed
  /\ KeysHold(s, s.objects[u].now) /\ s.objects[u].now.company # Nobody
  /\ FeedRow(s, u).company = Nobody => s.objects[u].was.company = Nobody
  /\ FeedRow(s, u).enabled = s.objects[u].was.enabled \/ Answered(K, u, FeedRow(s, u).enabled)
  /\ s.objects[u].now.enabled # s.objects[u].was.enabled => s.objects[u].now.enabled \in Flags(E, u)
  /\ Flags(E, u) # {} =>
       s.objects[u].now.enabled \in Flags(E, u) \/ Answered(K, u, FeedRow(s, u).enabled)

\* A feed that is not in memory.
RowInv(s, u, E, K) ==
  FeedRow(s, u) # NoFeed =>
    /\ FeedRow(s, u).company # Nobody
    /\ Flags(E, u) # {} =>
         FeedRow(s, u).enabled \in Flags(E, u) \/ Answered(K, u, FeedRow(s, u).enabled)

UrlInv(s, u, E, K) ==
  /\ FeedRow(s, u) # NoFeed => KeysHold(s, FeedRow(s, u))
  /\ u \in DOMAIN s.objects => ObjectInv(s, u, E, K)
  /\ u \notin DOMAIN s.objects => RowInv(s, u, E, K)

SessionInv(s, E, K) ==
  /\ s \in Session
  /\ \A u \in Urls : UrlInv(s, u, E, K)
  /\ \A u \in DOMAIN s.written : s.written[u] = NoFeed => u \in s.deleted

LEMMA SessionLoaded ==
  ASSUME NEW s, NEW E, NEW K, SessionInv(s, E, K)
  PROVE  s \in Session /\ Loaded(s)
<1>1. DOMAIN s.objects \subseteq Urls BY SessionFields DEF SessionInv
<1> QED BY <1>1 DEF SessionInv, UrlInv, ObjectInv, Loaded

\* Keys hold in a session that has more companies and tags.
LEMMA KeysKept ==
  ASSUME NEW s, NEW t, NEW r, KeysHold(s, r), s.tags \subseteq t.tags,
         DOMAIN s.companies \subseteq DOMAIN t.companies
  PROVE  KeysHold(t, r)
BY DEF KeysHold, CompanyExists

LEMMA FlushKeeps ==
  ASSUME Tables, NEW s, NEW E, NEW K, SessionInv(s, E, K)
  PROVE  SessionInv(Flush(s), E, K)
<1>1. s \in Session /\ Loaded(s) BY SessionLoaded
<1>2. PICK t : t = Flush(s) OBVIOUS
<1>3. /\ t \in Session /\ DOMAIN t.objects = DOMAIN s.objects
      /\ \A u \in DOMAIN s.objects :
           t.objects[u].was = s.objects[u].now /\ t.objects[u].now = s.objects[u].now
      /\ \A u \in Urls : FeedRow(t, u) = IF u \in Dirty(s) THEN Updated(FeedRow(s, u), s.objects[u])
                                         ELSE FeedRow(s, u)
      /\ \A u \in DOMAIN t.written : t.written[u] = NoFeed => u \in DOMAIN s.written /\ s.written[u] = NoFeed
      /\ t.deleted = s.deleted /\ t.companies = s.companies /\ t.tags = s.tags
  BY <1>1, <1>2, FlushFacts
<1>4. \A r : KeysHold(s, r) => KeysHold(t, r) BY <1>3, KeysKept
<1>5. ASSUME NEW u \in Urls PROVE UrlInv(t, u, E, K)
  <2>1. UrlInv(s, u, E, K) BY DEF SessionInv
  <2>2. CASE u \notin DOMAIN s.objects
    <3>1. u \notin Dirty(s) BY <2>2 DEF Dirty
    <3>2. FeedRow(t, u) = FeedRow(s, u) BY <1>3, <3>1
    <3> QED BY <1>3, <1>4, <2>1, <2>2, <3>2 DEF UrlInv, RowInv
  <2>3. CASE u \in DOMAIN s.objects
    <3>1. ObjectInv(s, u, E, K) /\ KeysHold(s, FeedRow(s, u)) BY <2>1, <2>3 DEF UrlInv, ObjectInv
    <3>2. FeedRow(s, u) \in Row BY <1>1, <2>3, FeedRowType DEF Loaded
    <3>3. s.objects[u] \in Object BY <1>1, <2>3, SessionFields
    <3>4. PICK x : x = FeedRow(s, u) OBVIOUS
    <3>5. PICK o : o = s.objects[u] OBVIOUS
    <3>6. PICK y : y = FeedRow(t, u) OBVIOUS
    <3>7. /\ y \in Row
          /\ y.company = IF o.now.company # o.was.company THEN o.now.company ELSE x.company
          /\ y.enabled = IF o.now.enabled # o.was.enabled THEN o.now.enabled ELSE x.enabled
          /\ y.tags = IF o.now.tags # o.was.tags THEN o.now.tags ELSE x.tags
      <4>1. CASE u \in Dirty(s)
        <5>1. y = Updated(x, o) BY <1>3, <3>4, <3>5, <3>6, <4>1
        <5> QED BY <3>2, <3>3, <3>4, <3>5, <5>1, UpdatedFacts
      <4>2. CASE u \notin Dirty(s)
        <5>1. y = x BY <1>3, <3>4, <3>6, <4>2
        <5>2. o.now = o.was BY <2>3, <3>5, <4>2 DEF Dirty
        <5> QED BY <3>2, <3>4, <5>1, <5>2
      <4> QED BY <4>1, <4>2
    <3>8. /\ KeysHold(s, o.now) /\ o.now.company # Nobody /\ KeysHold(s, x)
          /\ x.company = Nobody => o.was.company = Nobody
          /\ x.enabled = o.was.enabled \/ Answered(K, u, x.enabled)
          /\ o.now.enabled # o.was.enabled => o.now.enabled \in Flags(E, u)
          /\ Flags(E, u) # {} => o.now.enabled \in Flags(E, u) \/ Answered(K, u, x.enabled)
      BY <3>1, <3>4, <3>5 DEF ObjectInv
    <3>9. y # NoFeed BY <3>7, NoFeedIsNoRow
    <3>10. KeysHold(s, y) BY <3>7, <3>8 DEF KeysHold
    <3>11. y.company # Nobody BY <3>7, <3>8
    <3>12. /\ y.enabled = o.now.enabled \/ Answered(K, u, y.enabled)
           /\ Flags(E, u) # {} => o.now.enabled \in Flags(E, u) \/ Answered(K, u, y.enabled)
      BY <3>7, <3>8
    <3>13. t.objects[u].was = o.now /\ t.objects[u].now = o.now BY <1>3, <2>3, <3>5
    <3>14. ObjectInv(t, u, E, K)
      BY <1>4, <3>6, <3>8, <3>9, <3>11, <3>12, <3>13 DEF ObjectInv
    <3> QED BY <1>3, <1>4, <2>3, <3>6, <3>10, <3>14 DEF UrlInv
  <2> QED BY <2>2, <2>3
<1>6. \A u \in DOMAIN t.written : t.written[u] = NoFeed => u \in t.deleted
  BY <1>3 DEF SessionInv
<1>7. SessionInv(t, E, K) BY <1>3, <1>5, <1>6 DEF SessionInv
<1> QED BY <1>2, <1>7

\* After a flush no row is without company, and the flags are those of the
\* catalog or of a toggle.
LEMMA Flushed ==
  ASSUME Tables, NEW s, NEW E, NEW K, SessionInv(s, E, K), NEW u \in Urls,
         NEW y, y = FeedRow(Flush(s), u), y # NoFeed
  PROVE  /\ y \in Row /\ KeysHold(s, y) /\ y.company # Nobody
         /\ Flags(E, u) # {} => y.enabled \in Flags(E, u) \/ Answered(K, u, y.enabled)
<1>1. PICK t : t = Flush(s) OBVIOUS
<1>2. SessionInv(t, E, K) BY <1>1, FlushKeeps
<1>3. s \in Session /\ Loaded(s) BY SessionLoaded
<1>4. /\ t.companies = s.companies /\ t.tags = s.tags
      /\ DOMAIN t.objects = DOMAIN s.objects
      /\ \A v \in DOMAIN s.objects : t.objects[v].was = s.objects[v].now /\ t.objects[v].now = s.objects[v].now
  BY <1>1, <1>3, FlushFacts
<1>5. y = FeedRow(t, u) /\ UrlInv(t, u, E, K) BY <1>1, <1>2 DEF SessionInv
<1>6. y \in Row BY <1>2, <1>5, FeedRowType DEF SessionInv
<1>7. KeysHold(s, y)
  <2>1. KeysHold(t, y) BY <1>5 DEF UrlInv
  <2> QED BY <1>4, <2>1, KeysKept
<1>8. CASE u \in DOMAIN t.objects
  <2>1. ObjectInv(t, u, E, K) BY <1>5, <1>8 DEF UrlInv
  <2>2. t.objects[u].was = t.objects[u].now BY <1>4, <1>8
  <2> QED BY <1>5, <1>6, <1>7, <2>1, <2>2 DEF ObjectInv
<1>9. CASE u \notin DOMAIN t.objects
  <2>1. RowInv(t, u, E, K) BY <1>5, <1>9 DEF UrlInv
  <2> QED BY <1>5, <1>6, <1>7, <2>1 DEF RowInv
<1> QED BY <1>8, <1>9

LEMMA AddCompanyKeeps ==
  ASSUME Tables, NEW s, NEW E, NEW K, SessionInv(s, E, K), NEW n \in Names, NEW p \in 0..2,
         NEW t, t = AddCompany(s, n, p)
  PROVE  SessionInv(t, E, K)
<1>1. s \in Session /\ Loaded(s) BY SessionLoaded
<1>2. /\ t \in Session /\ t.objects = s.objects /\ t.written = s.written
      /\ t.deleted = s.deleted /\ t.tags = s.tags
      /\ DOMAIN t.companies = DOMAIN s.companies \cup {n}
      /\ \A u : FeedRow(t, u) = FeedRow(s, u)
  BY <1>1, CompanyFacts
<1>3. \A x : KeysHold(s, x) => KeysHold(t, x) BY <1>2, KeysKept
<1>4. ASSUME NEW u \in Urls PROVE UrlInv(t, u, E, K)
  <2>1. UrlInv(s, u, E, K) BY DEF SessionInv
  <2> QED BY <1>2, <1>3, <2>1 DEF UrlInv, ObjectInv, RowInv
<1> QED BY <1>2, <1>4 DEF SessionInv

\* get_or_create_company: afterwards the company exists.
LEMMA CompanyKeeps ==
  ASSUME Tables, NEW s, NEW E, NEW K, SessionInv(s, E, K), NEW n \in Names, NEW p \in 0..2,
         NEW r, r = GetOrCreateCompany(s, n, p)
  PROVE  SessionInv(r, E, K) /\ n \in DOMAIN r.companies
<1>1. s \in Session /\ Loaded(s) BY SessionLoaded
<1>2. PICK t : t = AddCompany(s, n, p) OBVIOUS
<1>3. t \in Session /\ DOMAIN t.companies = DOMAIN s.companies \cup {n} BY <1>1, <1>2, CompanyFacts
<1>4. SessionInv(t, E, K) BY <1>2, AddCompanyKeeps
<1>5. SessionInv(Flush(t), E, K) BY <1>4, FlushKeeps
<1>6. Flush(t).companies = t.companies
  <2>1. Loaded(t) BY <1>4, SessionLoaded
  <2>2. PICK q : q = Flush(t) OBVIOUS
  <2>3. q.companies = t.companies BY <1>3, <2>1, <2>2, FlushFacts
  <2> QED BY <2>2, <2>3
<1>7. r = t \/ r = Flush(t) BY <1>2 DEF GetOrCreateCompany, AddCompany
<1>8. CASE r = t BY <1>3, <1>4, <1>8
<1>9. CASE r = Flush(t) BY <1>3, <1>5, <1>6, <1>9
<1> QED BY <1>7, <1>8, <1>9

\* list_rss_feeds_by_urls.
LEMMA LoadKeeps ==
  ASSUME Tables, NEW s, NEW E, NEW K, SessionInv(s, E, K), NEW urls \in SUBSET Urls,
         NEW t, t = LoadFeeds(s, urls)
  PROVE  SessionInv(t, E, K) /\ t.companies = s.companies
<1>1. s \in Session BY SessionLoaded
<1>2. /\ t \in Session /\ t.written = s.written /\ t.deleted = s.deleted
      /\ t.companies = s.companies /\ t.tags = s.tags
      /\ \A u : FeedRow(t, u) = FeedRow(s, u)
      /\ DOMAIN s.objects \subseteq DOMAIN t.objects
      /\ \A u \in DOMAIN s.objects : t.objects[u] = s.objects[u]
      /\ \A u \in DOMAIN t.objects : u \notin DOMAIN s.objects =>
           /\ u \in Urls /\ FeedRow(s, u) # NoFeed
           /\ t.objects[u].was = FeedRow(s, u) /\ t.objects[u].now = FeedRow(s, u)
  BY <1>1, LoadFacts
<1>3. \A x : KeysHold(s, x) => KeysHold(t, x) BY <1>2, KeysKept
<1>4. ASSUME NEW u \in Urls PROVE UrlInv(t, u, E, K)
  <2>1. UrlInv(s, u, E, K) BY DEF SessionInv
  <2>2. CASE u \in DOMAIN s.objects
    BY <1>2, <1>3, <2>1, <2>2 DEF UrlInv, ObjectInv
  <2>3. CASE u \in DOMAIN t.objects \ DOMAIN s.objects
    <3>1. /\ FeedRow(s, u) # NoFeed /\ FeedRow(t, u) = FeedRow(s, u)
          /\ t.objects[u].was = FeedRow(s, u) /\ t.objects[u].now = FeedRow(s, u)
      BY <1>2, <2>3
    <3>2. RowInv(s, u, E, K) /\ KeysHold(t, FeedRow(s, u)) BY <1>3, <2>1, <2>3, <3>1 DEF UrlInv
    <3> QED BY <2>3, <3>1, <3>2 DEF UrlInv, RowInv, ObjectInv
  <2>4. CASE u \notin DOMAIN t.objects
    BY <1>2, <1>3, <2>1, <2>4 DEF UrlInv, RowInv
  <2> QED BY <1>2, <2>2, <2>3, <2>4
<1> QED BY <1>2, <1>4 DEF SessionInv

LEMMA AddTagsKeeps ==
  ASSUME Tables, NEW s, NEW E, NEW K, SessionInv(s, E, K), NEW names \in SUBSET Tags,
         NEW t, t = [s EXCEPT !.tags = @ \cup names]
  PROVE  SessionInv(t, E, K)
<1>1. s \in Session BY SessionLoaded
<1>2. /\ t \in Session /\ t.objects = s.objects /\ t.written = s.written
      /\ t.deleted = s.deleted /\ t.companies = s.companies /\ t.tags = s.tags \cup names
      /\ \A u : FeedRow(t, u) = FeedRow(s, u)
  BY <1>1, TagsFacts
<1>3. \A x : KeysHold(s, x) => KeysHold(t, x) BY <1>2, KeysKept
<1>4. ASSUME NEW u \in Urls PROVE UrlInv(t, u, E, K)
  <2>1. UrlInv(s, u, E, K) BY DEF SessionInv
  <2> QED BY <1>2, <1>3, <2>1 DEF UrlInv, ObjectInv, RowInv
<1> QED BY <1>2, <1>4 DEF SessionInv

\* get_or_create_tags: afterwards the tags exist.
LEMMA TagsKeep ==
  ASSUME Tables, NEW s, NEW E, NEW K, SessionInv(s, E, K), NEW names \in SUBSET Tags,
         NEW r, r = GetOrCreateTags(s, names)
  PROVE  SessionInv(r, E, K) /\ r.companies = s.companies /\ names \subseteq tags \cup r.tags
<1>1. CASE names \subseteq tags \cup s.tags BY <1>1 DEF GetOrCreateTags
<1>2. CASE ~ (names \subseteq tags \cup s.tags)
  <2>1. s \in Session /\ Loaded(s) BY SessionLoaded
  <2>2. PICK t : t = [s EXCEPT !.tags = @ \cup names] OBVIOUS
  <2>3. /\ t \in Session /\ t.objects = s.objects /\ t.written = s.written
        /\ t.deleted = s.deleted /\ t.companies = s.companies /\ t.tags = s.tags \cup names
        /\ \A u : FeedRow(t, u) = FeedRow(s, u)
    BY <2>1, <2>2, TagsFacts
  <2>4. SessionInv(t, E, K) BY <2>2, AddTagsKeeps
  <2>5. r = Flush(t) BY <1>2, <2>2 DEF GetOrCreateTags
  <2>6. SessionInv(r, E, K) BY <2>4, <2>5, FlushKeeps
  <2>7. r.companies = t.companies /\ r.tags = t.tags
    <3>1. Loaded(t) BY <2>4, SessionLoaded
    <3> QED BY <2>3, <2>5, <3>1, FlushFacts
  <2> QED BY <2>3, <2>6, <2>7
<1> QED BY <1>1, <1>2

LEMMA FlagsOfEntry ==
  ASSUME NEW E, NEW e
  PROVE  /\ e.enabled \in Flags(E \cup {e}, e.url)
         /\ \A u : u # e.url => Flags(E \cup {e}, u) = Flags(E, u)
<1>1. e.enabled \in Flags(E \cup {e}, e.url) BY DEF Flags
<1>2. ASSUME NEW u, u # e.url PROVE Flags(E \cup {e}, u) = Flags(E, u)
  <2>1. \A x : x \in Flags(E \cup {e}, u) <=> x \in Flags(E, u) BY <1>2 DEF Flags
  <2> QED BY <2>1 DEF Flags
<1> QED BY <1>1, <1>2

\* A url that the entry is not about.
LEMMA OtherUrl ==
  ASSUME NEW s, NEW t, NEW E, NEW K, NEW e, NEW u, u # e.url, UrlInv(s, u, E, K),
         FeedRow(t, u) = FeedRow(s, u), u \in DOMAIN t.objects <=> u \in DOMAIN s.objects,
         u \in DOMAIN s.objects => t.objects[u] = s.objects[u],
         t.tags = s.tags, t.companies = s.companies
  PROVE  UrlInv(t, u, E \cup {e}, K)
<1>1. Flags(E \cup {e}, u) = Flags(E, u) BY FlagsOfEntry
<1>2. \A x : KeysHold(s, x) => KeysHold(t, x) BY KeysKept
<1> QED BY <1>1, <1>2 DEF UrlInv, ObjectInv, RowInv

\* upsert_feed and link_company_to_feed.
CanUpsert(s, e, p, n) ==
  /\ IsEntry(e) /\ p \in 0..2
  /\ n \in Names /\ n \in DOMAIN s.companies /\ e.tags \subseteq tags \cup s.tags

LEMMA UpsertKeeps ==
  ASSUME Tables, NEW s, NEW E, NEW K, SessionInv(s, E, K), NEW e, NEW p, NEW n,
         CanUpsert(s, e, p, n), NEW t, t = UpsertAndLink(s, e, p, n)
  PROVE  SessionInv(t, E \cup {e}, K) /\ t.companies = s.companies
<1> USE DEF CanUpsert
<1>1. s \in Session /\ Loaded(s) BY SessionLoaded
<1>2. e.url \in Urls BY DEF IsEntry
<1>3. n # Nobody BY NamesAssumption
<1>4. e.enabled \in Flags(E \cup {e}, e.url) BY FlagsOfEntry
<1>5. CASE e.url \in DOMAIN s.objects
  <2>1. Changed(s, e, n, t) BY <1>1, <1>5, ChangeFacts
  <2>2. \A x : KeysHold(s, x) => KeysHold(t, x) BY <2>1, KeysKept DEF Changed
  <2>3. ASSUME NEW u \in Urls PROVE UrlInv(t, u, E \cup {e}, K)
    <3>1. UrlInv(s, u, E, K) BY DEF SessionInv
    <3>2. CASE u # e.url BY <2>1, <3>1, <3>2, OtherUrl DEF Changed
    <3>3. CASE u = e.url
      <4>1. ObjectInv(s, u, E, K) /\ KeysHold(s, FeedRow(s, u)) BY <1>5, <3>1, <3>3 DEF UrlInv, ObjectInv
      <4>2. KeysHold(t, t.objects[u].now) BY <2>1, <3>3 DEF Changed, KeysHold, CompanyExists
      <4>3. ObjectInv(t, u, E \cup {e}, K)
        BY <1>3, <1>4, <2>1, <3>3, <4>1, <4>2 DEF Changed, ObjectInv
      <4> QED BY <1>5, <2>1, <2>2, <3>3, <4>1, <4>3 DEF Changed, UrlInv
    <3> QED BY <3>2, <3>3
  <2> QED BY <2>1, <2>3 DEF Changed, SessionInv
<1>6. CASE e.url \notin DOMAIN s.objects
  <2>1. PICK f : f = Flush(s) OBVIOUS
  <2>2. SessionInv(f, E, K) BY <2>1, FlushKeeps
  <2>3. f \in Session /\ DOMAIN f.objects = DOMAIN s.objects /\ f.companies = s.companies /\ f.tags = s.tags
    BY <1>1, <2>1, FlushFacts
  <2>4. /\ t \in Session /\ DOMAIN t.objects = DOMAIN f.objects \cup {e.url}
        /\ \A v \in DOMAIN f.objects : t.objects[v] = f.objects[v]
        /\ t.objects[e.url].was.company = Nobody /\ t.objects[e.url].was.enabled = e.enabled
        /\ t.objects[e.url].now.company = n /\ t.objects[e.url].now.enabled = e.enabled
        /\ t.objects[e.url].now.tags = e.tags
        /\ FeedRow(t, e.url) \in Row /\ FeedRow(t, e.url).company = Nobody
        /\ FeedRow(t, e.url).enabled = e.enabled /\ FeedRow(t, e.url).tags = e.tags
        /\ \A v : v # e.url => FeedRow(t, v) = FeedRow(f, v)
        /\ DOMAIN t.written = DOMAIN f.written \cup {e.url}
        /\ \A v \in DOMAIN f.written : v # e.url => t.written[v] = f.written[v]
        /\ t.written[e.url] \in Row
        /\ t.deleted = f.deleted /\ t.companies = f.companies /\ t.tags = f.tags
    BY <1>1, <1>6, <2>1, <2>3, InsertFacts
  <2>5. ASSUME NEW u \in Urls PROVE UrlInv(t, u, E \cup {e}, K)
    <3>1. UrlInv(f, u, E, K) BY <2>2 DEF SessionInv
    <3>2. CASE u # e.url BY <2>4, <3>1, <3>2, OtherUrl
    <3>3. CASE u = e.url
      <4>1. KeysHold(t, t.objects[u].now) BY <2>3, <2>4, <3>3 DEF KeysHold, CompanyExists
      <4>2. KeysHold(t, FeedRow(t, u)) BY <2>3, <2>4, <3>3 DEF KeysHold
      <4>3. FeedRow(t, u) # NoFeed BY <2>4, <3>3, NoFeedIsNoRow
      <4>4. ObjectInv(t, u, E \cup {e}, K)
        BY <1>3, <1>4, <2>4, <3>3, <4>1, <4>3 DEF ObjectInv
      <4> QED BY <2>4, <3>3, <4>2, <4>4 DEF UrlInv
    <3> QED BY <3>2, <3>3
  <2>6. \A u \in DOMAIN t.written : t.written[u] = NoFeed => u \in t.deleted
    BY <2>2, <2>4, NoFeedIsNoRow DEF SessionInv
  <2> QED BY <2>3, <2>4, <2>5, <2>6 DEF SessionInv
<1> QED BY <1>5, <1>6

\* One turn of the loop over the entries.
LEMMA EntryKeeps ==
  ASSUME Tables, NEW s, NEW E, NEW K, SessionInv(s, E, K), NEW e, IsEntry(e),
         NEW n \in Names, n \in DOMAIN s.companies, NEW t, t = SyncEntry(s, e, n)
  PROVE  SessionInv(t, E \cup {e}, K) /\ n \in DOMAIN t.companies
<1>1. PICK r : r = GetOrCreateTags(s, e.tags) OBVIOUS
<1>2. e.tags \in SUBSET Tags BY DEF IsEntry
<1>3. SessionInv(r, E, K) /\ r.companies = s.companies /\ e.tags \subseteq tags \cup r.tags
  BY <1>1, <1>2, TagsKeep
<1>4. PICK p : p = EntryProtection(e, s.companies[n]) OBVIOUS
<1>5. p \in 0..2
  <2>1. s.companies[n] \in 0..2 BY SessionFields DEF SessionInv
  <2> QED BY <1>4, <2>1 DEF EntryProtection, IsEntry
<1>6. t = UpsertAndLink(r, e, p, n) BY <1>1, <1>4 DEF SyncEntry, UpsertAndLink
<1>7. CanUpsert(r, e, p, n) BY <1>3, <1>5 DEF CanUpsert
<1>8. SessionInv(t, E \cup {e}, K) /\ t.companies = r.companies
  BY <1>3, <1>6, <1>7, UpsertKeeps
<1> QED BY <1>3, <1>8

-------------------------------------------------------------------------------
(* The loop over the entries of a file.                                    *)

LEMMA Least ==
  ASSUME NEW T \in SUBSET Nat, T # {}
  PROVE  \E m \in T : \A k \in T : ~ (k < m)
<1>1. PICK m \in T : \A k \in T : ~ (<<k, m>> \in OpToRel(<, Nat))
  BY NatLessThanWellFounded, WFMin
<1> QED BY <1>1 DEF OpToRel

\* f is the sequence of sessions of the first m turns.
Turns(f, s, entries, n, m) ==
  /\ f = [k \in 0..m |-> f[k]]
  /\ f[0] = s
  /\ \A k \in 1..m : f[k] = SyncEntry(f[k - 1], entries[k], n)

LEMMA TurnsExist ==
  ASSUME NEW s, NEW entries, NEW n, NEW N \in Nat
  PROVE  \E f : Turns(f, s, entries, n, N)
<1> DEFINE T == {m \in Nat : ~ \E f : Turns(f, s, entries, n, m)}
<1>1. SUFFICES ASSUME T # {} PROVE FALSE OBVIOUS
<1>2. PICK m \in T : \A k \in T : ~ (k < m)
  <2> HIDE DEF T
  <2>1. T \in SUBSET Nat BY DEF T
  <2> QED BY <1>1, <2>1, Least
<1>3. m # 0
  <2>1. PICK f : f = [k \in 0..0 |-> s] OBVIOUS
  <2>2. f[0] = s /\ f = [k \in 0..0 |-> f[k]] BY <2>1
  <2>3. Turns(f, s, entries, n, 0) BY <2>2 DEF Turns
  <2> QED BY <2>3
<1>4. m - 1 \in Nat /\ m - 1 \notin T BY <1>2, <1>3
<1>5. PICK g : Turns(g, s, entries, n, m - 1) BY <1>4
<1>6. PICK x : x = SyncEntry(g[m - 1], entries[m], n) OBVIOUS
<1>7. PICK f : f = [k \in 0..m |-> IF k = m THEN x ELSE g[k]] OBVIOUS
<1>8. \A k \in 0..m : f[k] = IF k = m THEN x ELSE g[k] BY <1>7
<1>9. f = [k \in 0..m |-> f[k]] BY <1>7
<1>10. f[0] = s BY <1>3, <1>5, <1>8 DEF Turns
<1>11. ASSUME NEW k \in 1..m PROVE f[k] = SyncEntry(f[k - 1], entries[k], n)
  <2>1. CASE k = m
    <3>1. f[k] = x /\ f[k - 1] = g[m - 1] BY <1>8, <1>4, <2>1
    <3> QED BY <1>6, <2>1, <3>1
  <2>2. CASE k # m
    <3>1. k \in 1..(m - 1) /\ k \in 0..m /\ k - 1 \in 0..m /\ k - 1 # m BY <1>4, <2>2
    <3>2. f[k] = g[k] /\ f[k - 1] = g[k - 1] BY <1>8, <2>2, <3>1
    <3> QED BY <1>5, <3>1, <3>2 DEF Turns
  <2> QED BY <2>1, <2>2
<1>12. Turns(f, s, entries, n, m) BY <1>9, <1>10, <1>11 DEF Turns
<1> QED BY <1>2, <1>12

LEMMA EntriesInTurns ==
  ASSUME NEW s, NEW entries, NEW n, Len(entries) \in Nat
  PROVE  \E f : Turns(f, s, entries, n, Len(entries)) /\ SyncEntries(s, entries, n) = f[Len(entries)]
<1> DEFINE f == CHOOSE f : f = [k \in 0..Len(entries) |-> IF k = 0 THEN s ELSE SyncEntry(f[k - 1], entries[k], n)]
<1>1. SyncEntries(s, entries, n) = f[Len(entries)] BY Zenon DEF SyncEntries
<1>2. PICK g : Turns(g, s, entries, n, Len(entries)) BY TurnsExist
<1>3. g = [k \in 0..Len(entries) |-> IF k = 0 THEN s ELSE SyncEntry(g[k - 1], entries[k], n)]
  BY <1>2 DEF Turns
<1>4. f = [k \in 0..Len(entries) |-> IF k = 0 THEN s ELSE SyncEntry(f[k - 1], entries[k], n)]
  BY <1>3, Zenon
<1> HIDE DEF f
<1>5. Turns(f, s, entries, n, Len(entries)) BY <1>4 DEF Turns
<1> QED BY <1>1, <1>5

LEMMA EntriesKeep ==
  ASSUME Tables, NEW s, NEW E, NEW K, SessionInv(s, E, K), NEW n \in Names, n \in DOMAIN s.companies,
         NEW entries, entries \in Seq(ToSet(entries)), \A i \in DOMAIN entries : IsEntry(entries[i]),
         NEW t, t = SyncEntries(s, entries, n)
  PROVE  SessionInv(t, E \cup ToSet(entries), K)
<1>1. Len(entries) \in Nat /\ DOMAIN entries = 1..Len(entries) OBVIOUS
<1>2. PICK f : Turns(f, s, entries, n, Len(entries)) /\ t = f[Len(entries)] BY <1>1, EntriesInTurns
<1> DEFINE Before(k) == {entries[i] : i \in 1..k}
           Kept(k) == SessionInv(f[k], E \cup Before(k), K) /\ n \in DOMAIN f[k].companies
           T == {k \in Nat : k <= Len(entries) /\ ~ Kept(k)}
<1>3. \A k \in 0..Len(entries) : Kept(k)
  <2>1. SUFFICES ASSUME T # {} PROVE FALSE
    <3> HIDE DEF Kept
    <3> QED BY <1>1
  <2>2. PICK m \in T : \A k \in T : ~ (k < m)
    <3> HIDE DEF T
    <3>1. T \in SUBSET Nat BY DEF T
    <3> QED BY <2>1, <3>1, Least
  <2>3. Kept(0)
    <3>1. Before(0) = {} OBVIOUS
    <3>2. E \cup Before(0) = E BY <3>1
    <3> HIDE DEF Before
    <3> QED BY <1>2, <3>2 DEF Turns
  <2> HIDE DEF Kept
  <2>4. m # 0 /\ m \in 1..Len(entries) /\ m - 1 \in Nat BY <1>1, <2>2, <2>3
  <2>5. Kept(m - 1) BY <1>1, <2>2, <2>4
  <2>6. f[m] = SyncEntry(f[m - 1], entries[m], n) BY <1>2, <2>4 DEF Turns
  <2>7. IsEntry(entries[m]) BY <1>1, <2>4
  <2>8. E \cup Before(m) = (E \cup Before(m - 1)) \cup {entries[m]}
    <3>1. \A i : i \in 1..m <=> i \in 1..(m - 1) \/ i = m BY <2>4
    <3> QED BY <3>1
  <2>9. PICK F : F = E \cup Before(m - 1) OBVIOUS
  <2>10. PICK a : a = f[m - 1] OBVIOUS
  <2>11. PICK b : b = f[m] OBVIOUS
  <2>12. PICK e : e = entries[m] OBVIOUS
  <2>13. SessionInv(a, F, K) /\ n \in DOMAIN a.companies BY <2>5, <2>9, <2>10 DEF Kept
  <2>14. SessionInv(b, F \cup {e}, K) /\ n \in DOMAIN b.companies
    BY <2>6, <2>7, <2>10, <2>11, <2>12, <2>13, EntryKeeps
  <2>15. Kept(m)
    <3> HIDE DEF Before
    <3> QED BY <2>8, <2>9, <2>11, <2>12, <2>14 DEF Kept
  <2> QED BY <2>2, <2>15
<1>4. Before(Len(entries)) = ToSet(entries) BY <1>1 DEF ToSet
<1>5. Kept(Len(entries))
  <2> HIDE DEF Kept
  <2> QED BY <1>1, <1>3
<1> QED BY <1>2, <1>4, <1>5

-------------------------------------------------------------------------------
(* The files.                                                              *)

\* delete_company_feeds_not_in_urls.
LEMMA DeleteKeeps ==
  ASSUME Tables, NEW s, NEW E, NEW K, SessionInv(s, E, K), NEW n, NEW expected,
         NEW t, t = DeleteCompanyFeedsNotIn(s, n, expected)
  PROVE  SessionInv(t, E, K)
<1>1. s \in Session BY SessionLoaded
<1>2. /\ t \in Session /\ t.companies = s.companies /\ t.tags = s.tags
      /\ DOMAIN t.objects \subseteq DOMAIN s.objects
      /\ \A u \in DOMAIN t.objects : t.objects[u] = s.objects[u]
      /\ \A u \in Urls : \/ FeedRow(t, u) = NoFeed /\ u \notin DOMAIN t.objects
                         \/ /\ FeedRow(t, u) = FeedRow(s, u)
                            /\ u \in DOMAIN t.objects <=> u \in DOMAIN s.objects
      /\ s.deleted \subseteq t.deleted /\ DOMAIN s.written \subseteq DOMAIN t.written
      /\ \A u \in DOMAIN t.written : t.written[u] = NoFeed =>
           u \in t.deleted \/ (u \in DOMAIN s.written /\ s.written[u] = NoFeed)
  BY <1>1, DeleteFacts
<1>3. \A x : KeysHold(s, x) => KeysHold(t, x) BY <1>2, KeysKept
<1>4. ASSUME NEW u \in Urls PROVE UrlInv(t, u, E, K)
  <2>1. UrlInv(s, u, E, K) BY DEF SessionInv
  <2>2. CASE FeedRow(t, u) = NoFeed /\ u \notin DOMAIN t.objects BY <2>2 DEF UrlInv, RowInv
  <2>3. CASE FeedRow(t, u) = FeedRow(s, u) /\ (u \in DOMAIN t.objects <=> u \in DOMAIN s.objects)
    BY <1>2, <1>3, <2>1, <2>3 DEF UrlInv, ObjectInv, RowInv
  <2> QED BY <1>2, <2>2, <2>3
<1>5. \A u \in DOMAIN t.written : t.written[u] = NoFeed => u \in t.deleted
  BY <1>2 DEF SessionInv
<1> QED BY <1>2, <1>4, <1>5 DEF SessionInv

\* The end of _sync_catalog_file.
LEMMA EndKeeps ==
  ASSUME Tables, NEW s, NEW E, NEW K, SessionInv(s, E, K), NEW t, t = EndOfFile(s)
  PROVE  SessionInv(t, E, K)
<1>1. s \in Session BY SessionLoaded
<1>2. /\ t \in Session /\ t.written = s.written /\ t.deleted = s.deleted
      /\ t.companies = s.companies /\ t.tags = s.tags
      /\ \A u : FeedRow(t, u) = FeedRow(s, u)
      /\ DOMAIN t.objects \subseteq DOMAIN s.objects
      /\ \A u \in DOMAIN t.objects : t.objects[u] = s.objects[u]
      /\ \A u \in DOMAIN s.objects : u \notin DOMAIN t.objects => s.objects[u].now = s.objects[u].was
  BY <1>1, EndFacts
<1>3. \A x : KeysHold(s, x) => KeysHold(t, x) BY <1>2, KeysKept
<1>4. ASSUME NEW u \in Urls PROVE UrlInv(t, u, E, K)
  <2>1. UrlInv(s, u, E, K) BY DEF SessionInv
  <2>2. CASE u \in DOMAIN t.objects \/ u \notin DOMAIN s.objects
    BY <1>2, <1>3, <2>1, <2>2 DEF UrlInv, ObjectInv, RowInv
  <2>3. CASE u \in DOMAIN s.objects /\ u \notin DOMAIN t.objects
    <3>1. ObjectInv(s, u, E, K) /\ s.objects[u].now = s.objects[u].was BY <1>2, <2>1, <2>3 DEF UrlInv
    <3>2. RowInv(s, u, E, K) BY <3>1 DEF ObjectInv, RowInv
    <3> QED BY <1>2, <1>3, <2>1, <2>3, <3>2 DEF UrlInv, RowInv
  <2> QED BY <2>2, <2>3
<1> QED BY <1>2, <1>4 DEF SessionInv

\* _sync_catalog_file for a file that exists.
LEMMA PresentFileKeeps ==
  ASSUME Tables, NEW s, NEW E, NEW K, SessionInv(s, E, K), NEW f \in Files,
         NEW c, IsContent(c), c.kind = "catalog", NEW t, t = SyncPresentFile(s, f, c)
  PROVE  SessionInv(t, E \cup ToSet(c.feeds), K)
<1>1. /\ c.company \in Names \cup {Nobody} /\ c.fetchprotection \in 0..2
      /\ c.feeds \in Seq(ToSet(c.feeds)) /\ \A i \in DOMAIN c.feeds : IsEntry(c.feeds[i])
  <2>1. c # Absent /\ c # Broken BY DEF Absent, Broken
  <2> QED BY <2>1 DEF IsContent
<1>2. PICK n : n = CompanyName(f, c) OBVIOUS
<1>3. n \in Names BY <1>1, <1>2, FilesAssumption DEF CompanyName
<1>4. PICK p : p = c.fetchprotection OBVIOUS
<1>5. PICK q : q = GetOrCreateCompany(s, n, p) OBVIOUS
<1>6. SessionInv(q, E, K) /\ n \in DOMAIN q.companies BY <1>1, <1>3, <1>4, <1>5, CompanyKeeps
<1>7. PICK urls : urls = Listed(c) OBVIOUS
<1>8. urls \in SUBSET Urls BY <1>1, <1>7 DEF Listed, IsEntry
<1>9. PICK r : r = LoadFeeds(q, urls) OBVIOUS
<1>10. SessionInv(r, E, K) /\ r.companies = q.companies BY <1>6, <1>8, <1>9, LoadKeeps
<1>11. n \in DOMAIN r.companies BY <1>6, <1>10
<1>12. PICK entries : entries = c.feeds OBVIOUS
<1>13. PICK x : x = SyncEntries(r, entries, n) OBVIOUS
<1>14. entries \in Seq(ToSet(entries)) /\ \A i \in DOMAIN entries : IsEntry(entries[i]) BY <1>1, <1>12
<1>15. SessionInv(x, E \cup ToSet(entries), K) BY <1>3, <1>10, <1>11, <1>13, <1>14, EntriesKeep
<1>16. t = DeleteCompanyFeedsNotIn(x, n, urls)
  BY <1>2, <1>4, <1>5, <1>7, <1>9, <1>12, <1>13 DEF SyncPresentFile
<1> QED BY <1>12, <1>15, <1>16, DeleteKeeps

\* _sync_catalog_file for a file that disappeared.
LEMMA MissingFileKeeps ==
  ASSUME Tables, NEW s, NEW E, NEW K, SessionInv(s, E, K), NEW f, NEW t, t = SyncMissingFile(s, f)
  PROVE  SessionInv(t, E, K)
<1>1. PICK n : n = NameOf[f] OBVIOUS
<1>2. PICK x : x = DeleteCompanyFeedsNotIn(s, n, {}) OBVIOUS
<1>3. SessionInv(x, E, K) BY <1>2, DeleteKeeps
<1> QED BY <1>1, <1>2, <1>3 DEF SyncMissingFile

-------------------------------------------------------------------------------
(* The invariant of the state.                                             *)

Repository(r) == DOMAIN r = Files /\ \A f \in Files : IsContent(r[f])

\* The committed rows.
RowsHold ==
  \A u \in Urls : feeds[u] # NoFeed =>
    /\ feeds[u].company \in Names /\ companies[feeds[u].company] # NoCompany
    /\ feeds[u].tags \subseteq tags

\* The entries of the files the sync has handled.
DoneEntries == UNION {ToSet(checkout[f].feeds) : f \in Catalogs \cap sync.done}

SyncRequest ==
  [phase : {"files"}, full : BOOLEAN, todo : Seq(Files), done : SUBSET Files,
   session : Session, toggled : PartialFunctions(Urls, BOOLEAN)]

SyncInv ==
  sync # Idle =>
    /\ sync \in SyncRequest /\ Repository(checkout)
    /\ SessionInv(sync.session, DoneEntries, sync.toggled)

\* The row a toggle has read is there, unless the sync deleted it.
ToggleInv ==
  toggle # Idle =>
    /\ toggle \in [phase : {"write"}, url : Urls, enabled : BOOLEAN, gone : BOOLEAN]
    /\ toggle.gone \/ feeds[toggle.url] # NoFeed

CompanyToggleInv ==
  companyToggle # Idle =>
    /\ companyToggle \in [phase : {"write"}, name : Names, enabled : BOOLEAN]
    /\ companies[companyToggle.name] # NoCompany

Repositories == Repository(remote) /\ (checkout # <<>> => Repository(checkout))

CatalogInv ==
  Tables /\ RowsHold /\ Repositories /\ SyncInv /\ ToggleInv /\ CompanyToggleInv

\* The tables are read only.
LEMMA ReadOnlySession ==
  ASSUME NEW s, NEW E, NEW K, SessionInv(s, E, K), UNCHANGED dbVars
  PROVE  SessionInv(s, E, K)'
BY DEF dbVars, SessionInv, UrlInv, ObjectInv, RowInv, KeysHold, FeedRow, CompanyExists, Flags, Answered

LEMMA ReadOnlySync ==
  ASSUME SyncInv, UNCHANGED <<checkout, sync, dbVars>>
  PROVE  SyncInv'
<1>1. CASE sync = Idle BY <1>1 DEF SyncInv, Idle
<1>2. CASE sync # Idle
  <2>1. PICK s : s = sync.session OBVIOUS
  <2>2. PICK E : E = DoneEntries OBVIOUS
  <2>3. PICK K : K = sync.toggled OBVIOUS
  <2>4. SessionInv(s, E, K) BY <1>2, <2>1, <2>2, <2>3 DEF SyncInv
  <2>5. SessionInv(s, E, K)' BY <2>4, ReadOnlySession
  <2>6. DoneEntries' = E /\ sync'.session = s /\ sync'.toggled = K
    BY <2>1, <2>2, <2>3 DEF DoneEntries, Catalogs, HasCatalog
  <2>7. SessionInv(sync.session, DoneEntries, sync.toggled)' BY <2>5, <2>6
  <2> QED BY <1>2, <2>7 DEF SyncInv, SyncRequest, Repository, Idle, Session
<1> QED BY <1>1, <1>2

\* A toggle of a feed the sync has not written.
LEMMA ToggledSession ==
  ASSUME Tables, NEW s, NEW E, NEW K, SessionInv(s, E, K), NEW v \in Urls, NEW b \in BOOLEAN,
         v \notin DOMAIN s.written, feeds[v] # NoFeed,
         feeds' = [feeds EXCEPT ![v].enabled = b], UNCHANGED <<companies, tags>>,
         NEW L, L = Put(K, v, b)
  PROVE  SessionInv(s, E, L)'
<1>1. s \in Session BY SessionLoaded
<1>2. PICK x : x = feeds[v] OBVIOUS
<1>3. x \in Row BY <1>2 DEF Tables
<1>4. PICK y : y = [x EXCEPT !.enabled = b] OBVIOUS
<1>5. y \in Row /\ y.company = x.company /\ y.tags = x.tags /\ y.enabled = b BY <1>3, <1>4 DEF Row
<1>6. feeds'[v] = y /\ \A u \in Urls : u # v => feeds'[u] = feeds[u] BY <1>2, <1>4 DEF Tables
<1>7. FeedRow(s, v) = x /\ FeedRow(s, v)' = y BY <1>2, <1>6 DEF FeedRow
<1>8. \A u \in Urls : u # v => FeedRow(s, u)' = FeedRow(s, u) BY <1>6 DEF FeedRow
<1>9. \A r : KeysHold(s, r) => KeysHold(s, r)' BY DEF KeysHold, CompanyExists
<1>10. ASSUME NEW u \in Urls PROVE UrlInv(s, u, E, L)'
  <2>1. UrlInv(s, u, E, K) BY DEF SessionInv
  <2>2. CASE u # v
    <3>1. \A flag : Answered(K, u, flag) => Answered(L, u, flag) BY <2>2 DEF Answered, Put
    <3> QED BY <1>8, <1>9, <2>1, <2>2, <3>1 DEF UrlInv, ObjectInv, RowInv, Flags
  <2>3. CASE u = v
    <3>1. x # NoFeed /\ y # NoFeed BY <1>3, <1>5, NoFeedIsNoRow
    <3>2. KeysHold(s, x) BY <1>7, <2>1, <2>3, <3>1 DEF UrlInv
    <3>3. KeysHold(s, y)' /\ Answered(L, v, y.enabled) BY <1>5, <1>9, <3>2 DEF KeysHold, Answered, Put
    <3>4. CASE u \in DOMAIN s.objects
      <4>1. ObjectInv(s, v, E, K) BY <2>1, <2>3, <3>4 DEF UrlInv
      <4>2. ObjectInv(s, v, E, L)'
        BY <1>5, <1>7, <1>9, <3>1, <3>3, <4>1 DEF ObjectInv, Flags
      <4> QED BY <1>7, <2>3, <3>3, <3>4, <4>2 DEF UrlInv
    <3>5. CASE u \notin DOMAIN s.objects
      <4>1. RowInv(s, v, E, K) BY <2>1, <2>3, <3>5 DEF UrlInv
      <4>2. RowInv(s, v, E, L)' BY <1>5, <1>7, <3>1, <3>3, <4>1 DEF RowInv
      <4> QED BY <1>7, <2>3, <3>3, <3>5, <4>2 DEF UrlInv
    <3> QED BY <3>4, <3>5
  <2> QED BY <2>2, <2>3
<1> QED BY <1>1, <1>10 DEF SessionInv

\* A toggle of a company.
LEMMA CompanyToggledSession ==
  ASSUME Tables, NEW s, NEW E, NEW K, SessionInv(s, E, K), UNCHANGED <<feeds, tags>>,
         \A n \in Names : companies[n] # NoCompany => companies'[n] # NoCompany
  PROVE  SessionInv(s, E, K)'
<1>1. \A r \in Row : KeysHold(s, r) => KeysHold(s, r)' BY DEF KeysHold, CompanyExists, Row
<1>2. \A u : FeedRow(s, u)' = FeedRow(s, u) BY DEF FeedRow
<1>3. s \in Session BY SessionLoaded
<1>4. ASSUME NEW u \in Urls PROVE UrlInv(s, u, E, K)'
  <2>1. UrlInv(s, u, E, K) BY DEF SessionInv
  <2>2. FeedRow(s, u) # NoFeed => FeedRow(s, u) \in Row BY <1>3, FeedRowType
  <2>3. u \in DOMAIN s.objects => s.objects[u].now \in Row BY <1>3, ObjectFields
  <2> QED BY <1>1, <1>2, <2>1, <2>2, <2>3 DEF UrlInv, ObjectInv, RowInv, Flags
<1> QED BY <1>4 DEF SessionInv

\* The session at the beginning of a sync.
LEMMA NewSessionInv ==
  ASSUME Tables, RowsHold
  PROVE  SessionInv(NewSession, {}, <<>>)
<1>1. <<>> \in [{} -> Object] /\ <<>> \in [{} -> Row \cup {NoFeed}] /\ <<>> \in [{} -> 0..2] OBVIOUS
<1>2. /\ <<>> \in PartialFunctions(Urls, Object)
      /\ <<>> \in PartialFunctions(Urls, Row \cup {NoFeed})
      /\ <<>> \in PartialFunctions(Names, 0..2)
  <2>1. {} \in SUBSET Urls /\ {} \in SUBSET Names OBVIOUS
  <2> QED BY <1>1, <2>1 DEF PartialFunctions
<1>3. NewSession \in Session BY <1>2 DEF NewSession, Session
<1>4. PICK s : s = NewSession OBVIOUS
<1>5. DOMAIN s.objects = {} /\ DOMAIN s.written = {} BY <1>4 DEF NewSession
<1>6. ASSUME NEW u \in Urls PROVE UrlInv(s, u, {}, <<>>)
  <2>1. FeedRow(s, u) = feeds[u] BY <1>5 DEF FeedRow
  <2>2. Flags({}, u) = {} BY DEF Flags
  <2>3. feeds[u] # NoFeed => KeysHold(s, feeds[u]) /\ feeds[u].company # Nobody
    BY NamesAssumption DEF RowsHold, KeysHold, CompanyExists
  <2> QED BY <1>5, <2>1, <2>2, <2>3 DEF UrlInv, RowInv
<1> QED BY <1>3, <1>4, <1>5, <1>6 DEF SessionInv

-------------------------------------------------------------------------------
(* Every action keeps the invariant.                                       *)

LEMMA CatalogInit == Init => CatalogInv
<1> SUFFICES ASSUME Init PROVE CatalogInv OBVIOUS
<1>1. Tables BY DEF Init, Tables
<1>2. RowsHold BY DEF Init, RowsHold
<1>3. Repositories BY DEF Init, Repositories, Repository, IsContent
<1>4. SyncInv /\ ToggleInv /\ CompanyToggleInv BY DEF Init, SyncInv, ToggleInv, CompanyToggleInv
<1> QED BY <1>1, <1>2, <1>3, <1>4 DEF CatalogInv

LEMMA PushKeeps ==
  ASSUME CatalogInv, NEW revision \in Revisions, Push(revision)
  PROVE  CatalogInv'
<1> USE DEF CatalogInv, Push, toggleVars
<1>1. Tables' /\ RowsHold' BY DEF Tables, RowsHold
<1>2. Repositories' BY RevisionsAssumption DEF Repositories, Repository
<1>3. SyncInv' BY ReadOnlySync DEF dbVars
<1>4. ToggleInv' /\ CompanyToggleInv' BY DEF ToggleInv, CompanyToggleInv
<1> QED BY <1>1, <1>2, <1>3, <1>4

\* The walks are sequences of files.
LEMMA WalkType ==
  ASSUME NEW S \in SUBSET Files, NEW walk \in SetToSeqs(S)
  PROVE  walk \in Seq(Files)
<1>1. IsFiniteSet(S) BY FilesAssumption, FS_Subset
<1>2. Cardinality(S) \in Nat BY <1>1, FS_CardinalityType
<1>3. walk \in [1..Cardinality(S) -> S] BY DEF SetToSeqs
<1> QED BY <1>2, <1>3

LEMMA BeginKeeps ==
  ASSUME CatalogInv, NEW force \in BOOLEAN, NEW todo \in Seq(Files), BeginSync(force, todo),
         UNCHANGED <<remote, dbVars, toggleVars, pushes, failures>>
  PROVE  CatalogInv'
<1> USE DEF CatalogInv, toggleVars, dbVars
<1>1. Tables' /\ RowsHold' BY DEF Tables, RowsHold
<1>2. Repositories' BY DEF Repositories, Repository, BeginSync
<1>3. ToggleInv' /\ CompanyToggleInv' BY DEF ToggleInv, CompanyToggleInv
<1>4. SyncInv'
  <2>1. CASE todo = <<>> BY <2>1 DEF SyncInv, BeginSync
  <2>2. CASE todo # <<>>
    <3>1. PICK full \in BOOLEAN : full = (force \/ checkout = <<>>) OBVIOUS
    <3>2. PICK s : s = NewSession OBVIOUS
    <3>3. sync' = [phase |-> "files", full |-> full, todo |-> todo, done |-> {}, session |-> s, toggled |-> <<>>]
      BY <2>2, <3>1, <3>2 DEF BeginSync
    <3>4. SessionInv(s, {}, <<>>) BY <3>2, NewSessionInv
    <3>5. s \in Session BY <3>4, SessionLoaded
    <3>6. sync'.session = s /\ sync'.done = {} /\ sync'.toggled = <<>> BY <3>3
    <3>7. sync' \in SyncRequest
      <4>1. <<>> \in [{} -> BOOLEAN] /\ {} \in SUBSET Urls OBVIOUS
      <4>2. <<>> \in PartialFunctions(Urls, BOOLEAN) BY <4>1 DEF PartialFunctions
      <4> QED BY <3>3, <3>5, <4>2 DEF SyncRequest
    <3>8. DoneEntries' = {} BY <3>6 DEF DoneEntries
    <3>9. SessionInv(s, {}, <<>>)' BY <3>4, ReadOnlySession
    <3>10. SessionInv(sync.session, DoneEntries, sync.toggled)' BY <3>6, <3>8, <3>9
    <3>11. Repository(checkout)' BY DEF Repositories, Repository, BeginSync
    <3>12. (sync \in SyncRequest)' BY <3>7 DEF SyncRequest, Session
    <3> QED BY <3>10, <3>11, <3>12 DEF SyncInv
  <2> QED BY <2>1, <2>2
<1> QED BY <1>1, <1>2, <1>3, <1>4

LEMMA SyncRepositoryKeeps ==
  ASSUME CatalogInv, NEW force \in BOOLEAN, SyncRepository(force)
  PROVE  CatalogInv'
<1>1. CASE \E walk \in Walks : BeginSync(force, walk)
  <2>1. PICK walk \in Walks : BeginSync(force, walk) BY <1>1
  <2>2. {f \in CatalogFiles : remote[f] # Absent} \in SUBSET Files BY FilesAssumption
  <2>3. walk \in Seq(Files) BY <2>2, WalkType DEF Walks
  <2> QED BY <2>1, <2>3, BeginKeeps DEF SyncRepository
<1>2. CASE \E changed \in ChangedFiles : BeginSync(force, changed)
  <2>1. PICK changed \in ChangedFiles : BeginSync(force, changed) BY <1>2
  <2>2. PICK renamed : changed \in SetToSeqs((Differing \ QuotedFiles) \ renamed) BY <2>1 DEF ChangedFiles
  <2>3. PICK S : S = (Differing \ QuotedFiles) \ renamed OBVIOUS
  <2>4. S \in SUBSET Files BY <2>3 DEF Differing
  <2>5. changed \in Seq(Files) BY <2>2, <2>3, <2>4, WalkType
  <2> QED BY <2>1, <2>5, BeginKeeps DEF SyncRepository
<1> QED BY <1>1, <1>2 DEF SyncRepository

LEMMA SyncFileKeeps ==
  ASSUME CatalogInv, SyncFile
  PROVE  CatalogInv'
<1> USE DEF CatalogInv, toggleVars, dbVars
<1>1. UNCHANGED <<remote, checkout, companies, feeds, tags, toggle, companyToggle>> BY DEF SyncFile
<1>2. Tables' /\ RowsHold' BY <1>1 DEF Tables, RowsHold
<1>3. Repositories' BY <1>1 DEF Repositories, Repository
<1>4. ToggleInv' /\ CompanyToggleInv' BY <1>1 DEF ToggleInv, CompanyToggleInv
<1>5. sync # Idle BY DEF SyncFile, Idle
<1>6. PICK f : f = Head(sync.todo) OBVIOUS
<1>7. PICK s : s = sync.session OBVIOUS
<1>8. PICK c : c = checkout[f] OBVIOUS
<1>9. PICK r : r = IF HasCatalog(checkout, f) THEN SyncPresentFile(s, f, c) ELSE SyncMissingFile(s, f) OBVIOUS
<1>10. PICK t : t = EndOfFile(r) OBVIOUS
<1>11. PICK E : E = DoneEntries OBVIOUS
<1>12. PICK K : K = sync.toggled OBVIOUS
<1>13. sync \in SyncRequest /\ Repository(checkout) /\ SessionInv(s, E, K)
  BY <1>5, <1>7, <1>11, <1>12 DEF SyncInv
<1>14. f \in Files /\ Tail(sync.todo) \in Seq(Files)
  <2>1. sync.todo \in Seq(Files) /\ sync.todo # <<>> BY <1>13 DEF SyncRequest, SyncFile
  <2> QED BY <1>6, <2>1
<1>15. sync' = [sync EXCEPT !.todo = Tail(sync.todo), !.done = sync.done \cup {f}, !.session = t]
  BY <1>6, <1>7, <1>8, <1>9, <1>10 DEF SyncFile
<1>16. sync'.session = t /\ sync'.done = sync.done \cup {f} /\ sync'.toggled = K
  BY <1>12, <1>13, <1>15 DEF SyncRequest
<1>17. PICK F : F = DoneEntries' OBVIOUS
<1>18. SessionInv(t, F, K)
  <2>1. CASE HasCatalog(checkout, f)
    <3>1. c.kind = "catalog" /\ IsContent(c) BY <1>8, <1>13, <1>14, <2>1 DEF HasCatalog, Repository
    <3>2. r = SyncPresentFile(s, f, c) BY <1>9, <2>1
    <3>3. SessionInv(r, E \cup ToSet(c.feeds), K) BY <1>13, <1>14, <3>1, <3>2, PresentFileKeeps
    <3>4. \A g : g \in (Catalogs \cap sync.done)' <=> g \in Catalogs \cap sync.done \/ g = f
      BY <1>1, <1>14, <1>16, <2>1 DEF Catalogs, HasCatalog
    <3>5. F = E \cup ToSet(c.feeds)
      <4>1. \A x : x \in F <=> x \in E \cup ToSet(c.feeds)
        BY <1>1, <1>8, <1>11, <1>17, <3>4 DEF DoneEntries
      <4> QED BY <4>1
    <3> QED BY <1>10, <3>3, <3>5, EndKeeps
  <2>2. CASE ~ HasCatalog(checkout, f)
    <3>1. r = SyncMissingFile(s, f) BY <1>9, <2>2
    <3>2. SessionInv(r, E, K) BY <1>13, <3>1, MissingFileKeeps
    <3>3. (Catalogs \cap sync.done)' = Catalogs \cap sync.done
      BY <1>1, <1>16, <2>2 DEF Catalogs, HasCatalog
    <3>4. F = E BY <1>1, <1>11, <1>17, <3>3 DEF DoneEntries
    <3> QED BY <1>10, <3>2, <3>4, EndKeeps
  <2> QED BY <2>1, <2>2
<1>19. SyncInv'
  <2>1. t \in Session BY <1>18, SessionLoaded
  <2>2. sync' \in SyncRequest BY <1>13, <1>14, <1>15, <2>1 DEF SyncRequest
  <2>3. SessionInv(t, F, K)' BY <1>1, <1>18, ReadOnlySession
  <2>4. SessionInv(sync.session, DoneEntries, sync.toggled)' BY <1>16, <1>17, <2>3
  <2>5. Repository(checkout)' BY <1>1, <1>13 DEF Repository
  <2>6. (sync \in SyncRequest)' BY <2>2 DEF SyncRequest, Session
  <2> QED BY <2>4, <2>5, <2>6 DEF SyncInv
<1> QED BY <1>2, <1>3, <1>4, <1>19

\* What the commit of a sync writes.
LEMMA SyncCommitRows ==
  ASSUME CatalogInv, SyncCommit
  PROVE  /\ SessionInv(sync.session, DoneEntries, sync.toggled)
         /\ Tables' /\ RowsHold'
         /\ \A n \in Names : companies[n] # NoCompany => companies'[n] # NoCompany
         /\ \A u \in Urls : feeds[u] # NoFeed /\ feeds'[u] = NoFeed => u \in Flush(sync.session).deleted
         /\ \A u \in Urls : Flags(DoneEntries, u) # {} /\ feeds'[u] # NoFeed =>
              feeds'[u].enabled \in Flags(DoneEntries, u) \/ Answered(sync.toggled, u, feeds'[u].enabled)
<1> USE DEF CatalogInv
<1>1. sync # Idle BY DEF SyncCommit, Idle
<1>2. PICK s : s = sync.session OBVIOUS
<1>3. PICK E : E = DoneEntries OBVIOUS
<1>4. PICK K : K = sync.toggled OBVIOUS
<1>5. SessionInv(s, E, K) BY <1>1, <1>2, <1>3, <1>4 DEF SyncInv
<1>6. s \in Session /\ Loaded(s) BY <1>5, SessionLoaded
<1>7. PICK t : t = Flush(s) OBVIOUS
<1>8. t \in Session /\ t.companies = s.companies /\ t.tags = s.tags BY <1>6, <1>7, FlushFacts
<1>9. SessionInv(t, E, K) BY <1>5, <1>7, FlushKeeps
<1>10. feeds' = [u \in Urls |-> FeedRow(t, u)] BY <1>2, <1>7 DEF SyncCommit
<1>11. tags' = tags \cup t.tags BY <1>2, <1>7 DEF SyncCommit
<1>12. companies' = [n \in Names |->
         IF n \notin DOMAIN t.companies THEN companies[n]
         ELSE [enabled |-> companies[n] = NoCompany \/ companies[n].enabled,
               fetchprotection |-> t.companies[n]]]
  BY <1>2, <1>7 DEF SyncCommit
<1>13. ASSUME NEW n \in Names
       PROVE  /\ companies'[n] \in CompanyRow \cup {NoCompany}
              /\ companies[n] # NoCompany \/ n \in DOMAIN t.companies => companies'[n] \in CompanyRow
  <2>1. n \in DOMAIN t.companies => t.companies[n] \in 0..2 BY <1>8, SessionFields
  <2>2. companies[n] \in CompanyRow \cup {NoCompany} BY DEF Tables
  <2>3. CASE n \notin DOMAIN t.companies
    <3>1. companies'[n] = companies[n] BY <1>12, <2>3
    <3> QED BY <2>2, <2>3, <3>1
  <2>4. CASE n \in DOMAIN t.companies
    <3>1. PICK b \in BOOLEAN : b = (companies[n] = NoCompany \/ companies[n].enabled) OBVIOUS
    <3>2. companies'[n] = [enabled |-> b, fetchprotection |-> t.companies[n]] BY <1>12, <2>4, <3>1
    <3> QED BY <2>1, <2>4, <3>2 DEF CompanyRow
  <2> QED BY <2>3, <2>4
<1>14. Tables'
  <2>1. \A u \in Urls : FeedRow(t, u) \in Row \cup {NoFeed} BY <1>8, FeedRowType
  <2>2. feeds' \in [Urls -> Row \cup {NoFeed}] BY <1>10, <2>1
  <2>3. companies' \in [Names -> CompanyRow \cup {NoCompany}]
    <3>1. companies' = [n \in Names |-> companies'[n]] BY <1>12
    <3> QED BY <1>13, <3>1
  <2>4. tags' \in SUBSET Tags BY <1>8, <1>11, SessionFields DEF Tables
  <2> QED BY <2>2, <2>3, <2>4 DEF Tables, Row, CompanyRow
<1>15. ASSUME NEW u \in Urls, feeds'[u] # NoFeed
       PROVE  /\ feeds'[u].company \in Names /\ companies'[feeds'[u].company] # NoCompany
              /\ feeds'[u].tags \subseteq tags'
              /\ Flags(E, u) # {} => feeds'[u].enabled \in Flags(E, u) \/ Answered(K, u, feeds'[u].enabled)
  <2>1. PICK y : y = FeedRow(t, u) OBVIOUS
  <2>2. feeds'[u] = y BY <1>10, <2>1
  <2>3. /\ y \in Row /\ KeysHold(s, y) /\ y.company # Nobody
        /\ Flags(E, u) # {} => y.enabled \in Flags(E, u) \/ Answered(K, u, y.enabled)
    <3>1. y = FeedRow(Flush(s), u) /\ y # NoFeed BY <1>7, <1>15, <2>1, <2>2
    <3> QED BY <1>5, <3>1, Flushed
  <2>4. y.company \in Names BY <2>3 DEF Row
  <2>5. y.tags \subseteq tags' BY <1>8, <1>11, <2>3 DEF KeysHold
  <2>6. companies'[y.company] # NoCompany
    <3>1. companies[y.company] # NoCompany \/ y.company \in DOMAIN t.companies
      BY <1>8, <2>3 DEF KeysHold, CompanyExists
    <3> QED BY <1>13, <2>4, <3>1, NoCompanyIsNoRow
  <2> QED BY <2>2, <2>3, <2>4, <2>5, <2>6
<1>16. RowsHold' BY <1>15 DEF RowsHold
<1>17. \A n \in Names : companies[n] # NoCompany => companies'[n] # NoCompany BY <1>13, NoCompanyIsNoRow
<1>18. ASSUME NEW u \in Urls, feeds[u] # NoFeed, feeds'[u] = NoFeed PROVE u \in t.deleted
  <2>1. FeedRow(t, u) = NoFeed BY <1>10, <1>18
  <2>2. u \in DOMAIN t.written /\ t.written[u] = NoFeed BY <1>18, <2>1 DEF FeedRow
  <2> QED BY <1>9, <2>2 DEF SessionInv
<1> QED BY <1>2, <1>3, <1>4, <1>5, <1>7, <1>14, <1>15, <1>16, <1>17, <1>18

LEMMA SyncCommitKeeps ==
  ASSUME CatalogInv, SyncCommit
  PROVE  CatalogInv'
<1> USE DEF CatalogInv
<1>1. Tables' /\ RowsHold' BY SyncCommitRows
<1>2. Repositories' BY DEF Repositories, Repository, SyncCommit
<1>3. SyncInv' BY DEF SyncInv, SyncCommit
<1>4. CompanyToggleInv'
  <2>1. companyToggle' = companyToggle BY DEF SyncCommit
  <2>2. \A n \in Names : companies[n] # NoCompany => companies'[n] # NoCompany BY SyncCommitRows
  <2> QED BY <2>1, <2>2 DEF CompanyToggleInv
<1>5. ToggleInv'
  <2>1. PICK gone : gone = Flush(sync.session).deleted OBVIOUS
  <2>2. toggle' = IF toggle # Idle /\ toggle.url \in gone THEN [toggle EXCEPT !.gone = TRUE] ELSE toggle
    BY <2>1 DEF SyncCommit
  <2>3. \A u \in Urls : feeds[u] # NoFeed /\ feeds'[u] = NoFeed => u \in gone BY <2>1, SyncCommitRows
  <2> QED BY <2>2, <2>3 DEF ToggleInv
<1> QED BY <1>1, <1>2, <1>3, <1>4, <1>5

LEMMA SyncRollbackKeeps ==
  ASSUME CatalogInv, SyncRollback
  PROVE  CatalogInv'
<1> USE DEF CatalogInv, SyncRollback, dbVars, toggleVars
<1>1. Tables' /\ RowsHold' BY DEF Tables, RowsHold
<1>2. Repositories' BY DEF Repositories, Repository
<1>3. SyncInv' BY DEF SyncInv
<1>4. ToggleInv' /\ CompanyToggleInv' BY DEF ToggleInv, CompanyToggleInv
<1> QED BY <1>1, <1>2, <1>3, <1>4

\* The reads and the rollbacks of the toggles.
LEMMA ToggleStepKeeps ==
  ASSUME CatalogInv, UNCHANGED <<remote, checkout, dbVars, sync>>, ToggleInv', CompanyToggleInv'
  PROVE  CatalogInv'
<1> USE DEF CatalogInv, dbVars
<1>1. Tables' /\ RowsHold' BY DEF Tables, RowsHold
<1>2. Repositories' BY DEF Repositories, Repository
<1>3. SyncInv' BY ReadOnlySync
<1> QED BY <1>1, <1>2, <1>3

LEMMA FeedToggleReadKeeps ==
  ASSUME CatalogInv, NEW u \in ToggledUrls, NEW enabled \in BOOLEAN, FeedToggleRead(u, enabled)
  PROVE  CatalogInv'
<1>1. u \in Urls BY UrlsAssumption
<1>2. ToggleInv' BY <1>1 DEF FeedToggleRead, ToggleInv, dbVars
<1>3. CompanyToggleInv' BY DEF CatalogInv, FeedToggleRead, CompanyToggleInv, dbVars
<1> QED BY <1>2, <1>3, ToggleStepKeeps DEF FeedToggleRead

LEMMA CompanyToggleReadKeeps ==
  ASSUME CatalogInv, NEW n \in ToggledNames, NEW enabled \in BOOLEAN, CompanyToggleRead(n, enabled)
  PROVE  CatalogInv'
<1>1. n \in Names BY NamesAssumption
<1>2. CompanyToggleInv' BY <1>1 DEF CompanyToggleRead, CompanyToggleInv, dbVars
<1>3. ToggleInv' BY DEF CatalogInv, CompanyToggleRead, ToggleInv, dbVars
<1> QED BY <1>2, <1>3, ToggleStepKeeps DEF CompanyToggleRead

LEMMA ToggleRollbackKeeps ==
  ASSUME CatalogInv, ToggleRollback
  PROVE  CatalogInv'
<1>1. ToggleInv' BY DEF CatalogInv, ToggleRollback, ToggleInv, dbVars
<1>2. CompanyToggleInv' BY DEF CatalogInv, ToggleRollback, CompanyToggleInv, dbVars
<1> QED BY <1>1, <1>2, ToggleStepKeeps DEF ToggleRollback

LEMMA FeedToggleWriteKeeps ==
  ASSUME CatalogInv, FeedToggleWrite
  PROVE  CatalogInv'
<1> USE DEF CatalogInv
<1>1. CASE toggle.gone /\ UNCHANGED <<feeds, sync>>
  <2>1. ToggleInv' /\ CompanyToggleInv' BY DEF FeedToggleWrite, ToggleInv, CompanyToggleInv
  <2> QED BY <1>1, <2>1, ToggleStepKeeps DEF FeedToggleWrite, dbVars
<1>2. CASE ~ toggle.gone /\ ~ Locked(toggle.url)
           /\ feeds' = [feeds EXCEPT ![toggle.url].enabled = toggle.enabled]
           /\ sync' = (IF sync = Idle THEN sync
                      ELSE [sync EXCEPT !.toggled = Put(@, toggle.url, toggle.enabled)])
  <2>1. PICK v : v = toggle.url OBVIOUS
  <2>2. PICK b : b = toggle.enabled OBVIOUS
  <2>3. v \in Urls /\ b \in BOOLEAN /\ feeds[v] # NoFeed BY <1>2, <2>1, <2>2 DEF FeedToggleWrite, ToggleInv
  <2>4. feeds' = [feeds EXCEPT ![v].enabled = b] BY <1>2, <2>1, <2>2
  <2>5. UNCHANGED <<remote, checkout, companies, tags, companyToggle>> /\ toggle' = Idle BY DEF FeedToggleWrite
  <2>6. PICK x : x = feeds[v] OBVIOUS
  <2>7. x \in Row BY <2>3, <2>6 DEF Tables
  <2>8. PICK y : y = [x EXCEPT !.enabled = b] OBVIOUS
  <2>9. y \in Row /\ y.company = x.company /\ y.tags = x.tags BY <2>3, <2>7, <2>8 DEF Row
  <2>10. /\ feeds' = [u \in Urls |-> IF u = v THEN y ELSE feeds[u]]
    BY <2>4, <2>6, <2>8 DEF Tables
  <2>11. Tables' BY <2>5, <2>9, <2>10 DEF Tables, Row, CompanyRow
  <2>12. RowsHold' BY <2>3, <2>5, <2>6, <2>9, <2>10 DEF RowsHold
  <2>13. Repositories' BY <2>5 DEF Repositories, Repository
  <2>14. ToggleInv' /\ CompanyToggleInv' BY <2>5 DEF ToggleInv, CompanyToggleInv
  <2>15. SyncInv'
    <3>1. CASE sync = Idle BY <1>2, <3>1 DEF SyncInv
    <3>2. CASE sync # Idle
      <4>1. PICK s : s = sync.session OBVIOUS
      <4>2. PICK E : E = DoneEntries OBVIOUS
      <4>3. PICK K : K = sync.toggled OBVIOUS
      <4>4. sync \in SyncRequest /\ Repository(checkout) /\ SessionInv(s, E, K)
        BY <3>2, <4>1, <4>2, <4>3 DEF SyncInv
      <4>5. PICK L : L = Put(K, v, b) OBVIOUS
      <4>6. /\ sync' \in SyncRequest /\ sync'.session = s /\ sync'.toggled = L
            /\ sync'.done = sync.done
        <5>1. PICK D \in SUBSET Urls : K \in [D -> BOOLEAN]
          BY <4>3, <4>4 DEF SyncRequest, PartialFunctions
        <5>2. L \in [D \cup {v} -> BOOLEAN] /\ D \cup {v} \in SUBSET Urls BY <2>3, <4>5, <5>1 DEF Put
        <5>3. L \in PartialFunctions(Urls, BOOLEAN) BY <5>2 DEF PartialFunctions
        <5>4. sync' = [sync EXCEPT !.toggled = L] BY <1>2, <2>1, <2>2, <3>2, <4>3, <4>5
        <5> QED BY <4>1, <4>4, <5>3, <5>4 DEF SyncRequest
      <4>7. v \notin DOMAIN s.written BY <1>2, <2>1, <4>1, <4>4 DEF Locked, SyncRequest
      <4>8. SessionInv(s, E, L)' BY <2>3, <2>4, <2>5, <4>4, <4>5, <4>7, ToggledSession
      <4>9. DoneEntries' = E BY <2>5, <4>2, <4>6 DEF DoneEntries, Catalogs, HasCatalog
      <4>10. SessionInv(sync.session, DoneEntries, sync.toggled)' BY <4>6, <4>8, <4>9
      <4>11. Repository(checkout)' BY <2>5, <4>4 DEF Repository
      <4>12. (sync \in SyncRequest)' BY <4>6 DEF SyncRequest, Session
      <4> QED BY <4>10, <4>11, <4>12 DEF SyncInv
    <3> QED BY <3>1, <3>2
  <2> QED BY <2>11, <2>12, <2>13, <2>14, <2>15
<1> QED BY <1>1, <1>2 DEF FeedToggleWrite

LEMMA CompanyToggleWriteKeeps ==
  ASSUME CatalogInv, CompanyToggleWrite
  PROVE  CatalogInv'
<1> USE DEF CatalogInv
<1>1. PICK m : m = companyToggle.name OBVIOUS
<1>2. PICK b : b = companyToggle.enabled OBVIOUS
<1>3. m \in Names /\ b \in BOOLEAN /\ companies[m] # NoCompany
  BY <1>1, <1>2 DEF CompanyToggleWrite, CompanyToggleInv
<1>4. UNCHANGED <<remote, checkout, feeds, tags, sync, toggle>> /\ companyToggle' = Idle
  BY DEF CompanyToggleWrite
<1>5. PICK y : y = [companies[m] EXCEPT !.enabled = b] OBVIOUS
<1>6. y \in CompanyRow BY <1>3, <1>5 DEF Tables, CompanyRow
<1>7. companies' = [n \in Names |-> IF n = m THEN y ELSE companies[n]]
  BY <1>1, <1>2, <1>5 DEF CompanyToggleWrite, Tables
<1>8. \A n \in Names : companies[n] # NoCompany => companies'[n] # NoCompany
  BY <1>6, <1>7, NoCompanyIsNoRow
<1>9. Tables' BY <1>4, <1>6, <1>7 DEF Tables, Row, CompanyRow
<1>10. RowsHold' BY <1>4, <1>8 DEF RowsHold
<1>11. Repositories' BY <1>4 DEF Repositories, Repository
<1>12. ToggleInv' /\ CompanyToggleInv' BY <1>4 DEF ToggleInv, CompanyToggleInv
<1>13. SyncInv'
  <2>1. CASE sync = Idle BY <1>4, <2>1 DEF SyncInv, Idle
  <2>2. CASE sync # Idle
    <3>1. PICK s : s = sync.session OBVIOUS
    <3>2. PICK E : E = DoneEntries OBVIOUS
    <3>3. PICK K : K = sync.toggled OBVIOUS
    <3>4. sync \in SyncRequest /\ Repository(checkout) /\ SessionInv(s, E, K)
      BY <2>2, <3>1, <3>2, <3>3 DEF SyncInv
    <3>5. SessionInv(s, E, K)' BY <1>4, <1>8, <3>4, CompanyToggledSession
    <3>6. DoneEntries' = E /\ sync'.session = s /\ sync'.toggled = K
      BY <1>4, <3>1, <3>2, <3>3 DEF DoneEntries, Catalogs, HasCatalog
    <3>7. SessionInv(sync.session, DoneEntries, sync.toggled)' BY <3>5, <3>6
    <3>8. (sync \in SyncRequest)' /\ Repository(checkout)' BY <1>4, <3>4 DEF SyncRequest, Session, Repository
    <3> QED BY <3>7, <3>8 DEF SyncInv
  <2> QED BY <2>1, <2>2
<1> QED BY <1>9, <1>10, <1>11, <1>12, <1>13

LEMMA CatalogStep == CatalogInv /\ [Next]_vars => CatalogInv'
<1> SUFFICES ASSUME CatalogInv, [Next]_vars PROVE CatalogInv' OBVIOUS
<1>1. CASE \E revision \in Revisions \ {remote} : Push(revision) BY <1>1, PushKeeps
<1>2. CASE \E force \in BOOLEAN : SyncRepository(force) BY <1>2, SyncRepositoryKeeps
<1>3. CASE SyncFile BY <1>3, SyncFileKeeps
<1>4. CASE SyncCommit BY <1>4, SyncCommitKeeps
<1>5. CASE SyncRollback BY <1>5, SyncRollbackKeeps
<1>6. CASE \E u \in ToggledUrls, enabled \in BOOLEAN : FeedToggleRead(u, enabled) BY <1>6, FeedToggleReadKeeps
<1>7. CASE FeedToggleWrite BY <1>7, FeedToggleWriteKeeps
<1>8. CASE \E n \in ToggledNames, enabled \in BOOLEAN : CompanyToggleRead(n, enabled)
  BY <1>8, CompanyToggleReadKeeps
<1>9. CASE CompanyToggleWrite BY <1>9, CompanyToggleWriteKeeps
<1>10. CASE ToggleRollback BY <1>10, ToggleRollbackKeeps
<1>11. CASE UNCHANGED vars
  <2>1. ToggleInv' /\ CompanyToggleInv'
    BY <1>11 DEF vars, CatalogInv, ToggleInv, CompanyToggleInv
  <2> QED BY <1>11, <2>1, ToggleStepKeeps DEF vars, dbVars
<1> QED BY <1>1, <1>2, <1>3, <1>4, <1>5, <1>6, <1>7, <1>8, <1>9, <1>10, <1>11 DEF Next

-------------------------------------------------------------------------------
(* The company a feed has in the session: the one in memory if the feed is *)
(* loaded, that of its row otherwise.                                      *)

Owner(s, u) ==
  IF FeedRow(s, u) = NoFeed THEN Nobody
  ELSE IF u \in DOMAIN s.objects THEN s.objects[u].now.company ELSE FeedRow(s, u).company

\* A loaded feed knows the company of its row.  M[u] are the companies the
\* sync may have linked url u to, P[u] those a row of it may have.
OwnerInv(s, M, P) ==
  /\ \A u \in DOMAIN s.objects :
       /\ FeedRow(s, u).company = s.objects[u].was.company
       /\ s.objects[u].now.company # s.objects[u].was.company => s.objects[u].now.company \in M[u]
  /\ \A u \in Urls :
       FeedRow(s, u) # NoFeed /\ FeedRow(s, u).company # Nobody => FeedRow(s, u).company \in P[u]

Within(M, P) == \A u \in Urls : M[u] \subseteq P[u]

\* t keeps the invariant, and every feed its company.
OwnersKept(s, t, M, P) == OwnerInv(t, M, P) /\ \A u \in Urls : Owner(t, u) = Owner(s, u)

Sound(s) == \E E, K : SessionInv(s, E, K)

LEMMA SoundLoaded ==
  ASSUME NEW s, Sound(s)
  PROVE  s \in Session /\ Loaded(s)
BY SessionLoaded DEF Sound

\* A flush writes the companies in memory to the rows.
LEMMA FlushOwners ==
  ASSUME Tables, NEW s, Sound(s), NEW M, NEW P, Within(M, P), OwnerInv(s, M, P), NEW t, t = Flush(s)
  PROVE  /\ OwnersKept(s, t, M, P)
         /\ \A u \in Urls : FeedRow(t, u) # NoFeed => FeedRow(t, u).company = Owner(s, u)
         /\ \A u \in Urls : FeedRow(t, u) = NoFeed => Owner(s, u) = Nobody
<1>1. s \in Session /\ Loaded(s) BY SoundLoaded
<1>2. /\ t \in Session /\ DOMAIN t.objects = DOMAIN s.objects
      /\ \A u \in DOMAIN s.objects :
           t.objects[u].was = s.objects[u].now /\ t.objects[u].now = s.objects[u].now
      /\ \A u \in Urls : FeedRow(t, u) = IF u \in Dirty(s) THEN Updated(FeedRow(s, u), s.objects[u])
                                         ELSE FeedRow(s, u)
  BY <1>1, FlushFacts
<1>3. DOMAIN s.objects \subseteq Urls BY <1>1, SessionFields
<1>4. ASSUME NEW u \in DOMAIN s.objects
      PROVE  /\ FeedRow(t, u) # NoFeed /\ FeedRow(s, u) # NoFeed
             /\ FeedRow(t, u).company = s.objects[u].now.company
  <2>1. FeedRow(s, u) # NoFeed /\ FeedRow(s, u) \in Row BY <1>1, <1>3, FeedRowType DEF Loaded
  <2>2. s.objects[u] \in Object BY <1>1, SessionFields
  <2>3. PICK x : x = FeedRow(s, u) OBVIOUS
  <2>4. PICK o : o = s.objects[u] OBVIOUS
  <2>5. PICK y : y = FeedRow(t, u) OBVIOUS
  <2>6. x.company = o.was.company BY <2>3, <2>4 DEF OwnerInv
  <2>7. CASE u \in Dirty(s)
    <3>1. y = Updated(x, o) BY <1>2, <1>3, <2>3, <2>4, <2>5, <2>7
    <3>2. y \in Row /\ y.company = IF o.now.company # o.was.company THEN o.now.company ELSE x.company
      BY <2>1, <2>2, <2>3, <2>4, <3>1, UpdatedFacts
    <3> QED BY <2>1, <2>4, <2>5, <2>6, <3>2, NoFeedIsNoRow
  <2>8. CASE u \notin Dirty(s)
    <3>1. y = x BY <1>2, <1>3, <2>3, <2>5, <2>8
    <3>2. o.now = o.was BY <2>4, <2>8 DEF Dirty
    <3> QED BY <2>1, <2>3, <2>4, <2>5, <2>6, <3>1, <3>2
  <2> QED BY <2>7, <2>8
<1>5. \A u \in Urls : u \notin DOMAIN s.objects => FeedRow(t, u) = FeedRow(s, u) BY <1>2 DEF Dirty
<1>6. ASSUME NEW u \in Urls
      PROVE  /\ Owner(t, u) = Owner(s, u)
             /\ FeedRow(t, u) # NoFeed => FeedRow(t, u).company = Owner(s, u)
             /\ FeedRow(t, u) = NoFeed => Owner(s, u) = Nobody
             /\ FeedRow(t, u) # NoFeed /\ FeedRow(t, u).company # Nobody => FeedRow(t, u).company \in P[u]
  <2>1. CASE u \in DOMAIN s.objects
    <3>1. s.objects[u].now.company # Nobody => s.objects[u].now.company \in P[u]
      <4>1. s.objects[u].now.company # s.objects[u].was.company => s.objects[u].now.company \in P[u]
        BY <2>1 DEF OwnerInv, Within
      <4> QED BY <1>4, <2>1, <4>1 DEF OwnerInv
    <3> QED BY <1>2, <1>4, <2>1, <3>1 DEF Owner
  <2>2. CASE u \notin DOMAIN s.objects
    BY <1>2, <1>5, <2>2 DEF Owner, OwnerInv
  <2> QED BY <2>1, <2>2
<1>7. OwnerInv(t, M, P)
  <2>1. \A u \in DOMAIN t.objects :
          /\ FeedRow(t, u).company = t.objects[u].was.company
          /\ t.objects[u].now.company = t.objects[u].was.company
    BY <1>2, <1>4
  <2> QED BY <1>6, <2>1 DEF OwnerInv
<1> QED BY <1>6, <1>7 DEF OwnersKept

\* A session with the same feeds.
LEMMA SameFeeds ==
  ASSUME NEW s, NEW t, NEW M, NEW P, OwnerInv(s, M, P), t.objects = s.objects,
         \A u : FeedRow(t, u) = FeedRow(s, u)
  PROVE  OwnersKept(s, t, M, P)
BY DEF OwnersKept, OwnerInv, Owner

LEMMA OwnersKeptTwice ==
  ASSUME NEW s, NEW t, NEW r, NEW M, NEW P, OwnersKept(s, t, M, P), OwnersKept(t, r, M, P)
  PROVE  OwnersKept(s, r, M, P)
BY DEF OwnersKept

\* get_or_create_company.
LEMMA CompanyOwners ==
  ASSUME Tables, NEW s, Sound(s), NEW M, NEW P, Within(M, P), OwnerInv(s, M, P),
         NEW n \in Names, NEW p \in 0..2, NEW r, r = GetOrCreateCompany(s, n, p)
  PROVE  OwnersKept(s, r, M, P) /\ Sound(r) /\ n \in DOMAIN r.companies
<1>1. s \in Session /\ Loaded(s) BY SoundLoaded
<1>2. Sound(r) /\ n \in DOMAIN r.companies
  <2>1. PICK E, K : SessionInv(s, E, K) BY DEF Sound
  <2> QED BY <2>1, CompanyKeeps DEF Sound
<1>3. PICK t : t = AddCompany(s, n, p) OBVIOUS
<1>4. t \in Session /\ t.objects = s.objects /\ \A u : FeedRow(t, u) = FeedRow(s, u)
  BY <1>1, <1>3, CompanyFacts
<1>5. OwnersKept(s, t, M, P) BY <1>4, SameFeeds
<1>6. r = t \/ r = Flush(t) BY <1>3 DEF GetOrCreateCompany, AddCompany
<1>7. CASE r = t BY <1>2, <1>5, <1>7
<1>8. CASE r = Flush(t)
  <2>1. Sound(t)
    <3>1. PICK E, K : SessionInv(s, E, K) BY DEF Sound
    <3> QED BY <1>3, <3>1, AddCompanyKeeps DEF Sound
  <2>2. OwnerInv(t, M, P) BY <1>5 DEF OwnersKept
  <2>3. OwnersKept(t, r, M, P) BY <1>8, <2>1, <2>2, FlushOwners
  <2> QED BY <1>2, <1>5, <2>3, OwnersKeptTwice
<1> QED BY <1>6, <1>7, <1>8

\* list_rss_feeds_by_urls.
LEMMA LoadOwners ==
  ASSUME Tables, NEW s, Sound(s), NEW M, NEW P, OwnerInv(s, M, P),
         NEW urls \in SUBSET Urls, NEW t, t = LoadFeeds(s, urls)
  PROVE  OwnersKept(s, t, M, P) /\ Sound(t) /\ t.companies = s.companies
<1>1. s \in Session /\ Loaded(s) BY SoundLoaded
<1>2. Sound(t) /\ t.companies = s.companies
  <2>1. PICK E, K : SessionInv(s, E, K) BY DEF Sound
  <2> QED BY <2>1, LoadKeeps DEF Sound
<1>3. /\ \A u : FeedRow(t, u) = FeedRow(s, u)
      /\ DOMAIN s.objects \subseteq DOMAIN t.objects
      /\ \A u \in DOMAIN s.objects : t.objects[u] = s.objects[u]
      /\ \A u \in DOMAIN t.objects : u \notin DOMAIN s.objects =>
           /\ u \in Urls /\ FeedRow(s, u) # NoFeed
           /\ t.objects[u].was = FeedRow(s, u) /\ t.objects[u].now = FeedRow(s, u)
  BY <1>1, LoadFacts
<1>4. OwnerInv(t, M, P) BY <1>3 DEF OwnerInv
<1>5. \A u \in Urls : Owner(t, u) = Owner(s, u) BY <1>3 DEF Owner
<1> QED BY <1>2, <1>4, <1>5 DEF OwnersKept

\* get_or_create_tags.
LEMMA TagsOwners ==
  ASSUME Tables, NEW s, Sound(s), NEW M, NEW P, Within(M, P), OwnerInv(s, M, P),
         NEW names \in SUBSET Tags, NEW r, r = GetOrCreateTags(s, names)
  PROVE  OwnersKept(s, r, M, P) /\ Sound(r) /\ r.companies = s.companies /\ names \subseteq tags \cup r.tags
<1>1. s \in Session BY SoundLoaded
<1>2. PICK E, K : SessionInv(s, E, K) BY DEF Sound
<1>3. Sound(r) /\ r.companies = s.companies /\ names \subseteq tags \cup r.tags
  BY <1>2, TagsKeep DEF Sound
<1>4. CASE r = s BY <1>3, <1>4 DEF OwnersKept
<1>5. CASE r # s
  <2>1. PICK t : t = [s EXCEPT !.tags = @ \cup names] OBVIOUS
  <2>2. t.objects = s.objects /\ \A u : FeedRow(t, u) = FeedRow(s, u) BY <1>1, <2>1, TagsFacts
  <2>3. OwnersKept(s, t, M, P) BY <2>2, SameFeeds
  <2>4. Sound(t) BY <1>2, <2>1, AddTagsKeeps DEF Sound
  <2>5. r = Flush(t) BY <1>5, <2>1 DEF GetOrCreateTags
  <2>6. OwnerInv(t, M, P) BY <2>3 DEF OwnersKept
  <2>7. OwnersKept(t, r, M, P) BY <2>4, <2>5, <2>6, FlushOwners
  <2> QED BY <1>3, <2>3, <2>7, OwnersKeptTwice
<1> QED BY <1>4, <1>5

\* upsert_feed and link_company_to_feed.
LEMMA UpsertOwners ==
  ASSUME Tables, NEW s, Sound(s), NEW M, NEW P, Within(M, P), OwnerInv(s, M, P), NEW e, NEW p, NEW n,
         CanUpsert(s, e, p, n), n \in M[e.url], NEW t, t = UpsertAndLink(s, e, p, n)
  PROVE  /\ OwnerInv(t, M, P) /\ Sound(t) /\ t.companies = s.companies
         /\ Owner(t, e.url) = n /\ \A u \in Urls : u # e.url => Owner(t, u) = Owner(s, u)
<1> USE DEF CanUpsert
<1>1. s \in Session /\ Loaded(s) BY SoundLoaded
<1>2. e.url \in Urls BY DEF IsEntry
<1>3. Sound(t) /\ t.companies = s.companies
  <2>1. PICK E, K : SessionInv(s, E, K) BY DEF Sound
  <2>2. SessionInv(t, E \cup {e}, K) /\ t.companies = s.companies BY <2>1, UpsertKeeps
  <2> QED BY <2>2 DEF Sound
<1>4. CASE e.url \in DOMAIN s.objects
  <2>1. Changed(s, e, n, t) BY <1>1, <1>4, ChangeFacts
  <2>2. OwnerInv(t, M, P)
    <3>1. ASSUME NEW u \in DOMAIN t.objects
          PROVE  /\ FeedRow(t, u).company = t.objects[u].was.company
                 /\ t.objects[u].now.company # t.objects[u].was.company => t.objects[u].now.company \in M[u]
      <4>1. u \in DOMAIN s.objects /\ t.objects[u].was = s.objects[u].was /\ FeedRow(t, u) = FeedRow(s, u)
        BY <2>1 DEF Changed
      <4>2. t.objects[u].now.company = s.objects[u].now.company \/ (u = e.url /\ t.objects[u].now.company = n)
        BY <2>1, <4>1 DEF Changed
      <4> QED BY <4>1, <4>2 DEF OwnerInv
    <3>2. \A u \in Urls : FeedRow(t, u) = FeedRow(s, u) BY <2>1 DEF Changed
    <3> QED BY <3>1, <3>2 DEF OwnerInv
  <2>3. Owner(t, e.url) = n
    <3>1. FeedRow(s, e.url) # NoFeed BY <1>1, <1>4 DEF Loaded
    <3> QED BY <1>4, <2>1, <3>1 DEF Owner, Changed
  <2>4. \A u \in Urls : u # e.url => Owner(t, u) = Owner(s, u) BY <2>1 DEF Owner, Changed
  <2> QED BY <1>3, <2>2, <2>3, <2>4
<1>5. CASE e.url \notin DOMAIN s.objects
  <2>1. PICK f : f = Flush(s) OBVIOUS
  <2>2. f \in Session /\ DOMAIN f.objects = DOMAIN s.objects BY <1>1, <2>1, FlushFacts
  <2>3. OwnersKept(s, f, M, P) BY <2>1, FlushOwners
  <2>4. /\ DOMAIN t.objects = DOMAIN f.objects \cup {e.url}
        /\ \A v \in DOMAIN f.objects : t.objects[v] = f.objects[v]
        /\ t.objects[e.url].was.company = Nobody /\ t.objects[e.url].now.company = n
        /\ FeedRow(t, e.url) \in Row /\ FeedRow(t, e.url).company = Nobody
        /\ \A v : v # e.url => FeedRow(t, v) = FeedRow(f, v)
    BY <1>1, <1>5, <2>1, <2>2, InsertFacts
  <2>5. OwnerInv(t, M, P) BY <1>5, <2>2, <2>3, <2>4 DEF OwnerInv, OwnersKept
  <2>6. Owner(t, e.url) = n BY <2>4, NoFeedIsNoRow DEF Owner
  <2>7. \A u \in Urls : u # e.url => Owner(t, u) = Owner(f, u) BY <2>4 DEF Owner
  <2> QED BY <1>3, <2>3, <2>5, <2>6, <2>7 DEF OwnersKept
<1> QED BY <1>4, <1>5

\* One turn of the loop over the entries.
LEMMA EntryOwners ==
  ASSUME Tables, NEW s, Sound(s), NEW M, NEW P, Within(M, P), OwnerInv(s, M, P), NEW e, IsEntry(e),
         NEW n \in Names, n \in DOMAIN s.companies, n \in M[e.url], NEW t, t = SyncEntry(s, e, n)
  PROVE  /\ OwnerInv(t, M, P) /\ Sound(t) /\ n \in DOMAIN t.companies
         /\ Owner(t, e.url) = n /\ \A u \in Urls : u # e.url => Owner(t, u) = Owner(s, u)
<1>1. PICK r : r = GetOrCreateTags(s, e.tags) OBVIOUS
<1>2. PICK names : names = e.tags OBVIOUS
<1>3. names \in SUBSET Tags BY <1>2 DEF IsEntry
<1>4. OwnersKept(s, r, M, P) /\ Sound(r) /\ r.companies = s.companies /\ names \subseteq tags \cup r.tags
  BY <1>1, <1>2, <1>3, TagsOwners
<1>5. PICK p : p = EntryProtection(e, s.companies[n]) OBVIOUS
<1>6. p \in 0..2
  <2>1. s.companies[n] \in 0..2 BY SoundLoaded, SessionFields
  <2> QED BY <1>5, <2>1 DEF EntryProtection, IsEntry
<1>7. t = UpsertAndLink(r, e, p, n) BY <1>1, <1>5 DEF SyncEntry, UpsertAndLink
<1>8. CanUpsert(r, e, p, n) BY <1>2, <1>4, <1>6 DEF CanUpsert
<1>9. OwnerInv(r, M, P) BY <1>4 DEF OwnersKept
<1>10. /\ OwnerInv(t, M, P) /\ Sound(t) /\ t.companies = r.companies
       /\ Owner(t, e.url) = n /\ \A u \in Urls : u # e.url => Owner(t, u) = Owner(r, u)
  BY <1>4, <1>7, <1>8, <1>9, UpsertOwners
<1> QED BY <1>4, <1>10 DEF OwnersKept

\* The entries of a file, and the urls they list.
Entries(entries, urls) ==
  /\ entries \in Seq(ToSet(entries)) /\ \A i \in DOMAIN entries : IsEntry(entries[i])
  /\ urls = {entries[i].url : i \in DOMAIN entries}

\* The loop: the listed feeds have the company, the others keep theirs.
LEMMA EntriesOwners ==
  ASSUME Tables, NEW s, Sound(s), NEW M, NEW P, Within(M, P), OwnerInv(s, M, P),
         NEW n \in Names, n \in DOMAIN s.companies,
         NEW entries, NEW urls, Entries(entries, urls), \A u \in urls : n \in M[u],
         NEW t, t = SyncEntries(s, entries, n)
  PROVE  /\ OwnerInv(t, M, P) /\ Sound(t)
         /\ \A u \in Urls : Owner(t, u) = IF u \in urls THEN n ELSE Owner(s, u)
<1>1. Len(entries) \in Nat /\ DOMAIN entries = 1..Len(entries) BY DEF Entries
<1>2. PICK f : Turns(f, s, entries, n, Len(entries)) /\ t = f[Len(entries)] BY <1>1, EntriesInTurns
<1> DEFINE Before(k) == {entries[i].url : i \in 1..k}
           Kept(k) == /\ OwnerInv(f[k], M, P) /\ Sound(f[k]) /\ n \in DOMAIN f[k].companies
                      /\ \A u \in Urls : Owner(f[k], u) = IF u \in Before(k) THEN n ELSE Owner(s, u)
           T == {k \in Nat : k <= Len(entries) /\ ~ Kept(k)}
<1>3. \A k \in 0..Len(entries) : Kept(k)
  <2>1. SUFFICES ASSUME T # {} PROVE FALSE
    <3> HIDE DEF Kept
    <3> QED BY <1>1
  <2>2. PICK m \in T : \A k \in T : ~ (k < m)
    <3> HIDE DEF T
    <3>1. T \in SUBSET Nat BY DEF T
    <3> QED BY <2>1, <3>1, Least
  <2>3. Kept(0)
    <3>1. Before(0) = {} OBVIOUS
    <3>2. f[0] = s BY <1>2 DEF Turns
    <3> HIDE DEF Before
    <3> QED BY <3>1, <3>2
  <2> HIDE DEF Kept
  <2>4. m # 0 /\ m \in 1..Len(entries) /\ m - 1 \in Nat BY <1>1, <2>2, <2>3
  <2>5. Kept(m - 1) BY <1>1, <2>2, <2>4
  <2>6. f[m] = SyncEntry(f[m - 1], entries[m], n) BY <1>2, <2>4 DEF Turns
  <2>7. IsEntry(entries[m]) /\ entries[m].url \in urls BY <1>1, <2>4 DEF Entries
  <2>8. PICK B : B = Before(m - 1) OBVIOUS
  <2>9. PICK a : a = f[m - 1] OBVIOUS
  <2>10. PICK b : b = f[m] OBVIOUS
  <2>11. PICK e : e = entries[m] OBVIOUS
  <2>12. Before(m) = B \cup {e.url}
    <3>1. \A i : i \in 1..m <=> i \in 1..(m - 1) \/ i = m BY <2>4
    <3> QED BY <2>8, <2>11, <3>1
  <2>13. /\ OwnerInv(a, M, P) /\ Sound(a) /\ n \in DOMAIN a.companies
         /\ \A u \in Urls : Owner(a, u) = IF u \in B THEN n ELSE Owner(s, u)
    BY <2>5, <2>8, <2>9 DEF Kept
  <2>14. n \in M[e.url] BY <2>7, <2>11
  <2>15. /\ OwnerInv(b, M, P) /\ Sound(b) /\ n \in DOMAIN b.companies
         /\ Owner(b, e.url) = n /\ \A u \in Urls : u # e.url => Owner(b, u) = Owner(a, u)
    BY <2>6, <2>7, <2>9, <2>10, <2>11, <2>13, <2>14, EntryOwners
  <2>16. \A u \in Urls : Owner(b, u) = IF u \in B \cup {e.url} THEN n ELSE Owner(s, u)
    BY <2>13, <2>15
  <2>17. Kept(m)
    <3> HIDE DEF Before
    <3> QED BY <2>10, <2>12, <2>15, <2>16 DEF Kept
  <2> QED BY <2>2, <2>17
<1>4. Before(Len(entries)) = urls BY <1>1 DEF Entries
<1>5. Kept(Len(entries))
  <2> HIDE DEF Kept
  <2> QED BY <1>1, <1>3
<1> HIDE DEF Before
<1> QED BY <1>2, <1>4, <1>5

\* What handling a file does to the companies of the feeds: n is the company of
\* the file, urls what it lists.  A feed that is not listed loses its row only
\* if that has company n.
FileEffect(s, t, n, urls, M, P) ==
  /\ OwnerInv(t, M, P)
  /\ \A u \in urls : Owner(t, u) = n
  /\ \A u \in Urls \ urls :
       \/ Owner(t, u) = Nobody /\ n \in P[u]
       \/ Owner(t, u) = Owner(s, u) /\ (Owner(t, u) = n => n \in M[u])

\* delete_company_feeds_not_in_urls.
LEMMA DeleteOwners ==
  ASSUME Tables, NEW s, Sound(s), NEW M, NEW P, OwnerInv(s, M, P), NEW n \in Names,
         NEW urls \in SUBSET Urls, \A u \in urls : Owner(s, u) = n,
         NEW t, t = DeleteCompanyFeedsNotIn(s, n, urls)
  PROVE  FileEffect(s, t, n, urls, M, P) /\ Sound(t)
<1>1. s \in Session /\ Loaded(s) BY SoundLoaded
<1>2. Sound(t)
  <2>1. PICK E, K : SessionInv(s, E, K) BY DEF Sound
  <2> QED BY <2>1, DeleteKeeps DEF Sound
<1>3. /\ t \in Session
      /\ DOMAIN t.objects \subseteq DOMAIN s.objects
      /\ \A u \in DOMAIN t.objects : t.objects[u] = s.objects[u]
      /\ \A u \in Urls : \/ FeedRow(t, u) = NoFeed /\ u \notin DOMAIN t.objects
                         \/ /\ FeedRow(t, u) = FeedRow(s, u)
                            /\ u \in DOMAIN t.objects <=> u \in DOMAIN s.objects
      /\ \A u \in Urls :
           IF u \notin urls /\ FeedRow(s, u) # NoFeed /\ FeedRow(s, u).company = n
           THEN FeedRow(t, u) = NoFeed
           ELSE FeedRow(t, u) = FeedRow(s, u) /\ (u \in DOMAIN t.objects <=> u \in DOMAIN s.objects)
  BY <1>1, DeleteFacts
<1>4. DOMAIN s.objects \subseteq Urls BY <1>1, SessionFields
<1>5. OwnerInv(t, M, P)
  <2>1. \A u \in DOMAIN t.objects : FeedRow(t, u) = FeedRow(s, u) BY <1>3, <1>4
  <2>2. \A u \in Urls : FeedRow(t, u) = NoFeed \/ FeedRow(t, u) = FeedRow(s, u) BY <1>3
  <2> QED BY <1>3, <2>1, <2>2 DEF OwnerInv
<1>6. n # Nobody BY NamesAssumption
<1>7. ASSUME NEW u \in Urls, u \notin urls, FeedRow(s, u) # NoFeed, FeedRow(s, u).company = n
      PROVE  Owner(t, u) = Nobody /\ n \in P[u]
  BY <1>3, <1>6, <1>7 DEF Owner, OwnerInv
<1>8. ASSUME NEW u \in Urls, u \in urls \/ FeedRow(s, u) = NoFeed \/ FeedRow(s, u).company # n
      PROVE  Owner(t, u) = Owner(s, u)
  <2>1. FeedRow(t, u) = FeedRow(s, u) /\ (u \in DOMAIN t.objects <=> u \in DOMAIN s.objects) BY <1>3, <1>8
  <2> QED BY <1>3, <2>1 DEF Owner
<1>9. ASSUME NEW u \in Urls, FeedRow(s, u) = NoFeed \/ FeedRow(s, u).company # n, Owner(s, u) = n
      PROVE  n \in M[u]
  BY <1>6, <1>9 DEF Owner, OwnerInv
<1>10. ASSUME NEW u \in Urls \ urls
       PROVE  \/ Owner(t, u) = Nobody /\ n \in P[u]
              \/ Owner(t, u) = Owner(s, u) /\ (Owner(t, u) = n => n \in M[u])
  <2>1. CASE FeedRow(s, u) # NoFeed /\ FeedRow(s, u).company = n BY <1>7, <2>1
  <2>2. CASE FeedRow(s, u) = NoFeed \/ FeedRow(s, u).company # n BY <1>8, <1>9, <2>2
  <2> QED BY <2>1, <2>2
<1>11. \A u \in urls : Owner(t, u) = n BY <1>8
<1> QED BY <1>2, <1>5, <1>10, <1>11 DEF FileEffect

\* The end of _sync_catalog_file.
LEMMA EndOwners ==
  ASSUME Tables, NEW s, Sound(s), NEW M, NEW P, OwnerInv(s, M, P), NEW t, t = EndOfFile(s)
  PROVE  OwnersKept(s, t, M, P)
<1>1. s \in Session /\ Loaded(s) BY SoundLoaded
<1>2. /\ \A u : FeedRow(t, u) = FeedRow(s, u)
      /\ DOMAIN t.objects \subseteq DOMAIN s.objects
      /\ \A u \in DOMAIN t.objects : t.objects[u] = s.objects[u]
      /\ \A u \in DOMAIN s.objects : u \notin DOMAIN t.objects => s.objects[u].now = s.objects[u].was
  BY <1>1, EndFacts
<1>3. OwnerInv(t, M, P) BY <1>2 DEF OwnerInv
<1>4. ASSUME NEW u \in Urls PROVE Owner(t, u) = Owner(s, u)
  <2>1. CASE u \in DOMAIN t.objects \/ u \notin DOMAIN s.objects BY <1>2, <2>1 DEF Owner
  <2>2. CASE u \in DOMAIN s.objects /\ u \notin DOMAIN t.objects
    <3>1. FeedRow(s, u).company = s.objects[u].was.company BY <2>2 DEF OwnerInv
    <3>2. s.objects[u].now = s.objects[u].was BY <1>2, <2>2
    <3> QED BY <1>2, <2>2, <3>1, <3>2 DEF Owner
  <2> QED BY <2>1, <2>2
<1> QED BY <1>3, <1>4 DEF OwnersKept

\* _sync_catalog_file for a file that exists.
LEMMA PresentFileOwners ==
  ASSUME Tables, NEW s, Sound(s), NEW M, NEW P, Within(M, P), OwnerInv(s, M, P), NEW f \in Files,
         NEW c, IsContent(c), c.kind = "catalog", NEW n, n = CompanyName(f, c),
         NEW urls, urls = Listed(c), \A u \in urls : n \in M[u],
         NEW t, t = EndOfFile(SyncPresentFile(s, f, c))
  PROVE  FileEffect(s, t, n, urls, M, P)
<1>1. /\ c.company \in Names \cup {Nobody} /\ c.fetchprotection \in 0..2
      /\ c.feeds \in Seq(ToSet(c.feeds)) /\ \A i \in DOMAIN c.feeds : IsEntry(c.feeds[i])
  <2>1. c # Absent /\ c # Broken BY DEF Absent, Broken
  <2> QED BY <2>1 DEF IsContent
<1>2. n \in Names BY <1>1, FilesAssumption DEF CompanyName
<1>3. PICK p : p = c.fetchprotection OBVIOUS
<1>4. PICK q : q = GetOrCreateCompany(s, n, p) OBVIOUS
<1>5. OwnersKept(s, q, M, P) /\ Sound(q) /\ n \in DOMAIN q.companies
  BY <1>1, <1>2, <1>3, <1>4, CompanyOwners
<1>6. urls \in SUBSET Urls BY <1>1 DEF Listed, IsEntry
<1>7. PICK r : r = LoadFeeds(q, urls) OBVIOUS
<1>8. OwnerInv(q, M, P) BY <1>5 DEF OwnersKept
<1>9. OwnersKept(q, r, M, P) /\ Sound(r) /\ r.companies = q.companies
  BY <1>5, <1>6, <1>7, <1>8, LoadOwners
<1>10. OwnerInv(r, M, P) /\ \A u \in Urls : Owner(r, u) = Owner(s, u) BY <1>5, <1>9 DEF OwnersKept
<1>11. n \in DOMAIN r.companies BY <1>5, <1>9
<1>12. PICK entries : entries = c.feeds OBVIOUS
<1>13. PICK x : x = SyncEntries(r, entries, n) OBVIOUS
<1>14. Entries(entries, urls) BY <1>1, <1>12 DEF Listed, Entries
<1>15. /\ OwnerInv(x, M, P) /\ Sound(x)
       /\ \A u \in Urls : Owner(x, u) = IF u \in urls THEN n ELSE Owner(r, u)
  BY <1>2, <1>9, <1>10, <1>11, <1>13, <1>14, EntriesOwners
<1>16. PICK d : d = DeleteCompanyFeedsNotIn(x, n, urls) OBVIOUS
<1>17. \A u \in urls : Owner(x, u) = n BY <1>6, <1>15
<1>18. FileEffect(x, d, n, urls, M, P) /\ Sound(d) BY <1>2, <1>6, <1>15, <1>16, <1>17, DeleteOwners
<1>19. t = EndOfFile(d)
  BY <1>3, <1>4, <1>7, <1>12, <1>13, <1>16 DEF SyncPresentFile
<1>20. OwnersKept(d, t, M, P)
  <2>1. OwnerInv(d, M, P) BY <1>18 DEF FileEffect
  <2> QED BY <1>18, <1>19, <2>1, EndOwners
<1> QED BY <1>6, <1>10, <1>15, <1>18, <1>20 DEF FileEffect, OwnersKept

\* _sync_catalog_file for a file that disappeared, and its owners.
LEMMA MissingFileOwners ==
  ASSUME Tables, NEW s, Sound(s), NEW M, NEW P, OwnerInv(s, M, P), NEW f \in Files, NEW n, n = NameOf[f],
         NEW t, t = EndOfFile(SyncMissingFile(s, f))
  PROVE  /\ OwnerInv(t, M, P)
         /\ \A u \in Urls : Owner(t, u) = Owner(s, u) \/ (Owner(t, u) = Nobody /\ n \in P[u])
<1>1. n \in Names BY FilesAssumption
<1>2. PICK d : d = DeleteCompanyFeedsNotIn(s, n, {}) OBVIOUS
<1>3. FileEffect(s, d, n, {}, M, P) /\ Sound(d) BY <1>1, <1>2, DeleteOwners
<1>4. PICK r : r = SyncMissingFile(s, f) OBVIOUS
<1>5. r = d \/ r = s BY <1>2, <1>4 DEF SyncMissingFile
<1>6. /\ OwnerInv(r, M, P) /\ Sound(r)
      /\ \A u \in Urls : Owner(r, u) = Owner(s, u) \/ (Owner(r, u) = Nobody /\ n \in P[u])
  <2>1. CASE r = s BY <2>1
  <2>2. CASE r = d BY <1>3, <2>2 DEF FileEffect
  <2> QED BY <1>5, <2>1, <2>2
<1>7. OwnersKept(r, t, M, P) BY <1>4, <1>6, EndOwners
<1> QED BY <1>6, <1>7 DEF OwnersKept

-------------------------------------------------------------------------------
(* The invariant of the stored catalog.                                    *)

\* The contents the repository has had or may have.
Empty == [f \in Files |-> Absent]
Known == Revisions \cup {Empty}

\* The companies the catalogs of the files D in repository r give each url,
\* and those some catalog may ever give it.
LinksOf(r, D) ==
  [u \in Urls |-> {n \in Names : \E g \in D :
     HasCatalog(r, g) /\ u \in Listed(r[g]) /\ n = CompanyName(g, r[g])}]
AllLinks ==
  [u \in Urls |-> {n \in Names : \E r \in Revisions, g \in Files :
     HasCatalog(r, g) /\ u \in Listed(r[g]) /\ n = CompanyName(g, r[g])}]

\* The companies url u may have without being about to be deleted from them.
Settled(r) ==
  [u \in Urls |-> {n \in Names : \A g \in Files :
     HasCatalog(r, g) /\ n = CompanyName(g, r[g]) => u \in Listed(r[g])}]

OneFile(r) ==
  \A f, g \in Files :
    HasCatalog(r, f) /\ HasCatalog(r, g) /\ CompanyName(f, r[f]) = CompanyName(g, r[g]) => f = g

\* The session has the feeds of file f as the catalog lists them.
StoredIn(s, r, f) ==
  \A u \in Urls : Undisturbed(f, u) =>
    (Owner(s, u) = CompanyName(f, r[f]) <=> u \in Listed(r[f]))

\* A sync of repository r that has handled the files D and has T to do: the
\* files it has handled are stored, and so is every file that it does not have to
\* handle and no earlier sync has missed.
StoredSession(s, r, D, T, missed) ==
  /\ OwnerInv(s, LinksOf(r, D), AllLinks)
  /\ \A f \in Files : HasCatalog(r, f) /\ (f \in D \/ f \notin T \cup missed) => StoredIn(s, r, f)

\* No company of a file that was handled has a feed the file does not list.
CleanSession(s, r, D) ==
  \A f \in D, u \in Urls : HasCatalog(r, f) /\ Owner(s, u) = CompanyName(f, r[f]) => u \in Listed(r[f])

\* After a first full sync nothing that was linked is deleted.
SettledSession(s, r, D) ==
  /\ OwnerInv(s, LinksOf(r, D), Settled(r))
  /\ \A f \in D : HasCatalog(r, f) => \A u \in Listed(r[f]) : Owner(s, u) \in LinksOf(r, D)[u]

\* A full sync handles every catalog, and only those.
FullWalk(r, D, T) ==
  /\ \A f \in Files : HasCatalog(r, f) => f \in D \cup T
  /\ \A f \in T : f \in CatalogFiles /\ r[f] # Absent

RunInv(s, r, D, T, all, missed, full) ==
  /\ all => FullWalk(r, D, T)
  /\ full >= 1 => all
  /\ StoredSession(s, r, D, T, missed)
  /\ OneFile(r) => CleanSession(s, r, D)
  /\ OneFile(r) /\ full >= 1 => SettledSession(s, r, D)

SessionsInv ==
  sync # Idle =>
    /\ checkout # <<>>
    /\ RunInv(sync.session, checkout, sync.done, ToSet(sync.todo), sync.full,
              history.missed, history.full)

\* The committed rows: their companies, the feeds of file f, and what full
\* syncs of the same revision achieve.
RowsWithin(P) == \A u \in Urls : feeds[u] # NoFeed => feeds[u].company \in P[u]
RowsStored(r, f) ==
  \A u \in Urls : Undisturbed(f, u) =>
    ((feeds[u] # NoFeed /\ feeds[u].company = CompanyName(f, r[f])) <=> u \in Listed(r[f]))
RowsRestored(r) ==
  \A f \in Files : HasCatalog(r, f) => \A u \in Listed(r[f]) :
    feeds[u] # NoFeed /\ feeds[u].company \in LinksOf(r, Files)[u]
RowsInv(r, full) ==
  OneFile(r) => (full >= 1 => RowsWithin(Settled(r))) /\ (full >= 2 => RowsRestored(r))

Sources ==
  /\ remote \in Known /\ (checkout # <<>> => checkout \in Known)
  /\ history \in [missed : SUBSET Files, full : Nat] /\ (checkout = <<>> => history.full = 0)

\* The files the sync in progress handles.
Pending == IF sync = Idle THEN {} ELSE sync.done \cup ToSet(sync.todo)

StoredInv ==
  /\ Sources /\ SessionsInv /\ RowsWithin(AllLinks)
  /\ checkout # <<>> => RowsInv(checkout, history.full)
  /\ checkout # <<>> =>
       \A f \in Files \ (history.missed \cup Pending) : HasCatalog(checkout, f) => RowsStored(checkout, f)

LEMMA CatalogFacts ==
  ASSUME NEW r \in Known, NEW f \in Files, HasCatalog(r, f)
  PROVE  /\ r \in Revisions /\ IsContent(r[f]) /\ r[f].kind = "catalog"
         /\ CompanyName(f, r[f]) \in Names /\ Listed(r[f]) \in SUBSET Urls
         /\ Listed(r[f]) \subseteq MayList(f) /\ CompanyName(f, r[f]) \in MayOwn(f)
<1>1. r[f].kind = "catalog" BY DEF HasCatalog
<1>2. r \in Revisions
  <2>1. Empty[f] = Absent BY DEF Empty
  <2> QED BY <1>1, <2>1 DEF Known, Absent
<1>3. IsContent(r[f]) BY <1>2, RevisionsAssumption
<1>4. r[f] # Absent /\ r[f] # Broken BY <1>1 DEF Absent, Broken
<1>5. r[f].company \in Names \cup {Nobody} /\ \A i \in DOMAIN r[f].feeds : IsEntry(r[f].feeds[i])
  BY <1>3, <1>4 DEF IsContent
<1>6. CompanyName(f, r[f]) \in Names BY <1>5, FilesAssumption DEF CompanyName
<1>7. Listed(r[f]) \in SUBSET Urls BY <1>5 DEF Listed, IsEntry
<1>8. Listed(r[f]) \subseteq MayList(f) BY <1>2 DEF MayList
<1>9. CompanyName(f, r[f]) \in MayOwn(f) BY <1>2 DEF MayOwn
<1> QED BY <1>1, <1>2, <1>3, <1>6, <1>7, <1>8, <1>9

LEMMA LinksType ==
  ASSUME NEW r, NEW D, NEW u \in Urls, NEW n
  PROVE  n \in LinksOf(r, D)[u] <=>
           n \in Names /\ \E g \in D : HasCatalog(r, g) /\ u \in Listed(r[g]) /\ n = CompanyName(g, r[g])
BY DEF LinksOf

LEMMA LinksWithin ==
  ASSUME NEW r \in Known, NEW D \in SUBSET Files
  PROVE  Within(LinksOf(r, D), AllLinks)
<1>1. SUFFICES ASSUME NEW u \in Urls, NEW n \in LinksOf(r, D)[u] PROVE n \in AllLinks[u] BY DEF Within
<1>2. n \in Names BY LinksType
<1>3. PICK g \in D : HasCatalog(r, g) /\ u \in Listed(r[g]) /\ n = CompanyName(g, r[g]) BY LinksType
<1>4. r \in Revisions BY <1>3, CatalogFacts
<1> QED BY <1>2, <1>3, <1>4 DEF AllLinks

\* When no two catalogs share a company, no link is about to be deleted.
LEMMA LinksSettled ==
  ASSUME NEW r \in Known, NEW D \in SUBSET Files, OneFile(r)
  PROVE  Within(LinksOf(r, D), Settled(r))
<1>1. SUFFICES ASSUME NEW u \in Urls, NEW n \in LinksOf(r, D)[u] PROVE n \in Settled(r)[u] BY DEF Within
<1>2. n \in Names BY LinksType
<1>3. PICK g \in D : HasCatalog(r, g) /\ u \in Listed(r[g]) /\ n = CompanyName(g, r[g]) BY LinksType
<1>4. \A h \in Files : HasCatalog(r, h) /\ n = CompanyName(h, r[h]) => h = g BY <1>3 DEF OneFile
<1> QED BY <1>2, <1>3, <1>4 DEF Settled

\* More links may have been made.
LEMMA OwnersMonotone ==
  ASSUME NEW s \in Session, NEW L, NEW M, NEW P, Within(L, M), OwnerInv(s, L, P)
  PROVE  OwnerInv(s, M, P)
<1>1. DOMAIN s.objects \subseteq Urls BY SessionFields
<1> QED BY <1>1 DEF OwnerInv, Within

LEMMA MoreLinks ==
  ASSUME NEW r, NEW D, NEW f
  PROVE  Within(LinksOf(r, D), LinksOf(r, D \cup {f}))
BY LinksType DEF Within

\* No other file deletes an undisturbed url.
LEMMA NotDeleted ==
  ASSUME NEW f \in Files, NEW u \in Urls, Undisturbed(f, u), NEW g \in Files \ {f},
         NEW n \in MayOwn(g) \cup {NameOf[g]}
  PROVE  n \notin AllLinks[u]
<1>1. SUFFICES ASSUME n \in AllLinks[u] PROVE FALSE OBVIOUS
<1>2. PICK r \in Revisions, h \in Files : HasCatalog(r, h) /\ u \in Listed(r[h]) /\ n = CompanyName(h, r[h])
  BY <1>1 DEF AllLinks
<1>3. u \in MayList(h) /\ n \in MayOwn(h) BY <1>2, CatalogFacts DEF Known
<1>4. CASE h = f BY <1>3, <1>4 DEF Undisturbed
<1>5. CASE h # f BY <1>3, <1>5 DEF Undisturbed
<1> QED BY <1>4, <1>5

\* What _sync_catalog_file does to the owners, for a file that exists.
LEMMA PresentFileLinks ==
  ASSUME Tables, NEW s, Sound(s), NEW r \in Known, NEW D \in SUBSET Files, NEW P,
         Within(LinksOf(r, D), P), NEW f \in Files, HasCatalog(r, f),
         Within(LinksOf(r, D \cup {f}), P), OwnerInv(s, LinksOf(r, D), P),
         NEW n, n = CompanyName(f, r[f]), NEW urls, urls = Listed(r[f]),
         NEW t, t = EndOfFile(SyncPresentFile(s, f, r[f]))
  PROVE  FileEffect(s, t, n, urls, LinksOf(r, D \cup {f}), P)
<1>1. PICK M : M = LinksOf(r, D \cup {f}) OBVIOUS
<1>2. PICK c : c = r[f] OBVIOUS
<1>3. IsContent(c) /\ c.kind = "catalog" /\ n \in Names /\ urls \in SUBSET Urls BY <1>2, CatalogFacts
<1>4. \A u \in urls : n \in M[u] BY <1>1, <1>3, LinksType
<1>5. OwnerInv(s, M, P)
  <2>1. PICK L : L = LinksOf(r, D) OBVIOUS
  <2>2. Within(L, M) BY <1>1, <2>1, MoreLinks
  <2> QED BY <2>1, <2>2, OwnersMonotone, SoundLoaded
<1>6. Within(M, P) BY <1>1
<1>7. n = CompanyName(f, c) /\ urls = Listed(c) /\ t = EndOfFile(SyncPresentFile(s, f, c)) BY <1>2
<1>8. FileEffect(s, t, n, urls, M, P) BY <1>3, <1>4, <1>5, <1>6, <1>7, PresentFileOwners
<1> QED BY <1>1, <1>8

\* The files that were handled or did not change stay stored.
LEMMA PresentFileStored ==
  ASSUME Tables, NEW s, Sound(s), NEW r \in Known, NEW D \in SUBSET Files, NEW T, NEW missed,
         StoredSession(s, r, D, T, missed), NEW f \in Files, HasCatalog(r, f),
         NEW rest, T \subseteq rest \cup {f}, NEW t, t = EndOfFile(SyncPresentFile(s, f, r[f]))
  PROVE  StoredSession(t, r, D \cup {f}, rest, missed)
<1>1. PICK n : n = CompanyName(f, r[f]) OBVIOUS
<1>2. PICK urls : urls = Listed(r[f]) OBVIOUS
<1>3. PICK P : P = AllLinks OBVIOUS
<1>4. Within(LinksOf(r, D), P) /\ Within(LinksOf(r, D \cup {f}), P) BY <1>3, LinksWithin
<1>5. OwnerInv(s, LinksOf(r, D), P) BY <1>3 DEF StoredSession
<1>6. FileEffect(s, t, n, urls, LinksOf(r, D \cup {f}), P) BY <1>1, <1>2, <1>4, <1>5, PresentFileLinks
<1>7. n \in Names /\ n # Nobody BY <1>1, CatalogFacts, NamesAssumption
<1>8. n \in MayOwn(f) /\ urls \subseteq MayList(f) /\ urls \in SUBSET Urls BY <1>1, <1>2, CatalogFacts
<1>9. ASSUME NEW g \in Files, HasCatalog(r, g), g \in D \cup {f} \/ g \notin rest \cup missed,
             NEW u \in Urls, Undisturbed(g, u)
      PROVE  Owner(t, u) = CompanyName(g, r[g]) <=> u \in Listed(r[g])
  <2>1. CASE g = f
    <3>1. n \in LinksOf(r, D \cup {f})[u] => u \in urls
      <4>1. SUFFICES ASSUME n \in LinksOf(r, D \cup {f})[u], u \notin urls PROVE FALSE OBVIOUS
      <4>2. PICK k \in D \cup {f} : HasCatalog(r, k) /\ u \in Listed(r[k]) BY <4>1, LinksType
      <4>3. k # f /\ u \in MayList(k) BY <1>2, <4>1, <4>2, CatalogFacts
      <4> QED BY <1>9, <2>1, <4>3 DEF Undisturbed
    <3> QED BY <1>1, <1>2, <1>6, <1>7, <2>1, <3>1 DEF FileEffect
  <2>2. CASE g # f
    <3>1. StoredIn(s, r, g) BY <1>9, <2>2 DEF StoredSession
    <3>2. u \notin urls BY <1>8, <1>9, <2>2 DEF Undisturbed
    <3>3. n \notin P[u] BY <1>3, <1>8, <1>9, <2>2, NotDeleted
    <3>4. Owner(t, u) = Owner(s, u) BY <1>6, <3>2, <3>3 DEF FileEffect
    <3> QED BY <1>9, <3>1, <3>4 DEF StoredIn
  <2> QED BY <2>1, <2>2
<1>10. OwnerInv(t, LinksOf(r, D \cup {f}), AllLinks) BY <1>3, <1>6 DEF FileEffect
<1> QED BY <1>9, <1>10 DEF StoredSession, StoredIn

LEMMA MissingFileStored ==
  ASSUME Tables, NEW s, Sound(s), NEW r \in Known, NEW D \in SUBSET Files, NEW T, NEW missed,
         StoredSession(s, r, D, T, missed), NEW f \in Files, ~ HasCatalog(r, f),
         NEW rest, T \subseteq rest \cup {f}, NEW t, t = EndOfFile(SyncMissingFile(s, f))
  PROVE  StoredSession(t, r, D \cup {f}, rest, missed)
<1>1. PICK n : n = NameOf[f] OBVIOUS
<1>2. PICK P : P = AllLinks OBVIOUS
<1>3. PICK M : M = LinksOf(r, D \cup {f}) OBVIOUS
<1>4. OwnerInv(s, M, P)
  <2>1. PICK L : L = LinksOf(r, D) OBVIOUS
  <2>2. Within(L, M) BY <1>3, <2>1, MoreLinks
  <2>3. OwnerInv(s, L, P) BY <1>2, <2>1 DEF StoredSession
  <2> QED BY <2>2, <2>3, OwnersMonotone, SoundLoaded
<1>5. /\ OwnerInv(t, M, P)
      /\ \A u \in Urls : Owner(t, u) = Owner(s, u) \/ (Owner(t, u) = Nobody /\ n \in P[u])
  BY <1>1, <1>4, MissingFileOwners
<1>6. ASSUME NEW g \in Files, HasCatalog(r, g), g \in D \cup {f} \/ g \notin rest \cup missed,
             NEW u \in Urls, Undisturbed(g, u)
      PROVE  Owner(t, u) = CompanyName(g, r[g]) <=> u \in Listed(r[g])
  <2>1. g # f BY <1>6
  <2>2. StoredIn(s, r, g) BY <1>6, <2>1 DEF StoredSession
  <2>3. n \notin P[u] BY <1>1, <1>2, <1>6, <2>1, NotDeleted
  <2>4. Owner(t, u) = Owner(s, u) BY <1>5, <2>3
  <2> QED BY <1>6, <2>2, <2>4 DEF StoredIn
<1> QED BY <1>2, <1>3, <1>5, <1>6 DEF StoredSession, StoredIn

\* No feed that its file does not list appears.
LEMMA PresentFileClean ==
  ASSUME NEW s, NEW r \in Known, NEW D \in SUBSET Files, OneFile(r), CleanSession(s, r, D),
         NEW f \in Files, HasCatalog(r, f), NEW P, NEW t,
         FileEffect(s, t, CompanyName(f, r[f]), Listed(r[f]), LinksOf(r, D \cup {f}), P)
  PROVE  CleanSession(t, r, D \cup {f})
<1>1. SUFFICES ASSUME NEW g \in D \cup {f}, NEW u \in Urls, HasCatalog(r, g),
                      Owner(t, u) = CompanyName(g, r[g]), u \notin Listed(r[g])
               PROVE  FALSE
  BY DEF CleanSession
<1>2. CompanyName(g, r[g]) # Nobody BY <1>1, CatalogFacts, NamesAssumption
<1>3. CASE g = f
  <2>1. CompanyName(f, r[f]) \in LinksOf(r, D \cup {f})[u] BY <1>1, <1>2, <1>3 DEF FileEffect
  <2>2. PICK k \in D \cup {f} : HasCatalog(r, k) /\ u \in Listed(r[k]) /\ CompanyName(f, r[f]) = CompanyName(k, r[k])
    BY <2>1, LinksType
  <2>3. k = f BY <2>2 DEF OneFile
  <2> QED BY <1>1, <1>3, <2>2, <2>3
<1>4. CASE g # f
  <2>1. CompanyName(g, r[g]) # CompanyName(f, r[f]) BY <1>1, <1>4 DEF OneFile
  <2>2. Owner(t, u) = Owner(s, u) BY <1>1, <1>2, <2>1 DEF FileEffect
  <2> QED BY <1>1, <1>4, <2>2 DEF CleanSession
<1> QED BY <1>3, <1>4

LEMMA MissingFileClean ==
  ASSUME NEW s, NEW r \in Known, NEW D \in SUBSET Files, CleanSession(s, r, D),
         NEW f \in Files, ~ HasCatalog(r, f), NEW t,
         \A u \in Urls : Owner(t, u) = Owner(s, u) \/ Owner(t, u) = Nobody
  PROVE  CleanSession(t, r, D \cup {f})
<1>1. SUFFICES ASSUME NEW g \in D, NEW u \in Urls, HasCatalog(r, g),
                      Owner(t, u) = CompanyName(g, r[g]), u \notin Listed(r[g])
               PROVE  FALSE
  BY DEF CleanSession
<1>2. CompanyName(g, r[g]) # Nobody BY <1>1, CatalogFacts, NamesAssumption
<1> QED BY <1>1, <1>2 DEF CleanSession

\* A second full sync deletes no feed that is listed.
LEMMA PresentFileSettled ==
  ASSUME Tables, NEW s, Sound(s), NEW r \in Known, NEW D \in SUBSET Files, OneFile(r), SettledSession(s, r, D),
         NEW f \in Files, HasCatalog(r, f), NEW t, t = EndOfFile(SyncPresentFile(s, f, r[f]))
  PROVE  SettledSession(t, r, D \cup {f})
<1>1. PICK n : n = CompanyName(f, r[f]) OBVIOUS
<1>2. PICK urls : urls = Listed(r[f]) OBVIOUS
<1>3. PICK P : P = Settled(r) OBVIOUS
<1>4. PICK M : M = LinksOf(r, D \cup {f}) OBVIOUS
<1>5. Within(LinksOf(r, D), P) /\ Within(M, P) BY <1>3, <1>4, LinksSettled
<1>6. OwnerInv(s, LinksOf(r, D), P) BY <1>3 DEF SettledSession
<1>7. FileEffect(s, t, n, urls, M, P) BY <1>1, <1>2, <1>4, <1>5, <1>6, PresentFileLinks
<1>8. n \in Names /\ urls \in SUBSET Urls BY <1>1, <1>2, CatalogFacts
<1>9. ASSUME NEW g \in D \cup {f}, HasCatalog(r, g), NEW u \in Listed(r[g])
      PROVE  Owner(t, u) \in M[u]
  <2>1. u \in Urls BY <1>9, CatalogFacts
  <2>2. CASE u \in urls
    <3>1. n \in M[u] BY <1>1, <1>2, <1>4, <1>8, <2>1, <2>2, LinksType
    <3> QED BY <1>7, <2>2, <3>1 DEF FileEffect
  <2>3. CASE u \notin urls
    <3>1. g \in D BY <1>2, <1>9, <2>3
    <3>2. Owner(s, u) \in LinksOf(r, D)[u] BY <1>9, <3>1 DEF SettledSession
    <3>3. Owner(s, u) \in M[u] BY <1>4, <2>1, <3>2, MoreLinks DEF Within
    <3>4. n \notin P[u] BY <1>1, <1>2, <1>3, <2>1, <2>3 DEF Settled
    <3>5. Owner(t, u) = Owner(s, u) BY <1>7, <2>1, <2>3, <3>4 DEF FileEffect
    <3> QED BY <3>3, <3>5
  <2> QED BY <2>2, <2>3
<1>10. OwnerInv(t, M, P) BY <1>7 DEF FileEffect
<1> QED BY <1>3, <1>4, <1>9, <1>10 DEF SettledSession

-------------------------------------------------------------------------------
(* Steps that keep the companies of the rows.                              *)

SameCompanies ==
  \A u \in Urls : /\ feeds'[u] = NoFeed <=> feeds[u] = NoFeed
                  /\ feeds[u] # NoFeed => feeds'[u].company = feeds[u].company

LEMMA SameOwners ==
  ASSUME NEW s, Sound(s), SameCompanies
  PROVE  /\ \A u \in Urls : Owner(s, u)' = Owner(s, u)
         /\ \A M, P : OwnerInv(s, M, P) => OwnerInv(s, M, P)'
<1>1. \A u \in Urls : /\ FeedRow(s, u)' = NoFeed <=> FeedRow(s, u) = NoFeed
                      /\ FeedRow(s, u) # NoFeed => FeedRow(s, u)'.company = FeedRow(s, u).company
  BY DEF SameCompanies, FeedRow
<1>2. \A u \in Urls : Owner(s, u)' = Owner(s, u) BY <1>1 DEF Owner
<1>3. DOMAIN s.objects \subseteq Urls /\ Loaded(s) BY SoundLoaded, SessionFields
<1>4. ASSUME NEW M, NEW P, OwnerInv(s, M, P) PROVE OwnerInv(s, M, P)'
  BY <1>1, <1>3, <1>4 DEF OwnerInv, Loaded
<1> QED BY <1>2, <1>4

LEMMA SameRun ==
  ASSUME NEW s, Sound(s), SameCompanies, NEW r \in Known, NEW D \in SUBSET Files, NEW T,
         NEW all, NEW missed, NEW full, RunInv(s, r, D, T, all, missed, full)
  PROVE  RunInv(s, r, D, T, all, missed, full)'
<1>1. \A u \in Urls : Owner(s, u)' = Owner(s, u) BY SameOwners
<1>2. \A M, P : OwnerInv(s, M, P) => OwnerInv(s, M, P)' BY SameOwners
<1>3. PICK L : L = LinksOf(r, D) OBVIOUS
<1>4. PICK A : A = AllLinks OBVIOUS
<1>5. PICK B : B = Settled(r) OBVIOUS
<1>6. LinksOf(r, D)' = L /\ AllLinks' = A /\ Settled(r)' = B
  BY <1>3, <1>4, <1>5 DEF LinksOf, AllLinks, Settled, HasCatalog, Listed, CompanyName
<1>7. ASSUME NEW f \in Files, StoredIn(s, r, f) PROVE StoredIn(s, r, f)'
  BY <1>1, <1>7 DEF StoredIn, Undisturbed, MayList, MayOwn, HasCatalog, Listed, CompanyName
<1>8. StoredSession(s, r, D, T, missed)'
  <2>1. OwnerInv(s, L, A)' BY <1>2, <1>3, <1>4 DEF RunInv, StoredSession
  <2>2. \A f \in Files : HasCatalog(r, f)' <=> HasCatalog(r, f) BY DEF HasCatalog
  <2> QED BY <1>6, <1>7, <2>1, <2>2 DEF RunInv, StoredSession
<1>9. OneFile(r)' <=> OneFile(r) BY DEF OneFile, HasCatalog, CompanyName
<1>10. CleanSession(s, r, D) => CleanSession(s, r, D)'
  BY <1>1 DEF CleanSession, HasCatalog, CompanyName, Listed
<1>11. ASSUME SettledSession(s, r, D) PROVE SettledSession(s, r, D)'
  <2>1. OwnerInv(s, L, B)' BY <1>2, <1>3, <1>5, <1>11 DEF SettledSession
  <2>2. \A f \in D : HasCatalog(r, f) => \A u \in Listed(r[f]) : u \in Urls /\ Owner(s, u) \in L[u]
    BY <1>3, <1>11, CatalogFacts DEF SettledSession
  <2>3. \A f \in D : (HasCatalog(r, f)' <=> HasCatalog(r, f)) /\ Listed(r[f])' = Listed(r[f])
    BY DEF HasCatalog, Listed
  <2> QED BY <1>1, <1>6, <2>1, <2>2, <2>3 DEF SettledSession
<1>12. FullWalk(r, D, T) => FullWalk(r, D, T)' BY DEF FullWalk, HasCatalog
<1> QED BY <1>8, <1>9, <1>10, <1>11, <1>12 DEF RunInv

LEMMA SameWithin ==
  ASSUME SameCompanies, NEW P, RowsWithin(P)
  PROVE  RowsWithin(P)'
BY DEF SameCompanies, RowsWithin

LEMMA SameLinks ==
  ASSUME SameCompanies, RowsWithin(AllLinks)
  PROVE  RowsWithin(AllLinks)'
<1>1. PICK A : A = AllLinks OBVIOUS
<1>2. AllLinks' = A BY <1>1 DEF AllLinks, HasCatalog, Listed, CompanyName
<1>3. RowsWithin(A)' BY <1>1, SameWithin
<1> QED BY <1>2, <1>3 DEF RowsWithin

LEMMA SameRows ==
  ASSUME SameCompanies, NEW r \in Known, NEW full
  PROVE  /\ RowsInv(r, full) => RowsInv(r, full)'
         /\ \A f \in Files : RowsStored(r, f) => RowsStored(r, f)'
<1>1. OneFile(r)' <=> OneFile(r) BY DEF OneFile, HasCatalog, CompanyName
<1>2. RowsWithin(Settled(r)) => RowsWithin(Settled(r))'
  <2>1. PICK B : B = Settled(r) OBVIOUS
  <2>2. Settled(r)' = B BY <2>1 DEF Settled, HasCatalog, Listed, CompanyName
  <2>3. RowsWithin(B) => RowsWithin(B)' BY SameWithin
  <2> QED BY <2>1, <2>2, <2>3 DEF RowsWithin
<1>3. ASSUME RowsRestored(r) PROVE RowsRestored(r)'
  <2>1. PICK L : L = LinksOf(r, Files) OBVIOUS
  <2>2. LinksOf(r, Files)' = L BY <2>1 DEF LinksOf, HasCatalog, Listed, CompanyName
  <2>3. \A f \in Files : HasCatalog(r, f) => \A u \in Listed(r[f]) :
          u \in Urls /\ feeds[u] # NoFeed /\ feeds[u].company \in L[u]
    BY <1>3, <2>1, CatalogFacts DEF RowsRestored
  <2>4. \A f \in Files : (HasCatalog(r, f)' <=> HasCatalog(r, f)) /\ Listed(r[f])' = Listed(r[f])
    BY DEF HasCatalog, Listed
  <2> QED BY <2>2, <2>3, <2>4 DEF RowsRestored, SameCompanies
<1>4. ASSUME NEW f \in Files, RowsStored(r, f) PROVE RowsStored(r, f)'
  BY <1>4 DEF SameCompanies, RowsStored, Undisturbed, MayList, MayOwn, HasCatalog, Listed, CompanyName
<1> QED BY <1>1, <1>2, <1>3, <1>4 DEF RowsInv

\* The files that are stored stay stored.
LEMMA SameStoredRows ==
  ASSUME SameCompanies, NEW r, r # <<>> => r \in Known, NEW S,
         r # <<>> => \A f \in Files \ S : HasCatalog(r, f) => RowsStored(r, f)
  PROVE  r # <<>> => \A f \in Files \ S : HasCatalog(r, f)' => RowsStored(r, f)'
<1>1. \A f \in Files : HasCatalog(r, f)' <=> HasCatalog(r, f) BY DEF HasCatalog
<1> QED BY <1>1, SameRows

\* The session of the sync in progress.
LEMMA SyncSound ==
  ASSUME CatalogInv, sync # Idle
  PROVE  /\ Sound(sync.session) /\ sync \in SyncRequest
         /\ sync.done \in SUBSET Files /\ sync.todo \in Seq(Files)
BY DEF CatalogInv, SyncInv, Sound, SyncRequest

\* What the sync and the clone are, apart from the toggled feeds.
SameSync ==
  /\ sync' = Idle <=> sync = Idle
  /\ sync # Idle => /\ sync'.session = sync.session /\ sync'.done = sync.done
                    /\ sync'.todo = sync.todo /\ sync'.full = sync.full

LEMMA SameStored ==
  ASSUME CatalogInv, StoredInv, SameCompanies, SameSync, remote' \in Known, UNCHANGED <<checkout, history>>
  PROVE  StoredInv'
<1> USE DEF StoredInv
<1>1. Sources' BY DEF Sources, Known, Empty
<1>2. PICK r : r = checkout OBVIOUS
<1>3. PICK missed : missed = history.missed OBVIOUS
<1>4. PICK full : full = history.full OBVIOUS
<1>5. checkout' = r /\ history'.missed = missed /\ history'.full = full BY <1>2, <1>3, <1>4
<1>6. r # <<>> => r \in Known BY <1>2 DEF Sources
<1>7. SessionsInv'
  <2>1. CASE sync = Idle BY <2>1 DEF SessionsInv, SameSync
  <2>2. CASE sync # Idle
    <3>1. PICK s : s = sync.session OBVIOUS
    <3>2. PICK D : D = sync.done OBVIOUS
    <3>3. PICK T : T = ToSet(sync.todo) OBVIOUS
    <3>4. PICK all : all = sync.full OBVIOUS
    <3>5. Sound(s) /\ D \in SUBSET Files BY <2>2, <3>1, <3>2, SyncSound
    <3>6. r # <<>> /\ RunInv(s, r, D, T, all, missed, full)
      BY <1>2, <1>3, <1>4, <2>2, <3>1, <3>2, <3>3, <3>4 DEF SessionsInv
    <3>7. RunInv(s, r, D, T, all, missed, full)' BY <1>6, <3>5, <3>6, SameRun
    <3>8. sync'.session = s /\ sync'.done = D /\ ToSet(sync.todo)' = T /\ sync'.full = all
      BY <2>2, <3>1, <3>2, <3>3, <3>4 DEF SameSync, ToSet
    <3> QED BY <1>5, <3>6, <3>7, <3>8 DEF SessionsInv
  <2> QED BY <2>1, <2>2
<1>8. RowsWithin(AllLinks)' BY SameLinks
<1>9. (checkout # <<>> => RowsInv(checkout, history.full))'
  <2>1. r # <<>> => RowsInv(r, full)' BY <1>2, <1>4, <1>6, SameRows
  <2> QED BY <1>5, <2>1
<1>10. (checkout # <<>> =>
          \A f \in Files \ (history.missed \cup Pending) : HasCatalog(checkout, f) => RowsStored(checkout, f))'
  <2>1. PICK W : W = Pending OBVIOUS
  <2>2. Pending' = W BY <2>1 DEF Pending, SameSync, ToSet
  <2>3. PICK S : S = missed \cup W OBVIOUS
  <2>4. r # <<>> => \A f \in Files \ S : HasCatalog(r, f) => RowsStored(r, f) BY <1>2, <1>3, <2>1, <2>3
  <2>5. r # <<>> => \A f \in Files \ S : HasCatalog(r, f)' => RowsStored(r, f)'
    BY <1>6, <2>4, SameStoredRows
  <2> QED BY <1>5, <2>2, <2>3, <2>5
<1> QED BY <1>1, <1>7, <1>8, <1>9, <1>10

-------------------------------------------------------------------------------
(* A file is handled, a sync ends.                                         *)

HandleFile(s, r, f) ==
  EndOfFile(IF HasCatalog(r, f) THEN SyncPresentFile(s, f, r[f]) ELSE SyncMissingFile(s, f))

LEMMA FileSound ==
  ASSUME Tables, NEW s, Sound(s), NEW r \in Known, NEW f \in Files, NEW t, t = HandleFile(s, r, f)
  PROVE  Sound(t)
<1>1. PICK E, K : SessionInv(s, E, K) BY DEF Sound
<1>2. CASE HasCatalog(r, f)
  <2>1. PICK c : c = r[f] OBVIOUS
  <2>2. PICK q : q = SyncPresentFile(s, f, c) OBVIOUS
  <2>3. IsContent(c) /\ c.kind = "catalog" BY <1>2, <2>1, CatalogFacts
  <2>4. PICK F : SessionInv(q, F, K) BY <1>1, <2>2, <2>3, PresentFileKeeps
  <2>5. t = EndOfFile(q) BY <1>2, <2>1, <2>2 DEF HandleFile
  <2> QED BY <2>4, <2>5, EndKeeps DEF Sound
<1>3. CASE ~ HasCatalog(r, f)
  <2>1. PICK q : q = SyncMissingFile(s, f) OBVIOUS
  <2>2. SessionInv(q, E, K) BY <1>1, <2>1, MissingFileKeeps
  <2>3. t = EndOfFile(q) BY <1>3, <2>1 DEF HandleFile
  <2> QED BY <2>2, <2>3, EndKeeps DEF Sound
<1> QED BY <1>2, <1>3

LEMMA FileRun ==
  ASSUME Tables, NEW s, Sound(s), NEW r \in Known, NEW D \in SUBSET Files, NEW T, NEW all, NEW missed, NEW full,
         RunInv(s, r, D, T, all, missed, full), NEW f \in Files, f \in CatalogFiles => r[f] # Broken,
         NEW rest, T = rest \cup {f}, NEW t, t = HandleFile(s, r, f)
  PROVE  RunInv(t, r, D \cup {f}, rest, all, missed, full)
<1>1. all => FullWalk(r, D \cup {f}, rest) BY DEF RunInv, FullWalk
<1>2. full >= 1 => all BY DEF RunInv
<1>3. StoredSession(s, r, D, T, missed) BY DEF RunInv
<1>4. CASE HasCatalog(r, f)
  <2>1. t = EndOfFile(SyncPresentFile(s, f, r[f])) BY <1>4 DEF HandleFile
  <2>2. StoredSession(t, r, D \cup {f}, rest, missed) BY <1>3, <1>4, <2>1, PresentFileStored
  <2>3. ASSUME OneFile(r) PROVE CleanSession(t, r, D \cup {f})
    <3>1. PICK P : P = AllLinks OBVIOUS
    <3>2. Within(LinksOf(r, D), P) /\ Within(LinksOf(r, D \cup {f}), P) BY <3>1, LinksWithin
    <3>3. OwnerInv(s, LinksOf(r, D), P) BY <1>3, <3>1 DEF StoredSession
    <3>4. PICK n : n = CompanyName(f, r[f]) OBVIOUS
    <3>5. PICK urls : urls = Listed(r[f]) OBVIOUS
    <3>6. FileEffect(s, t, n, urls, LinksOf(r, D \cup {f}), P)
      BY <1>4, <2>1, <3>2, <3>3, <3>4, <3>5, PresentFileLinks
    <3>7. CleanSession(s, r, D) BY <2>3 DEF RunInv
    <3> QED BY <1>4, <2>3, <3>4, <3>5, <3>6, <3>7, PresentFileClean
  <2>4. ASSUME OneFile(r), full >= 1 PROVE SettledSession(t, r, D \cup {f})
    <3>1. SettledSession(s, r, D) BY <2>4 DEF RunInv
    <3> QED BY <1>4, <2>1, <2>4, <3>1, PresentFileSettled
  <2> QED BY <1>1, <1>2, <2>2, <2>3, <2>4 DEF RunInv
<1>5. CASE ~ HasCatalog(r, f)
  <2>1. t = EndOfFile(SyncMissingFile(s, f)) BY <1>5 DEF HandleFile
  <2>2. StoredSession(t, r, D \cup {f}, rest, missed) BY <1>3, <1>5, <2>1, MissingFileStored
  <2>3. ASSUME OneFile(r) PROVE CleanSession(t, r, D \cup {f})
    <3>1. PICK P : P = AllLinks OBVIOUS
    <3>2. PICK M : M = LinksOf(r, D) OBVIOUS
    <3>3. OwnerInv(s, M, P) BY <1>3, <3>1, <3>2 DEF StoredSession
    <3>4. PICK n : n = NameOf[f] OBVIOUS
    <3>5. \A u \in Urls : Owner(t, u) = Owner(s, u) \/ (Owner(t, u) = Nobody /\ n \in P[u])
      BY <2>1, <3>3, <3>4, MissingFileOwners
    <3>6. CleanSession(s, r, D) BY <2>3 DEF RunInv
    <3> QED BY <1>5, <3>5, <3>6, MissingFileClean
  <2>4. ~ (full >= 1)
    <3>1. SUFFICES ASSUME full >= 1 PROVE FALSE OBVIOUS
    <3>2. f \in CatalogFiles /\ r[f] # Absent /\ r[f] # Broken BY <3>1 DEF RunInv, FullWalk
    <3>3. r \in Revisions BY <3>2 DEF Known, Empty
    <3>4. IsContent(r[f]) BY <3>3, RevisionsAssumption
    <3> QED BY <1>5, <3>2, <3>4 DEF IsContent, HasCatalog
  <2> QED BY <1>1, <2>2, <2>3, <2>4 DEF RunInv
<1> QED BY <1>4, <1>5

LEMMA SyncFileStored ==
  ASSUME CatalogInv, StoredInv, SyncFile
  PROVE  StoredInv'
<1> USE DEF StoredInv
<1>1. UNCHANGED <<remote, checkout, feeds, history>> BY DEF SyncFile, dbVars
<1>2. SameCompanies BY <1>1 DEF SameCompanies
<1>3. sync # Idle BY DEF SyncFile, Idle
<1>4. PICK s : s = sync.session OBVIOUS
<1>5. PICK r : r = checkout OBVIOUS
<1>6. PICK D : D = sync.done OBVIOUS
<1>7. PICK T : T = ToSet(sync.todo) OBVIOUS
<1>8. PICK all : all = sync.full OBVIOUS
<1>9. PICK missed : missed = history.missed OBVIOUS
<1>10. PICK full : full = history.full OBVIOUS
<1>11. Sound(s) /\ sync \in SyncRequest /\ D \in SUBSET Files /\ sync.todo \in Seq(Files)
  BY <1>3, <1>4, <1>6, SyncSound
<1>12. r # <<>> /\ r \in Known /\ RunInv(s, r, D, T, all, missed, full)
  BY <1>3, <1>4, <1>5, <1>6, <1>7, <1>8, <1>9, <1>10 DEF SessionsInv, Sources
<1>13. PICK f : f = Head(sync.todo) OBVIOUS
<1>14. PICK rest : rest = ToSet(Tail(sync.todo)) OBVIOUS
<1>15. f \in Files /\ Tail(sync.todo) \in Seq(Files) /\ T = rest \cup {f}
  <2>1. PICK todo : todo = sync.todo OBVIOUS
  <2>2. todo \in Seq(Files) /\ todo # <<>> BY <1>11, <2>1 DEF SyncFile
  <2>3. Head(todo) \in Files /\ Tail(todo) \in Seq(Files) BY <2>2
  <2>4. Len(todo) \in Nat /\ Len(todo) # 0 /\ DOMAIN todo = 1..Len(todo) BY <2>2
  <2>5. DOMAIN Tail(todo) = 1..(Len(todo) - 1) /\ \A i \in 1..(Len(todo) - 1) : Tail(todo)[i] = todo[i + 1]
    BY <2>2, <2>4
  <2>6. \A x : x \in ToSet(todo) <=> x \in ToSet(Tail(todo)) \/ x = Head(todo)
    <3>1. \A x : x \in ToSet(Tail(todo)) => x \in ToSet(todo) BY <2>4, <2>5 DEF ToSet
    <3>2. Head(todo) \in ToSet(todo) BY <2>2, <2>4 DEF ToSet
    <3>3. ASSUME NEW i \in 1..Len(todo), todo[i] # Head(todo) PROVE todo[i] \in ToSet(Tail(todo))
      <4>1. i # 1 BY <2>2, <3>3
      <4>2. i - 1 \in 1..(Len(todo) - 1) /\ (i - 1) + 1 = i BY <2>4, <4>1
      <4>3. Tail(todo)[i - 1] = todo[i] BY <2>5, <4>2
      <4> QED BY <2>5, <4>2, <4>3 DEF ToSet
    <3> QED BY <2>4, <3>1, <3>2, <3>3 DEF ToSet
  <2> QED BY <1>7, <1>13, <1>14, <2>1, <2>3, <2>6
<1>16. PICK t : t = HandleFile(s, r, f) OBVIOUS
<1>17. f \in CatalogFiles => r[f] # Broken BY <1>5, <1>13 DEF SyncFile
<1>18. sync' = [sync EXCEPT !.todo = Tail(sync.todo), !.done = sync.done \cup {f}, !.session = t]
  BY <1>4, <1>5, <1>13, <1>16 DEF SyncFile, HandleFile
<1>19. sync'.session = t /\ sync'.done = D \cup {f} /\ sync'.todo = Tail(sync.todo) /\ sync'.full = all
  BY <1>6, <1>8, <1>11, <1>18 DEF SyncRequest
<1>20. Tables BY DEF CatalogInv
<1>21. Sound(t) BY <1>11, <1>12, <1>15, <1>16, <1>20, FileSound
<1>22. RunInv(t, r, D \cup {f}, rest, all, missed, full)
  BY <1>11, <1>12, <1>15, <1>16, <1>17, <1>20, FileRun
<1>23. PICK E : E = D \cup {f} OBVIOUS
<1>24. RunInv(t, r, E, rest, all, missed, full)'
  <2>1. E \in SUBSET Files BY <1>11, <1>15, <1>23
  <2> QED BY <1>2, <1>12, <1>21, <1>22, <1>23, <2>1, SameRun
<1>25. SessionsInv'
  <2>1. ToSet(sync.todo)' = rest BY <1>14, <1>19 DEF ToSet
  <2>2. checkout' = r /\ history'.missed = missed /\ history'.full = full BY <1>1, <1>5, <1>9, <1>10
  <2> QED BY <1>12, <1>19, <1>23, <1>24, <2>1, <2>2 DEF SessionsInv
<1>26. Sources' BY <1>1 DEF Sources, Known, Empty
<1>27. RowsWithin(AllLinks)' BY <1>2, SameLinks
<1>28. RowsInv(checkout, history.full)'
  <2>1. RowsInv(r, full)' BY <1>2, <1>5, <1>10, <1>12, SameRows
  <2> QED BY <1>1, <1>5, <1>10, <2>1
<1>29. sync' # Idle
  <2>1. sync' \in SyncRequest BY <1>11, <1>15, <1>18, <1>21, SoundLoaded DEF SyncRequest
  <2> QED BY <2>1 DEF SyncRequest, Idle
<1>30. (checkout # <<>> =>
          \A g \in Files \ (history.missed \cup Pending) : HasCatalog(checkout, g) => RowsStored(checkout, g))'
  <2>1. PICK W : W = Pending OBVIOUS
  <2>2. ToSet(sync.todo)' = rest BY <1>14, <1>19 DEF ToSet
  <2>3. W = D \cup T /\ Pending' = (D \cup {f}) \cup rest
    BY <1>3, <1>6, <1>7, <1>19, <1>29, <2>1, <2>2 DEF Pending
  <2>4. Pending' = W BY <1>15, <2>3
  <2>5. checkout' = r /\ history'.missed = missed BY <1>1, <1>5, <1>9
  <2> QED BY <1>2, <1>5, <1>9, <1>12, <2>1, <2>4, <2>5, SameStoredRows
<1> QED BY <1>25, <1>26, <1>27, <1>28, <1>30

\* A sync that is rolled back leaves the rows alone.
LEMMA SyncRollbackStored ==
  ASSUME CatalogInv, StoredInv, SyncRollback
  PROVE  StoredInv'
<1> USE DEF StoredInv
<1> DEFINE left == {f \in sync.done \cup ToSet(sync.todo) : HasCatalog(checkout, f)}
<1>1. /\ UNCHANGED <<remote, checkout, feeds>> /\ sync # Idle /\ sync' = Idle
      /\ history' = [history EXCEPT !.missed = @ \cup left]
  BY DEF SyncRollback, dbVars, Idle
<1>2. SameCompanies BY <1>1 DEF SameCompanies
<1>3. /\ history' \in [missed : SUBSET Files, full : Nat]
      /\ history'.missed = history.missed \cup left /\ history'.full = history.full
  <2>1. left \in SUBSET Files BY FilesAssumption DEF HasCatalog
  <2> HIDE DEF left
  <2> QED BY <1>1, <2>1 DEF Sources
<1>4. Sources' BY <1>1, <1>3 DEF Sources, Known, Empty
<1>5. SessionsInv' BY <1>1 DEF SessionsInv
<1>6. RowsWithin(AllLinks)' BY <1>2, SameLinks
<1>7. (checkout # <<>> => RowsInv(checkout, history.full))'
  <2>1. PICK r : r = checkout OBVIOUS
  <2>2. PICK full : full = history.full OBVIOUS
  <2>3. r # <<>> => r \in Known BY <2>1 DEF Sources
  <2>4. r # <<>> => RowsInv(r, full)' BY <1>2, <2>1, <2>2, <2>3, SameRows
  <2> QED BY <1>1, <1>3, <2>1, <2>2, <2>4
<1>8. (checkout # <<>> =>
         \A f \in Files \ (history.missed \cup Pending) : HasCatalog(checkout, f) => RowsStored(checkout, f))'
  <2>1. PICK r : r = checkout OBVIOUS
  <2>2. PICK missed : missed = history.missed OBVIOUS
  <2>3. PICK W : W = Pending OBVIOUS
  <2>4. r # <<>> => r \in Known BY <2>1 DEF Sources
  <2>5. r # <<>> => \A f \in Files \ (missed \cup W) : HasCatalog(r, f)' => RowsStored(r, f)'
    BY <1>2, <2>1, <2>2, <2>3, <2>4, SameStoredRows
  <2>6. W = sync.done \cup ToSet(sync.todo) /\ Pending' = {} BY <1>1, <2>3 DEF Pending
  <2>7. \A f \in W : HasCatalog(r, f)' => f \in left BY <2>1, <2>6 DEF HasCatalog
  <2>8. checkout' = r /\ history'.missed = missed \cup left BY <1>1, <1>3, <2>1, <2>2
  <2> HIDE DEF left
  <2> QED BY <2>5, <2>6, <2>7, <2>8
<1> QED BY <1>4, <1>5, <1>6, <1>7, <1>8

\* The rows a sync commits have the companies of its session.
LEMMA CommittedOwners ==
  ASSUME CatalogInv, SyncCommit, NEW s, s = sync.session, NEW M, NEW P, Within(M, P), OwnerInv(s, M, P)
  PROVE  \A u \in Urls :
           /\ feeds'[u] # NoFeed => /\ feeds'[u].company = Owner(s, u) /\ feeds'[u].company \in Names
                                    /\ feeds'[u].company \in P[u]
           /\ feeds'[u] = NoFeed => Owner(s, u) = Nobody
<1>1. Sound(s) BY SyncSound DEF SyncCommit, Idle
<1>2. PICK t : t = Flush(s) OBVIOUS
<1>3. feeds' = [u \in Urls |-> FeedRow(t, u)] BY <1>2 DEF SyncCommit
<1>4. /\ OwnersKept(s, t, M, P)
      /\ \A u \in Urls : FeedRow(t, u) # NoFeed => FeedRow(t, u).company = Owner(s, u)
      /\ \A u \in Urls : FeedRow(t, u) = NoFeed => Owner(s, u) = Nobody
  <2>1. Tables BY DEF CatalogInv
  <2> QED BY <1>1, <1>2, <2>1, FlushOwners
<1>5. RowsHold' BY SyncCommitRows
<1>6. \A u \in Urls : feeds'[u] # NoFeed => feeds'[u].company \in Names BY <1>5 DEF RowsHold
<1>7. \A u \in Urls : FeedRow(t, u) # NoFeed /\ FeedRow(t, u).company # Nobody => FeedRow(t, u).company \in P[u]
  BY <1>4 DEF OwnersKept, OwnerInv
<1> QED BY <1>3, <1>4, <1>6, <1>7, NamesAssumption

\* The rows of the feeds of company n.
LEMMA CommittedCompany ==
  ASSUME CatalogInv, SyncCommit, NEW s, s = sync.session, NEW M, NEW P, Within(M, P), OwnerInv(s, M, P),
         NEW u \in Urls, NEW n \in Names
  PROVE  (feeds'[u] # NoFeed /\ feeds'[u].company = n) <=> Owner(s, u) = n
<1>1. /\ feeds'[u] # NoFeed => feeds'[u].company = Owner(s, u)
      /\ feeds'[u] = NoFeed => Owner(s, u) = Nobody
  BY CommittedOwners
<1> QED BY <1>1, NamesAssumption

LEMMA SyncCommitStored ==
  ASSUME CatalogInv, StoredInv, SyncCommit
  PROVE  StoredInv'
<1> USE DEF StoredInv
<1>1. sync # Idle BY DEF SyncCommit, Idle
<1>2. PICK s : s = sync.session OBVIOUS
<1>3. PICK r : r = checkout OBVIOUS
<1>4. PICK D : D = sync.done OBVIOUS
<1>5. PICK all : all = sync.full OBVIOUS
<1>6. PICK missed : missed = history.missed OBVIOUS
<1>7. PICK full : full = history.full OBVIOUS
<1>8. D \in SUBSET Files /\ sync \in SyncRequest BY <1>1, <1>4, SyncSound
<1>9. ToSet(sync.todo) = {} BY DEF SyncCommit, ToSet
<1>10. r # <<>> /\ r \in Known /\ RunInv(s, r, D, {}, all, missed, full)
  BY <1>1, <1>2, <1>3, <1>4, <1>5, <1>6, <1>7, <1>9 DEF SessionsInv, Sources
<1>11. full \in Nat /\ missed \in SUBSET Files BY <1>6, <1>7 DEF Sources
<1>12. /\ UNCHANGED <<remote, checkout>> /\ sync' = Idle
       /\ history' = [missed |-> missed \ D, full |-> IF all THEN MinOf(2, full + 1) ELSE full]
  BY <1>4, <1>5, <1>6, <1>7 DEF SyncCommit
<1>13. PICK L : L = LinksOf(r, D) OBVIOUS
<1>14. PICK A : A = AllLinks OBVIOUS
<1>15. Within(L, A) /\ OwnerInv(s, L, A)
  <2>1. Within(L, A) BY <1>8, <1>10, <1>13, <1>14, LinksWithin
  <2> QED BY <1>10, <1>13, <1>14, <2>1 DEF RunInv, StoredSession
<1>16. Sources'
  <2>1. MinOf(2, full + 1) \in Nat BY <1>11 DEF MinOf
  <2>2. history' \in [missed : SUBSET Files, full : Nat] BY <1>11, <1>12, <2>1
  <2> QED BY <1>3, <1>10, <1>12, <2>2 DEF Sources, Known, Empty
<1>17. SessionsInv' BY <1>12 DEF SessionsInv
<1>18. RowsWithin(AllLinks)'
  <2>1. \A u \in Urls : feeds'[u] # NoFeed => feeds'[u].company \in A[u] BY <1>2, <1>15, CommittedOwners
  <2>2. AllLinks' = A BY <1>14 DEF AllLinks, HasCatalog, Listed, CompanyName
  <2> QED BY <2>1, <2>2 DEF RowsWithin
<1>19. all => \A f \in Files : HasCatalog(r, f) => f \in D BY <1>10 DEF RunInv, FullWalk
<1>20. RowsInv(r, history.full)'
  <2>1. SUFFICES ASSUME OneFile(r)'
                 PROVE  /\ history'.full >= 1 => RowsWithin(Settled(r))'
                        /\ history'.full >= 2 => RowsRestored(r)'
    BY DEF RowsInv
  <2>2. OneFile(r) BY <2>1 DEF OneFile, HasCatalog, CompanyName
  <2>3. ASSUME history'.full >= 1 PROVE all BY <1>7, <1>10, <1>12, <2>3 DEF RunInv
  <2>4. ASSUME history'.full >= 2 PROVE all /\ full >= 1
    <3>1. all BY <1>11, <1>16, <2>3, <2>4 DEF Sources
    <3>2. MinOf(2, full + 1) >= 2 BY <1>12, <2>4, <3>1
    <3> QED BY <1>11, <3>1, <3>2 DEF MinOf
  <2>5. ASSUME history'.full >= 1 PROVE RowsWithin(Settled(r))'
    <3>1. ASSUME NEW u \in Urls, feeds'[u] # NoFeed PROVE feeds'[u].company \in Settled(r)[u]
      <4>1. PICK n : n = feeds'[u].company OBVIOUS
      <4>2. n \in Names /\ Owner(s, u) = n BY <1>2, <1>15, <3>1, <4>1, CommittedOwners
      <4>3. ASSUME NEW g \in Files, HasCatalog(r, g), n = CompanyName(g, r[g]) PROVE u \in Listed(r[g])
        <5>1. g \in D BY <1>19, <2>3, <2>5, <4>3
        <5> QED BY <1>10, <2>2, <4>2, <4>3, <5>1 DEF RunInv, CleanSession
      <4> QED BY <4>1, <4>2, <4>3 DEF Settled
    <3>2. Settled(r)' = Settled(r) BY DEF Settled, HasCatalog, Listed, CompanyName
    <3> QED BY <3>1, <3>2 DEF RowsWithin
  <2>6. ASSUME history'.full >= 2 PROVE RowsRestored(r)'
    <3>1. SettledSession(s, r, D) BY <1>10, <2>2, <2>4, <2>6 DEF RunInv
    <3>2. ASSUME NEW f \in Files, HasCatalog(r, f), NEW u \in Listed(r[f])
          PROVE  feeds'[u] # NoFeed /\ feeds'[u].company \in LinksOf(r, Files)[u]
      <4>1. f \in D BY <1>19, <2>4, <2>6, <3>2
      <4>2. u \in Urls BY <1>10, <3>2, CatalogFacts
      <4>3. PICK n : n = Owner(s, u) OBVIOUS
      <4>4. n \in LinksOf(r, D)[u] BY <3>1, <3>2, <4>1, <4>3 DEF SettledSession
      <4>5. n \in Names /\ n \in LinksOf(r, Files)[u] BY <1>8, <4>2, <4>4, LinksType
      <4>6. feeds'[u] # NoFeed /\ feeds'[u].company = n
        BY <1>2, <1>15, <4>2, <4>3, <4>5, CommittedCompany
      <4> QED BY <4>5, <4>6
    <3>3. LinksOf(r, Files)' = LinksOf(r, Files) BY DEF LinksOf, HasCatalog, Listed, CompanyName
    <3>4. \A f \in Files : (HasCatalog(r, f)' <=> HasCatalog(r, f)) /\ Listed(r[f])' = Listed(r[f])
      BY DEF HasCatalog, Listed
    <3> QED BY <3>2, <3>3, <3>4 DEF RowsRestored
  <2> QED BY <2>5, <2>6
<1>21. ASSUME NEW f \in Files, f \notin history'.missed, HasCatalog(r, f) PROVE RowsStored(r, f)'
  <2>1. StoredIn(s, r, f)
    <3>1. f \in D \/ f \notin missed BY <1>12, <1>21
    <3> QED BY <1>10, <1>21, <3>1 DEF RunInv, StoredSession
  <2>2. PICK n : n = CompanyName(f, r[f]) OBVIOUS
  <2>3. n \in Names BY <1>10, <1>21, <2>2, CatalogFacts
  <2>4. \A u \in Urls : (feeds'[u] # NoFeed /\ feeds'[u].company = n) <=> Owner(s, u) = n
    BY <1>2, <1>15, <2>3, CommittedCompany
  <2>5. \A u \in Urls : Undisturbed(f, u) =>
          ((feeds'[u] # NoFeed /\ feeds'[u].company = n) <=> u \in Listed(r[f]))
    BY <2>1, <2>2, <2>4 DEF StoredIn
  <2>6. \A u \in Urls : Undisturbed(f, u)' <=> Undisturbed(f, u)
    BY DEF Undisturbed, MayList, MayOwn, HasCatalog, Listed, CompanyName
  <2>7. CompanyName(f, r[f])' = n /\ Listed(r[f])' = Listed(r[f]) BY <2>2 DEF CompanyName, Listed
  <2> QED BY <2>5, <2>6, <2>7 DEF RowsStored
<1>22. (checkout # <<>> =>
          \A f \in Files \ (history.missed \cup Pending) : HasCatalog(checkout, f) => RowsStored(checkout, f))'
  <2>1. \A f \in Files : HasCatalog(r, f)' <=> HasCatalog(r, f) BY DEF HasCatalog
  <2> QED BY <1>3, <1>12, <1>21, <2>1
<1>23. (checkout # <<>> => RowsInv(checkout, history.full))' BY <1>3, <1>12, <1>20
<1> QED BY <1>16, <1>17, <1>18, <1>22, <1>23

-------------------------------------------------------------------------------
(* A sync begins.                                                          *)

LEMMA NewOwners ==
  ASSUME NEW s, s = NewSession
  PROVE  /\ \A u \in Urls : Owner(s, u) = IF feeds[u] = NoFeed THEN Nobody ELSE feeds[u].company
         /\ \A M, P : RowsWithin(P) => OwnerInv(s, M, P)
<1>1. DOMAIN s.objects = {} /\ DOMAIN s.written = {} BY DEF NewSession
<1>2. \A u : FeedRow(s, u) = feeds[u] BY <1>1 DEF FeedRow
<1> QED BY <1>1, <1>2 DEF Owner, OwnerInv, RowsWithin

\* A walk meets every file of its set.
LEMMA WalkCovers ==
  ASSUME NEW S \in SUBSET Files, NEW walk \in SetToSeqs(S)
  PROVE  ToSet(walk) = S
<1>1. IsFiniteSet(S) BY FilesAssumption, FS_Subset
<1>2. Cardinality(S) \in Nat BY <1>1, FS_CardinalityType
<1>3. PICK n \in Nat : n = Cardinality(S) BY <1>2
<1>4. walk \in [1..n -> S] /\ \A i, j \in 1..n : i # j => walk[i] # walk[j] BY <1>3 DEF SetToSeqs
<1>5. walk \in Injection(1..n, S) BY <1>4 DEF Injection, IsInjective
<1>6. Cardinality(1..n) = n
  <2>1. Cardinality(1..n) = IF 1 > n THEN 0 ELSE n - 1 + 1 BY FS_Interval
  <2> QED BY <2>1
<1>7. walk \in Surjection(1..n, S) BY <1>1, <1>3, <1>5, <1>6, FS_Injection
<1> QED BY <1>4, <1>7 DEF Surjection, ToSet

\* The rows of an unchanged file.
LEMMA UnchangedFile ==
  ASSUME NEW q, NEW r, NEW f \in Files, q[f] = r[f], HasCatalog(q, f) => RowsStored(q, f), HasCatalog(r, f)
  PROVE  RowsStored(r, f)
<1>1. HasCatalog(q, f) BY DEF HasCatalog
<1> QED BY <1>1 DEF RowsStored

\* The files a sync handles: all catalogs, or none if the pull changed nothing.
Begins(force, todo) ==
  IF force \/ checkout = <<>> THEN FullWalk(remote, {}, ToSet(todo))
  ELSE checkout = remote => todo = <<>>

LEMMA BeginStored ==
  ASSUME CatalogInv, StoredInv, sync = Idle, NEW force \in BOOLEAN, NEW todo \in Seq(Files), Begins(force, todo),
         BeginSync(force, todo), UNCHANGED <<remote, feeds>>
  PROVE  StoredInv'
<1> USE DEF StoredInv
<1>1. PICK r : r = remote OBVIOUS
<1>2. PICK missed : missed = history'.missed OBVIOUS
<1>3. PICK full : full = history'.full OBVIOUS
<1>4. PICK T : T = ToSet(todo) OBVIOUS
<1>5. checkout' = r /\ r \in Known BY <1>1 DEF BeginSync, Sources
<1>6. SameCompanies BY DEF SameCompanies
<1>7. /\ history' \in [missed : SUBSET Files, full : Nat]
      /\ missed = {f \in history.missed \cup (Differing \ T) : HasCatalog(r, f)}
      /\ full \in Nat /\ (full >= 1 => checkout = r /\ full = history.full)
  <2> DEFINE left == {f \in history.missed \cup (Differing \ T) : HasCatalog(r, f)}
  <2>1. left \in SUBSET Files BY FilesAssumption DEF HasCatalog
  <2>2. history' = [missed |-> left, full |-> IF checkout = r THEN history.full ELSE 0]
    BY <1>1, <1>4 DEF BeginSync
  <2>3. history.full \in Nat BY DEF Sources
  <2> HIDE DEF left
  <2>4. history' \in [missed : SUBSET Files, full : Nat] /\ missed = left BY <1>2, <2>1, <2>2, <2>3
  <2>5. full \in Nat /\ (full >= 1 => checkout = r /\ full = history.full) BY <1>3, <2>2, <2>3
  <2> QED BY <2>4, <2>5 DEF left
<1>8. Sources' BY <1>1, <1>3, <1>5, <1>7 DEF Sources, Known, Empty
<1>9. RowsWithin(AllLinks)' BY <1>6, SameLinks
<1>10. r # <<>> => RowsInv(r, full)
  <2>1. CASE full >= 1 BY <1>7, <2>1
  <2>2. CASE ~ (full >= 1) BY <1>7, <2>2 DEF RowsInv
  <2> QED BY <2>1, <2>2
<1>11. (checkout # <<>> => RowsInv(checkout, history.full))'
  <2>1. r # <<>> => RowsInv(r, full)' BY <1>5, <1>6, <1>10, SameRows
  <2> QED BY <1>3, <1>5, <2>1
<1>12. ASSUME NEW f \in Files, HasCatalog(r, f), f \notin T \cup missed PROVE RowsStored(r, f)
  <2>1. ~ (force \/ checkout = <<>>) BY <1>1, <1>4, <1>12 DEF Begins, FullWalk
  <2>2. f \notin history.missed /\ f \notin Differing BY <1>7, <1>12
  <2>3. checkout[f] = r[f] BY <1>1, <1>12, <2>1, <2>2 DEF Differing
  <2>4. HasCatalog(checkout, f) => RowsStored(checkout, f) BY <1>12, <2>1, <2>2 DEF Pending
  <2> QED BY <1>12, <2>3, <2>4, UnchangedFile
<1>13. (checkout # <<>> =>
          \A f \in Files \ (history.missed \cup Pending) : HasCatalog(checkout, f) => RowsStored(checkout, f))'
  <2>1. \A f \in Files : HasCatalog(r, f)' <=> HasCatalog(r, f) BY DEF HasCatalog
  <2>2. \A f \in Files : HasCatalog(r, f) /\ f \notin T \cup missed => RowsStored(r, f)'
    BY <1>5, <1>6, <1>12, SameRows
  <2>3. Pending' = T
    <3>1. CASE todo = <<>>
      <4>1. sync' = Idle /\ T = {} BY <1>4, <3>1 DEF BeginSync, ToSet
      <4> QED BY <4>1 DEF Pending
    <3>2. CASE todo # <<>>
      <4>1. PICK s : s = NewSession OBVIOUS
      <4>2. PICK all : all = (force \/ checkout = <<>>) OBVIOUS
      <4>3. sync' = [phase |-> "files", full |-> all, todo |-> todo, done |-> {}, session |-> s, toggled |-> <<>>]
        BY <3>2, <4>1, <4>2 DEF BeginSync
      <4>4. sync'.phase = "files" /\ sync'.done = {} /\ sync'.todo = todo BY <4>3
      <4>5. sync' # Idle BY <4>4 DEF Idle
      <4> QED BY <1>4, <4>4, <4>5 DEF Pending, ToSet
    <3> QED BY <3>1, <3>2
  <2> QED BY <1>2, <1>5, <2>1, <2>2, <2>3
<1>14. CASE todo = <<>>
  <2>1. sync' = Idle BY <1>14 DEF BeginSync
  <2>2. SessionsInv' BY <2>1 DEF SessionsInv
  <2> QED BY <1>8, <1>9, <1>11, <1>13, <2>2
<1>15. CASE todo # <<>>
  <2>1. PICK s : s = NewSession OBVIOUS
  <2>2. PICK all \in BOOLEAN : all = (force \/ checkout = <<>>) OBVIOUS
  <2>3. sync' = [phase |-> "files", full |-> all, todo |-> todo, done |-> {}, session |-> s, toggled |-> <<>>]
    BY <1>15, <2>1, <2>2 DEF BeginSync
  <2>4. sync' # Idle
    <3>1. sync'.phase = "files" BY <2>3
    <3> QED BY <3>1 DEF Idle
  <2>5. sync'.session = s /\ sync'.done = {} /\ sync'.full = all /\ ToSet(sync.todo)' = T
    BY <1>4, <2>3 DEF ToSet
  <2>6. r # <<>>
    <3>1. DOMAIN r = Files BY <1>1 DEF CatalogInv, Repositories, Repository
    <3>2. Files # {} BY <1>15
    <3> QED BY <3>1, <3>2
  <2>7. Sound(s)
    <3>1. SessionInv(s, {}, <<>>) BY <2>1, NewSessionInv DEF CatalogInv
    <3> QED BY <3>1 DEF Sound
  <2>8. all => FullWalk(r, {}, T) BY <1>1, <1>4, <2>2 DEF Begins
  <2>9. full >= 1 => all BY <1>1, <1>7, <1>15, <2>2 DEF Begins
  <2>10. StoredSession(s, r, {}, T, missed)
    <3>1. OwnerInv(s, LinksOf(r, {}), AllLinks) BY <2>1, NewOwners
    <3>2. ASSUME NEW f \in Files, HasCatalog(r, f), f \notin T \cup missed PROVE StoredIn(s, r, f)
      <4>1. RowsStored(r, f) BY <1>12, <3>2
      <4>2. CompanyName(f, r[f]) # Nobody BY <1>5, <3>2, CatalogFacts, NamesAssumption
      <4>3. \A u \in Urls : Owner(s, u) = IF feeds[u] = NoFeed THEN Nobody ELSE feeds[u].company
        BY <2>1, NewOwners
      <4> QED BY <4>1, <4>2, <4>3 DEF StoredIn, RowsStored
    <3> QED BY <3>1, <3>2 DEF StoredSession
  <2>11. CleanSession(s, r, {}) BY DEF CleanSession
  <2>12. ASSUME OneFile(r), full >= 1 PROVE SettledSession(s, r, {})
    <3>1. RowsWithin(Settled(r)) BY <1>10, <2>6, <2>12 DEF RowsInv
    <3>2. OwnerInv(s, LinksOf(r, {}), Settled(r)) BY <2>1, <3>1, NewOwners
    <3> QED BY <3>2 DEF SettledSession
  <2>13. RunInv(s, r, {}, T, all, missed, full) BY <2>8, <2>9, <2>10, <2>11, <2>12 DEF RunInv
  <2>14. PICK none : none = {} OBVIOUS
  <2>15. RunInv(s, r, none, T, all, missed, full)' BY <1>5, <1>6, <2>7, <2>13, <2>14, SameRun
  <2>16. SessionsInv' BY <1>2, <1>3, <1>5, <2>5, <2>6, <2>14, <2>15 DEF SessionsInv
  <2> QED BY <1>8, <1>9, <1>11, <1>13, <2>16
<1> QED BY <1>14, <1>15

LEMMA SyncRepositoryStored ==
  ASSUME CatalogInv, StoredInv, NEW force \in BOOLEAN, SyncRepository(force)
  PROVE  StoredInv'
<1>1. UNCHANGED <<remote, feeds>> /\ sync = Idle BY DEF SyncRepository, dbVars
<1>2. CASE (force \/ checkout = <<>>) /\ \E walk \in Walks : BeginSync(force, walk)
  <2>1. PICK walk \in Walks : BeginSync(force, walk) BY <1>2
  <2>2. PICK S : S = {f \in CatalogFiles : remote[f] # Absent} OBVIOUS
  <2>3. S \in SUBSET Files /\ walk \in SetToSeqs(S) BY <2>2, FilesAssumption DEF Walks
  <2>4. walk \in Seq(Files) /\ ToSet(walk) = S BY <2>3, WalkType, WalkCovers
  <2>5. FullWalk(remote, {}, ToSet(walk)) BY <2>2, <2>4 DEF FullWalk, HasCatalog, Absent
  <2>6. Begins(force, walk) BY <1>2, <2>5 DEF Begins
  <2> QED BY <1>1, <2>1, <2>4, <2>6, BeginStored
<1>3. CASE ~ force /\ checkout # <<>> /\ \E changed \in ChangedFiles : BeginSync(force, changed)
  <2>1. PICK changed \in ChangedFiles : BeginSync(force, changed) BY <1>3
  <2>2. PICK renamed : changed \in SetToSeqs((Differing \ QuotedFiles) \ renamed) BY <2>1 DEF ChangedFiles
  <2>3. PICK S : S = (Differing \ QuotedFiles) \ renamed OBVIOUS
  <2>4. S \in SUBSET Files /\ (checkout = remote => S = {}) BY <2>3 DEF Differing
  <2>5. changed \in Seq(Files) /\ ToSet(changed) = S BY <2>2, <2>3, <2>4, WalkType, WalkCovers
  <2>6. checkout = remote => changed = <<>>
    <3>1. S = {} => changed = <<>> BY <2>5 DEF ToSet
    <3> QED BY <2>4, <3>1
  <2>7. Begins(force, changed) BY <1>3, <2>6 DEF Begins
  <2> QED BY <1>1, <2>1, <2>5, <2>7, BeginStored
<1> QED BY <1>2, <1>3 DEF SyncRepository

-------------------------------------------------------------------------------
(* Every step keeps the stored catalog.                                    *)

LEMMA StoredInit == Init => StoredInv
<1> SUFFICES ASSUME Init PROVE StoredInv OBVIOUS
<1>1. Sources BY DEF Init, Sources, Known, Empty
<1>2. SessionsInv BY DEF Init, SessionsInv
<1>3. RowsWithin(AllLinks) BY DEF Init, RowsWithin
<1> QED BY <1>1, <1>2, <1>3 DEF Init, StoredInv

\* The toggle of a feed keeps its company.
LEMMA FeedToggleWriteStored ==
  ASSUME CatalogInv, StoredInv, FeedToggleWrite
  PROVE  StoredInv'
<1>1. UNCHANGED <<remote, checkout, history>> BY DEF FeedToggleWrite
<1>2. remote' \in Known BY <1>1 DEF StoredInv, Sources
<1>3. CASE toggle.gone /\ UNCHANGED <<feeds, sync>>
  <2>1. SameCompanies /\ SameSync BY <1>3 DEF SameCompanies, SameSync
  <2> QED BY <1>1, <1>2, <2>1, SameStored
<1>4. CASE ~ toggle.gone /\ feeds' = [feeds EXCEPT ![toggle.url].enabled = toggle.enabled]
           /\ sync' = (IF sync = Idle THEN sync
                      ELSE [sync EXCEPT !.toggled = Put(@, toggle.url, toggle.enabled)])
  <2>1. SameCompanies
    <3>1. PICK v : v = toggle.url OBVIOUS
    <3>2. PICK x : x = feeds[v] OBVIOUS
    <3>3. v \in Urls /\ x # NoFeed /\ x \in Row
      BY <1>4, <3>1, <3>2 DEF FeedToggleWrite, CatalogInv, ToggleInv, Tables
    <3>4. PICK y : y = [x EXCEPT !.enabled = toggle.enabled] OBVIOUS
    <3>5. DOMAIN y = {"company", "enabled", "fetchprotection", "tags"} /\ y.company = x.company
      BY <3>3, <3>4 DEF Row
    <3>6. y # NoFeed
      <4>1. DOMAIN NoFeed = {"kind"} BY DEF NoFeed
      <4> QED BY <3>5, <4>1
    <3>7. feeds' = [u \in Urls |-> IF u = v THEN y ELSE feeds[u]]
      BY <1>4, <3>1, <3>2, <3>4 DEF CatalogInv, Tables
    <3> QED BY <3>2, <3>3, <3>5, <3>6, <3>7 DEF SameCompanies
  <2>2. SameSync
    <3>1. CASE sync = Idle BY <1>4, <3>1 DEF SameSync
    <3>2. CASE sync # Idle
      <4>1. sync \in SyncRequest BY <3>2, SyncSound
      <4>2. PICK K : K = Put(sync.toggled, toggle.url, toggle.enabled) OBVIOUS
      <4>3. sync' = [sync EXCEPT !.toggled = K] BY <1>4, <3>2, <4>2
      <4>4. /\ sync'.phase = "files" /\ sync'.session = sync.session /\ sync'.done = sync.done
            /\ sync'.todo = sync.todo /\ sync'.full = sync.full
        BY <4>1, <4>3 DEF SyncRequest
      <4>5. sync' # Idle BY <4>4 DEF Idle
      <4> QED BY <3>2, <4>4, <4>5 DEF SameSync
    <3> QED BY <3>1, <3>2
  <2> QED BY <1>1, <1>2, <2>1, <2>2, SameStored
<1> QED BY <1>3, <1>4 DEF FeedToggleWrite

\* The other steps that leave the feeds, the clone and the sync alone.
LEMMA ReadOnlyStored ==
  ASSUME CatalogInv, StoredInv, remote' \in Known, UNCHANGED <<checkout, feeds, sync, history>>
  PROVE  StoredInv'
<1>1. SameCompanies /\ SameSync BY DEF SameCompanies, SameSync
<1> QED BY <1>1, SameStored

LEMMA StoredStep == CatalogInv /\ StoredInv /\ [Next]_vars => StoredInv'
<1> SUFFICES ASSUME CatalogInv, StoredInv, [Next]_vars PROVE StoredInv' OBVIOUS
<1>1. remote \in Known BY DEF StoredInv, Sources
<1>2. CASE \E revision \in Revisions \ {remote} : Push(revision)
  <2>1. remote' \in Known /\ UNCHANGED <<checkout, feeds, sync, history>> BY <1>2 DEF Push, Known
  <2> QED BY <2>1, ReadOnlyStored
<1>3. CASE \E force \in BOOLEAN : SyncRepository(force) BY <1>3, SyncRepositoryStored
<1>4. CASE SyncFile BY <1>4, SyncFileStored
<1>5. CASE SyncCommit BY <1>5, SyncCommitStored
<1>6. CASE SyncRollback BY <1>6, SyncRollbackStored
<1>7. CASE FeedToggleWrite BY <1>7, FeedToggleWriteStored
<1>8. CASE \/ \E u \in ToggledUrls, enabled \in BOOLEAN : FeedToggleRead(u, enabled)
           \/ \E n \in ToggledNames, enabled \in BOOLEAN : CompanyToggleRead(n, enabled)
           \/ CompanyToggleWrite
           \/ ToggleRollback
           \/ UNCHANGED vars
  <2>1. UNCHANGED <<remote, checkout, feeds, sync, history>>
    BY <1>8 DEF FeedToggleRead, CompanyToggleRead, CompanyToggleWrite, ToggleRollback, dbVars, vars
  <2> QED BY <1>1, <2>1, ReadOnlyStored
<1> QED BY <1>2, <1>3, <1>4, <1>5, <1>6, <1>7, <1>8 DEF Next

-------------------------------------------------------------------------------
(* The theorems.                                                           *)

\* The rows satisfy the constraints of the schema: whatever the order of the
\* files, whatever is flushed when and whatever the toggles do meanwhile, a
\* committed feed has a company and tags that exist (rss_sync_service.py), and
\* the row a toggle is about to update is there unless it was found gone.
THEOREM CatalogTypeCorrect == Spec => []TypeOK
<1>1. CatalogInv => TypeOK
  <2> SUFFICES ASSUME CatalogInv PROVE TypeOK OBVIOUS
  <2> USE DEF CatalogInv
  <2>1. \A n \in Names : companies[n] # NoCompany =>
          companies[n] \in [enabled : BOOLEAN, fetchprotection : 0..2]
    BY DEF Tables, CompanyRow
  <2>2. ASSUME NEW u \in Urls, feeds[u] # NoFeed
        PROVE  feeds[u] \in FeedRows /\ feeds[u].company \in Names /\ companies[feeds[u].company] # NoCompany
    <3>1. feeds[u] \in Row BY <2>2 DEF Tables
    <3>2. feeds[u].tags \subseteq tags /\ feeds[u].company \in Names /\ companies[feeds[u].company] # NoCompany
      BY <2>2 DEF RowsHold
    <3> QED BY <3>1, <3>2 DEF Row, FeedRows
  <2>3. checkout = <<>> \/ DOMAIN checkout = Files BY DEF Repositories, Repository
  <2>4. sync = Idle \/ sync.phase = "files" BY DEF SyncInv, SyncRequest
  <2>5. toggle # Idle => toggle.url \in Urls /\ (toggle.gone \/ feeds[toggle.url] # NoFeed)
    BY DEF ToggleInv
  <2>6. companyToggle = Idle \/ companies[companyToggle.name] # NoCompany BY DEF CompanyToggleInv
  <2> QED BY <2>1, <2>2, <2>3, <2>4, <2>5, <2>6 DEF TypeOK
<1> QED BY <1>1, CatalogInit, CatalogStep, PTL DEF Spec

\* A sync and the toggles are serialisable on the enabled flag: a feed of the
\* files the sync handled has, when it commits, a flag that an entry of them
\* gives or the one the last toggle answered while the sync was running, and never
\* a value loaded before that toggle, however the loads, the flushes and the
\* toggles interleave (rss_sync_service.py, rss_toggle_service.py).
THEOREM FlagsSerialisable == Spec => SyncOrToggleSetsFlag
<1>1. CatalogInv /\ [Next]_vars =>
        [ SyncCommit =>
            \A u \in Urls :
              CatalogFlags(u) # {} /\ feeds'[u] # NoFeed =>
                \/ feeds'[u].enabled \in CatalogFlags(u)
                \/ u \in DOMAIN sync.toggled /\ feeds'[u].enabled = sync.toggled[u] ]_vars
  <2>1. \A u : CatalogFlags(u) = Flags(DoneEntries, u) BY DEF CatalogFlags, Flags, DoneEntries
  <2> QED BY <2>1, SyncCommitRows DEF Answered
<1> QED BY <1>1, CatalogInit, CatalogStep, PTL DEF Spec, SyncOrToggleSetsFlag

\* Incremental syncs compose: the feeds of a company are exactly those its file
\* in the clone lists, for any history of pushed revisions, whatever the files'
\* order, the flushes, the renames of companies and the toggles in between
\* (rss_sync_service.py, list_changed_files), unless the last pull that changed the
\* file left it out of its list (a quoted path) or the sync that last had it was
\* rolled back, and no sync has handled it since; urls that move between files and
\* companies two files act for are excepted.
THEOREM CloneStored == Spec => []ClonedCatalogIsStored
<1>1. StoredInv => ClonedCatalogIsStored
  <2> SUFFICES ASSUME StoredInv, sync = Idle, checkout # <<>>,
                      NEW f \in Catalogs \ history.missed, NEW u \in Urls, Undisturbed(f, u)
               PROVE  u \in FeedsOf(CompanyName(f, checkout[f])) <=> u \in Listed(checkout[f])
    BY DEF ClonedCatalogIsStored
  <2>1. RowsStored(checkout, f) BY DEF StoredInv, Catalogs, Pending
  <2> QED BY <2>1 DEF RowsStored, FeedsOf
<1> QED BY <1>1, CatalogInit, CatalogStep, StoredInit, StoredStep, PTL DEF Spec

\* A feed lost when its url moved from one file to another comes back: after
\* two full syncs of one revision every listed url is stored, linked to a
\* company whose file lists it, if no two files of the revision have the same
\* company (rss_sync_service.py, delete_company_feeds_not_in_urls).
THEOREM FullSyncsRestore == Spec => []SecondFullSyncRestores
<1>1. StoredInv => SecondFullSyncRestores
  <2> SUFFICES ASSUME StoredInv, sync = Idle, history.full >= 2, OneFilePerCompany,
                      NEW f \in Catalogs, NEW u \in Listed(checkout[f])
               PROVE  /\ feeds[u] # NoFeed
                      /\ \E g \in Catalogs : /\ u \in Listed(checkout[g])
                                             /\ feeds[u].company = CompanyName(g, checkout[g])
    BY DEF SecondFullSyncRestores
  <2>1. OneFile(checkout) BY DEF OneFile, OneFilePerCompany, Catalogs
  <2>2. f \in Files /\ HasCatalog(checkout, f) BY DEF Catalogs
  <2>3. PICK r : r = checkout OBVIOUS
  <2>4. checkout # <<>> BY DEF StoredInv, Sources
  <2>5. r \in Known BY <2>3, <2>4 DEF StoredInv, Sources
  <2>6. RowsRestored(r) BY <2>1, <2>3, <2>4 DEF StoredInv, RowsInv
  <2>7. u \in Urls BY <2>2, <2>3, <2>5, CatalogFacts
  <2>8. feeds[u] # NoFeed /\ feeds[u].company \in LinksOf(r, Files)[u] BY <2>2, <2>3, <2>6 DEF RowsRestored
  <2> QED BY <2>3, <2>7, <2>8, LinksType DEF Catalogs
<1> QED BY <1>1, CatalogInit, CatalogStep, StoredInit, StoredStep, PTL DEF Spec
================================================================================
