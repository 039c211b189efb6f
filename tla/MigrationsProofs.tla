----------------------------- MODULE MigrationsProofs ----------------------------
(***************************************************************************)
(* The migrations of db_manager, for any urls, dates and bounds.  A command *)
(* is a chain of migrations: what is proved of one migration is carried    *)
(* along the chain by a relation between the database it started from and  *)
(* the databases a prefix of it can have reached.                          *)
(***************************************************************************)
EXTENDS Migrations, FiniteSetTheorems, WellFoundedInduction, TLAPS

-------------------------------------------------------------------------------
(* The largest of finitely many ids.                                       *)

\* A finite set of naturals has an upper bound.
LEMMA Bounded ==
  ASSUME NEW S \in SUBSET Nat, IsFiniteSet(S)
  PROVE  \E b \in Nat : \A x \in S : x <= b
<1> DEFINE Unbounded(X) == \A b \in Nat : \E x \in X : ~ (x <= b)
           T == {n \in Nat : \E X \in SUBSET Nat : IsFiniteSet(X) /\ Cardinality(X) = n /\ Unbounded(X)}
<1> SUFFICES ASSUME Unbounded(S) PROVE FALSE OBVIOUS
<1>1. T # {} /\ T \subseteq Nat BY FS_CardinalityType
<1>2. PICK n \in T : \A m \in T : ~ (<<m, n>> \in OpToRel(<, Nat))
  <2> HIDE DEF T
  <2> QED BY <1>1, NatLessThanWellFounded, WFMin
<1>3. \A m \in T : ~ (m < n) BY <1>1, <1>2 DEF OpToRel
<1>4. PICK X \in SUBSET Nat : IsFiniteSet(X) /\ Cardinality(X) = n /\ Unbounded(X) OBVIOUS
<1>5. PICK x \in X : TRUE BY <1>4
<1>6. IsFiniteSet(X \ {x}) /\ Cardinality(X \ {x}) = Cardinality(X) - 1 BY <1>4, <1>5, FS_RemoveElement
<1>7. Cardinality(X \ {x}) \in Nat BY <1>6, FS_CardinalityType
<1>8. Cardinality(X \ {x}) \notin T BY <1>1, <1>3, <1>4, <1>6, <1>7
<1>9. ~ Unbounded(X \ {x}) BY <1>6, <1>7, <1>8
<1>10. PICK b \in Nat : \A y \in X \ {x} : y <= b BY <1>9
<1>11. PICK c \in Nat : b <= c /\ x <= c BY <1>5
<1>12. \A y \in X : y <= c BY <1>10, <1>11
<1> QED BY <1>4, <1>12

\* Max of a finite non-empty set of naturals.
LEMMA MaxFacts ==
  ASSUME NEW S \in SUBSET Nat, IsFiniteSet(S), S # {}
  PROVE  Max(S) \in S /\ \A x \in S : x <= Max(S)
<1> DEFINE B == {b \in Nat : \A x \in S : x <= b}
<1>1. B # {} /\ B \subseteq Nat BY Bounded
<1>2. PICK m \in B : \A b \in B : ~ (<<b, m>> \in OpToRel(<, Nat))
  <2> HIDE DEF B
  <2> QED BY <1>1, NatLessThanWellFounded, WFMin
<1>3. \A b \in B : ~ (b < m) BY <1>1, <1>2 DEF OpToRel
<1>4. m \in S
  <2> SUFFICES ASSUME m \notin S PROVE FALSE OBVIOUS
  <2>1. \A x \in S : x < m OBVIOUS
  <2>2. m > 0
    <3>1. PICK x \in S : TRUE OBVIOUS
    <3> QED BY <2>1, <3>1
  <2>3. m - 1 \in B BY <2>1, <2>2
  <2> QED BY <1>3, <2>3
<1>5. \E x \in S : \A y \in S : x >= y BY <1>4
<1> QED BY <1>5 DEF Max

-------------------------------------------------------------------------------
(* The databases the migrations work on.                                   *)

Source == [id : Nat, url : Urls, published : Nat]
Link == [source : Nat, published : Nat]
Database ==
  [revision : Base..Latest, sources : SUBSET Source, links : SUBSET Link, sequence : Nat,
   protection : Nat, company : Nat, etag : BOOLEAN, jobs : BOOLEAN]

Largest(d) == IF d.revision = Latest THEN 2 ELSE 3

\* The constraints of its revision, and the types of its columns.
Good(d) ==
  /\ d \in Database
  /\ IsFiniteSet(d.sources)
  /\ UniqueUrls(d.sources)
  /\ UniqueIdDates(d.sources)
  /\ d.revision = 4 => UniqueIds(d.sources)
  /\ \A s \in d.sources : s.id <= d.sequence /\ (s.published = Null => d.revision = 4)
  /\ \A l \in d.links : \E s \in d.sources :
       s.id = l.source /\ (d.revision # 4 => s.published = l.published)
  /\ d.company <= Largest(d)
  /\ d.protection = NoRow \/ d.protection <= Largest(d)
  /\ d.jobs => d.revision = Latest

\* What a migration keeps.
Kept(d, e) ==
  /\ \A s \in d.sources : \E t \in e.sources : t.id = s.id /\ t.url = s.url
  /\ \A t \in e.sources : \E s \in d.sources : t.id = s.id /\ t.url = s.url
  /\ \A s \in d.sources : ~Undated(s) => s \in e.sources
  /\ \A l \in d.links : \E m \in e.links : l.source = m.source
  /\ \A m \in e.links : \E l \in d.links : l.source = m.source
  /\ d.protection # NoRow =>
       e.protection = IF e.revision = Latest THEN Clamped(d.protection) ELSE d.protection

\* Nothing in d will stop the way up, or down to Base.
Upgradable(d) ==
  /\ d.revision \in 1..3 => UniqueIds(d.sources)
  /\ d.revision = 4 => ~Twins(d.sources)
Downgradable(d) == ~ (d.revision >= 4 /\ (~UniqueIds(d.sources) \/ Undatable(d)))

LEMMA EmptyGood ==
  ASSUME NEW r \in Base..Latest
  PROVE  Good([Empty EXCEPT !.revision = r])
<1>1. IsFiniteSet({}) BY FS_EmptySet
<1>2. PICK e : e = [Empty EXCEPT !.revision = r] OBVIOUS
<1>3. /\ e \in Database /\ e.revision = r /\ e.sources = {} /\ e.links = {}
      /\ e.protection = 1 /\ e.company = 1 /\ e.jobs = FALSE
  BY <1>2 DEF Empty, Database, Base, Latest
<1>4. Good(e) BY <1>1, <1>3 DEF Good, UniqueUrls, UniqueIdDates, UniqueIds, Largest
<1> QED BY <1>2, <1>4

\* setval covers every id.
LEMMA LastIdFacts ==
  ASSUME NEW S \in SUBSET Source, IsFiniteSet(S)
  PROVE  LastId(S) \in Nat /\ \A s \in S : s.id <= LastId(S)
<1> DEFINE ids0 == {s.id : s \in S}
<1>1. IsFiniteSet(ids0)
  <2>1. [s \in S |-> s.id] \in Surjection(S, ids0) BY DEF Surjection
  <2> QED BY <2>1, FS_Surjection
<1>2. IsFiniteSet({0} \cup ids0) BY <1>1, FS_Singleton, FS_Union
<1>3. {0} \cup ids0 \in SUBSET Nat BY DEF Source
<1>4. /\ Max({0} \cup ids0) \in {0} \cup ids0
      /\ \A x \in {0} \cup ids0 : x <= Max({0} \cup ids0)
  BY <1>2, <1>3, MaxFacts
<1> QED BY <1>3, <1>4 DEF LastId

\* A rewritten table.
LEMMA RewrittenFacts ==
  ASSUME NEW d \in Database, NEW r \in Base..Latest, NEW S \in SUBSET Source, NEW L \in SUBSET Link,
         IsFiniteSet(S), NEW e, e = Rewritten(d, r, S, L)
  PROVE  /\ e \in Database /\ e.revision = r /\ e.sources = S /\ e.links = L
         /\ e.protection = d.protection /\ e.company = d.company /\ e.etag = d.etag /\ e.jobs = d.jobs
         /\ \A s \in S : s.id <= e.sequence
<1>1. LastId(S) \in Nat /\ \A s \in S : s.id <= LastId(S) BY LastIdFacts
<1> QED BY <1>1 DEF Rewritten, Database

-------------------------------------------------------------------------------
(* Dates.                                                                  *)

Dated(s, p) == [id |-> s.id, url |-> s.url, published |-> p]

LEMMA CoalesceFacts ==
  ASSUME NEW S \in SUBSET Source, IsFiniteSet(S), NEW v \in Nat
  PROVE  /\ CoalesceDates(S, v) \in SUBSET Source
         /\ IsFiniteSet(CoalesceDates(S, v))
         /\ \A s \in S : Dated(s, Coalesce(s.published, v)) \in CoalesceDates(S, v)
         /\ \A x \in CoalesceDates(S, v) : \E s \in S : x = Dated(s, Coalesce(s.published, v))
<1>1. \A s \in S : [s EXCEPT !.published = Coalesce(@, v)] = Dated(s, Coalesce(s.published, v))
  BY DEF Source, Dated
<1>2. CoalesceDates(S, v) = {Dated(s, Coalesce(s.published, v)) : s \in S}
  BY <1>1 DEF CoalesceDates
<1>3. \A s \in S : Dated(s, Coalesce(s.published, v)) \in Source BY DEF Source, Dated, Coalesce
<1>4. [s \in S |-> Dated(s, Coalesce(s.published, v))] \in Surjection(S, CoalesceDates(S, v))
  BY <1>2 DEF Surjection
<1>5. IsFiniteSet(CoalesceDates(S, v)) BY <1>4, FS_Surjection
<1> QED BY <1>2, <1>3, <1>5

LEMMA NullifyFacts ==
  ASSUME NEW S \in SUBSET Source, IsFiniteSet(S), NEW v \in Nat
  PROVE  /\ NullifyDates(S, v) \in SUBSET Source
         /\ IsFiniteSet(NullifyDates(S, v))
         /\ \A s \in S : Dated(s, NullIf(s.published, v)) \in NullifyDates(S, v)
         /\ \A x \in NullifyDates(S, v) : \E s \in S : x = Dated(s, NullIf(s.published, v))
<1>1. \A s \in S : [s EXCEPT !.published = NullIf(@, v)] = Dated(s, NullIf(s.published, v))
  BY DEF Source, Dated
<1>2. NullifyDates(S, v) = {Dated(s, NullIf(s.published, v)) : s \in S}
  BY <1>1 DEF NullifyDates
<1>3. \A s \in S : Dated(s, NullIf(s.published, v)) \in Source BY DEF Source, Dated, NullIf, Null
<1>4. [s \in S |-> Dated(s, NullIf(s.published, v))] \in Surjection(S, NullifyDates(S, v))
  BY <1>2 DEF Surjection
<1>5. IsFiniteSet(NullifyDates(S, v)) BY <1>4, FS_Surjection
<1> QED BY <1>2, <1>3, <1>5

-------------------------------------------------------------------------------
(* The migrations, one by one.                                             *)

\* What one migration up does: rows that will stop a later one stay what they are.
Up(d, e) ==
  /\ Good(e)
  /\ e.revision = d.revision + 1
  /\ Upgradable(e) <=> Upgradable(d)
  /\ d.revision # Base => Kept(d, e)

LEMMA Up1 ==
  ASSUME NEW d, Good(d), d.revision = 0
  PROVE  Up0001(d) # {} /\ \A e \in Up0001(d) : Up(d, e)
<1>1. PICK e : e = [Empty EXCEPT !.revision = 1] OBVIOUS
<1>2. Good(e) BY <1>1, EmptyGood DEF Base, Latest
<1>3. e.revision = 1 /\ e.sources = {} BY <1>1 DEF Empty
<1>4. Up(d, e) BY <1>2, <1>3 DEF Up, Upgradable, UniqueIds, Base
<1> QED BY <1>1, <1>4 DEF Up0001

LEMMA Up2 ==
  ASSUME NEW d, Good(d), d.revision = 1
  PROVE  Up0002(d) # {} /\ \A e \in Up0002(d) : Up(d, e)
<1>1. PICK e : e = [d EXCEPT !.revision = 2, !.etag = FALSE] OBVIOUS
<1>2. /\ e \in Database /\ e.revision = 2 /\ e.sources = d.sources /\ e.links = d.links
      /\ e.sequence = d.sequence /\ e.protection = d.protection /\ e.company = d.company /\ e.jobs = d.jobs
  <2>1. d \in Database BY DEF Good
  <2>2. 2 \in Base..Latest BY DEF Base, Latest
  <2>3. e \in Database BY <1>1, <2>1, <2>2 DEF Database
  <2> QED BY <1>1, <2>1, <2>3 DEF Database
<1>3. Good(e) BY <1>2 DEF Good, Largest, Latest
<1>4. Kept(d, e) BY <1>2 DEF Kept, Latest
<1>5. Up(d, e) BY <1>2, <1>3, <1>4 DEF Up, Upgradable
<1> QED BY <1>1, <1>5 DEF Up0002

LEMMA Up3 ==
  ASSUME NEW d, Good(d), d.revision = 2
  PROVE  Up0003(d) # {} /\ \A e \in Up0003(d) : Up(d, e)
<1>1. PICK e : e = [d EXCEPT !.revision = 3] OBVIOUS
<1>2. /\ e \in Database /\ e.revision = 3 /\ e.sources = d.sources /\ e.links = d.links
      /\ e.sequence = d.sequence /\ e.protection = d.protection /\ e.company = d.company /\ e.jobs = d.jobs
  <2>1. d \in Database BY DEF Good
  <2>2. 3 \in Base..Latest BY DEF Base, Latest
  <2>3. e \in Database BY <1>1, <2>1, <2>2 DEF Database
  <2> QED BY <1>1, <2>1, <2>3 DEF Database
<1>3. Good(e) BY <1>2 DEF Good, Largest, Latest
<1>4. Kept(d, e) BY <1>2 DEF Kept, Latest
<1>5. Up(d, e) BY <1>2, <1>3, <1>4 DEF Up, Upgradable
<1> QED BY <1>1, <1>5 DEF Up0003

\* Without a date the links keep their sources.
LEMMA UndatedLinksFacts ==
  ASSUME NEW L \in SUBSET Link
  PROVE  /\ UndatedLinks(L) \in SUBSET Link
         /\ \A l \in L : \E m \in UndatedLinks(L) : l.source = m.source
         /\ \A m \in UndatedLinks(L) : \E l \in L : l.source = m.source
<1>1. \A l \in L : [source |-> l.source, published |-> Null] \in UndatedLinks(L) BY DEF UndatedLinks
<1>2. \A m \in UndatedLinks(L) : \E l \in L : m = [source |-> l.source, published |-> Null]
  BY DEF UndatedLinks
<1>3. \A m \in UndatedLinks(L) : m \in Link BY <1>2 DEF Link, Null
<1>4. \A l \in L : \E m \in UndatedLinks(L) : l.source = m.source
  <2> SUFFICES ASSUME NEW l \in L PROVE \E m \in UndatedLinks(L) : l.source = m.source OBVIOUS
  <2>1. [source |-> l.source, published |-> Null] \in UndatedLinks(L) BY <1>1
  <2>2. [source |-> l.source, published |-> Null].source = l.source OBVIOUS
  <2> QED BY <2>1, <2>2
<1> QED BY <1>2, <1>3, <1>4

LEMMA DatedLinksFacts ==
  ASSUME NEW L \in SUBSET Link, NEW S \in SUBSET Source,
         \A l \in L : \E s \in S : s.id = l.source
  PROVE  /\ DatedLinks(L, S) \in SUBSET Link
         /\ \A l \in L : \E m \in DatedLinks(L, S) : l.source = m.source
         /\ \A m \in DatedLinks(L, S) :
              /\ \E l \in L : l.source = m.source
              /\ \E s \in S : s.id = m.source /\ s.published = m.published
<1>1. \A m \in DatedLinks(L, S) : \E s \in S :
        /\ m = [source |-> s.id, published |-> s.published]
        /\ \E l \in L : l.source = s.id
  BY DEF DatedLinks
<1>2. \A s \in S : (\E l \in L : l.source = s.id) =>
        [source |-> s.id, published |-> s.published] \in DatedLinks(L, S)
  BY DEF DatedLinks
<1>3. \A m \in DatedLinks(L, S) : m \in Link BY <1>1 DEF Source, Link
<1>4. \A l \in L : \E m \in DatedLinks(L, S) : l.source = m.source
  <2> SUFFICES ASSUME NEW l \in L PROVE \E m \in DatedLinks(L, S) : l.source = m.source OBVIOUS
  <2>1. PICK s \in S : s.id = l.source OBVIOUS
  <2>2. [source |-> s.id, published |-> s.published] \in DatedLinks(L, S) BY <1>2, <2>1
  <2> QED BY <2>1, <2>2
<1> QED BY <1>1, <1>3, <1>4

LEMMA Up4 ==
  ASSUME NEW d, Good(d), d.revision = 3
  PROVE  /\ Up0004(d) = {} => ~Upgradable(d)
         /\ \A e \in Up0004(d) : Up(d, e)
<1>1. PICK e : e = Rewritten(d, 4, d.sources, UndatedLinks(d.links)) OBVIOUS
<1>2. /\ d \in Database /\ d.sources \in SUBSET Source /\ d.links \in SUBSET Link
      /\ IsFiniteSet(d.sources)
  BY DEF Good, Database
<1>3. UndatedLinks(d.links) \in SUBSET Link BY <1>2, UndatedLinksFacts
<1>4. /\ e \in Database /\ e.revision = 4 /\ e.sources = d.sources /\ e.links = UndatedLinks(d.links)
      /\ e.protection = d.protection /\ e.company = d.company /\ e.jobs = d.jobs
      /\ \A s \in d.sources : s.id <= e.sequence
  <2>1. 4 \in Base..Latest BY DEF Base, Latest
  <2> QED BY <1>1, <1>2, <1>3, <2>1, RewrittenFacts
<1>5. \A m \in e.links : \E s \in e.sources : s.id = m.source
  BY <1>2, <1>4, UndatedLinksFacts DEF Good
<1>6. ~Twins(e.sources)
  <2>1. \A s \in d.sources : s.published # Null BY DEF Good
  <2>2. \A s \in d.sources : Undated(s) => s.published = Epoch BY <2>1 DEF Undated
  <2>3. UniqueUrls(d.sources) BY DEF Good
  <2> QED BY <1>4, <2>1, <2>2, <2>3 DEF Twins, UniqueUrls
<1>7. CASE UniqueIds(d.sources)
  <2>1. Good(e) BY <1>2, <1>4, <1>5, <1>7 DEF Good, Largest, Latest
  <2>2. Kept(d, e) BY <1>2, <1>4, UndatedLinksFacts DEF Kept, Latest
  <2>3. Up(d, e) BY <1>4, <1>6, <1>7, <2>1, <2>2 DEF Up, Upgradable
  <2>4. Up0004(d) = {e} BY <1>1, <1>7 DEF Up0004
  <2> QED BY <2>3, <2>4
<1>8. CASE ~UniqueIds(d.sources) BY <1>8 DEF Up0004, Upgradable
<1> QED BY <1>7, <1>8

\* Tables that may be those of revision r.
IsRows(S, L, r) ==
  /\ S \in SUBSET Source /\ L \in SUBSET Link /\ IsFiniteSet(S)
  /\ UniqueUrls(S) /\ UniqueIdDates(S)
  /\ r = 4 => UniqueIds(S)
  /\ \A s \in S : s.published = Null => r = 4
  /\ \A l \in L : \E s \in S : s.id = l.source /\ (r # 4 => s.published = l.published)

LEMMA RewrittenGood ==
  ASSUME NEW d, Good(d), d.revision \in 3..5, NEW r \in 3..5, NEW S, NEW L, IsRows(S, L, r),
         NEW e, e = Rewritten(d, r, S, L)
  PROVE  /\ Good(e)
         /\ e.revision = r /\ e.sources = S /\ e.links = L
         /\ e.protection = d.protection /\ e.company = d.company
<1>1. d \in Database BY DEF Good
<1>2. r \in Base..Latest BY DEF Base, Latest
<1>3. S \in SUBSET Source /\ L \in SUBSET Link /\ IsFiniteSet(S) BY DEF IsRows
<1>4. /\ e \in Database /\ e.revision = r /\ e.sources = S /\ e.links = L
      /\ e.protection = d.protection /\ e.company = d.company /\ e.jobs = d.jobs
      /\ \A s \in S : s.id <= e.sequence
  BY <1>1, <1>2, <1>3, RewrittenFacts
<1>5. ~d.jobs /\ Largest(e) = 3 /\ Largest(d) = 3
  BY <1>4 DEF Good, Largest, Latest
<1>6. /\ d.company <= 3
      /\ d.protection = NoRow \/ d.protection <= 3
  BY <1>5 DEF Good
<1> QED BY <1>4, <1>5, <1>6 DEF Good, IsRows

\* COALESCE in a table whose ids are unique: only two rows of one url that get
\* the same date are in the way.
LEMMA CoalesceKeeps ==
  ASSUME NEW S \in SUBSET Source, IsFiniteSet(S), UniqueIds(S), NEW v \in Nat, v # Null,
         NEW C, C = CoalesceDates(S, v)
  PROVE  /\ UniqueIds(C) /\ UniqueIdDates(C)
         /\ \A x \in C : x.published # Null
         /\ \A s \in S : \E x \in C : x.id = s.id /\ x.url = s.url
         /\ \A x \in C : \E s \in S : x.id = s.id /\ x.url = s.url
         /\ \A s \in S : s.published # Null => s \in C
         /\ UniqueUrls(C) <=>
              \A s, t \in S : s # t /\ s.url = t.url =>
                Coalesce(s.published, v) # Coalesce(t.published, v)
<1>1. /\ \A s \in S : Dated(s, Coalesce(s.published, v)) \in C
      /\ \A x \in C : \E s \in S : x = Dated(s, Coalesce(s.published, v))
  BY CoalesceFacts
<1>2. \A s, p : Dated(s, p).id = s.id /\ Dated(s, p).url = s.url /\ Dated(s, p).published = p
  BY DEF Dated
<1>3. \A s \in S : Coalesce(s.published, v) # Null BY DEF Coalesce
<1>4. UniqueIds(C)
  <2> SUFFICES ASSUME NEW x \in C, NEW y \in C, x.id = y.id PROVE x = y BY DEF UniqueIds
  <2>1. PICK s \in S : x = Dated(s, Coalesce(s.published, v)) BY <1>1
  <2>2. PICK t \in S : y = Dated(t, Coalesce(t.published, v)) BY <1>1
  <2>3. s = t BY <1>2, <2>1, <2>2 DEF UniqueIds
  <2> QED BY <2>1, <2>2, <2>3
<1>5. UniqueIdDates(C) BY <1>4 DEF UniqueIds, UniqueIdDates
<1>6. \A x \in C : x.published # Null BY <1>1, <1>2, <1>3
<1>7. \A s \in S : \E x \in C : x.id = s.id /\ x.url = s.url BY <1>1, <1>2
<1>8. \A x \in C : \E s \in S : x.id = s.id /\ x.url = s.url BY <1>1, <1>2
<1>9. \A s \in S : s.published # Null => s \in C
  <2> SUFFICES ASSUME NEW s \in S, s.published # Null PROVE s \in C OBVIOUS
  <2>1. Dated(s, Coalesce(s.published, v)) = s BY DEF Dated, Coalesce, Source
  <2> QED BY <1>1, <2>1
<1>10. ASSUME UniqueUrls(C), NEW s \in S, NEW t \in S, s # t, s.url = t.url
       PROVE  Coalesce(s.published, v) # Coalesce(t.published, v)
  <2>1. PICK x \in C : x = Dated(s, Coalesce(s.published, v)) BY <1>1
  <2>2. PICK y \in C : y = Dated(t, Coalesce(t.published, v)) BY <1>1
  <2>3. x.id # y.id /\ x.url = y.url BY <1>2, <1>10, <2>1, <2>2 DEF UniqueIds
  <2>4. x # y BY <2>3
  <2>5. x.published # Null BY <1>6
  <2>6. x.published # y.published BY <1>10, <2>3, <2>4, <2>5 DEF UniqueUrls
  <2> QED BY <1>2, <2>1, <2>2, <2>6
<1>11. ASSUME \A s, t \in S : s # t /\ s.url = t.url =>
                Coalesce(s.published, v) # Coalesce(t.published, v)
       PROVE  UniqueUrls(C)
  <2> SUFFICES ASSUME NEW x \in C, NEW y \in C, x # y, x.url = y.url
               PROVE  x.published # y.published
    BY DEF UniqueUrls
  <2>1. PICK s \in S : x = Dated(s, Coalesce(s.published, v)) BY <1>1
  <2>2. PICK t \in S : y = Dated(t, Coalesce(t.published, v)) BY <1>1
  <2>3. s # t /\ s.url = t.url BY <1>2, <2>1, <2>2
  <2> QED BY <1>2, <1>11, <2>1, <2>2, <2>3
<1>12. UniqueUrls(C) <=>
         \A s, t \in S : s # t /\ s.url = t.url =>
           Coalesce(s.published, v) # Coalesce(t.published, v)
  BY <1>10, <1>11
<1> QED BY <1>4, <1>5, <1>6, <1>7, <1>8, <1>9, <1>12

\* The links that a table of dated sources gets.
LEMMA DatedRows ==
  ASSUME NEW L \in SUBSET Link, NEW C \in SUBSET Source, IsFiniteSet(C), NEW r \in {3, 5},
         UniqueUrls(C), UniqueIds(C), UniqueIdDates(C), \A x \in C : x.published # Null,
         \A l \in L : \E s \in C : s.id = l.source
  PROVE  IsRows(C, DatedLinks(L, C), r)
<1>1. DatedLinks(L, C) \in SUBSET Link BY DatedLinksFacts
<1>2. \A m \in DatedLinks(L, C) : \E s \in C : s.id = m.source /\ s.published = m.published
  BY DatedLinksFacts
<1> QED BY <1>1, <1>2 DEF IsRows

LEMMA Up5 ==
  ASSUME NEW d, Good(d), d.revision = 4
  PROVE  /\ Up0005(d) = {} => ~Upgradable(d)
         /\ \A e \in Up0005(d) : Up(d, e)
<1>1. /\ d.sources \in SUBSET Source /\ d.links \in SUBSET Link
      /\ IsFiniteSet(d.sources) /\ UniqueIds(d.sources) /\ UniqueUrls(d.sources)
      /\ \A l \in d.links : \E s \in d.sources : s.id = l.source
  BY DEF Good, Database
<1>2. Epoch \in Nat /\ Epoch # Null BY DEF Epoch, Null
<1>3. PICK C : C = CoalesceDates(d.sources, Epoch) OBVIOUS
<1>4. C \in SUBSET Source /\ IsFiniteSet(C) BY <1>1, <1>2, <1>3, CoalesceFacts
<1>5. /\ UniqueIds(C) /\ UniqueIdDates(C)
      /\ \A x \in C : x.published # Null
      /\ \A s \in d.sources : \E x \in C : x.id = s.id /\ x.url = s.url
      /\ \A x \in C : \E s \in d.sources : x.id = s.id /\ x.url = s.url
      /\ \A s \in d.sources : s.published # Null => s \in C
  BY <1>1, <1>2, <1>3, CoalesceKeeps
<1>6. UniqueUrls(C) <=>
        \A s, t \in d.sources : s # t /\ s.url = t.url =>
          Coalesce(s.published, Epoch) # Coalesce(t.published, Epoch)
  BY <1>1, <1>2, <1>3, CoalesceKeeps
<1>7. \A s \in Source : Undated(s) <=> Coalesce(s.published, Epoch) = Epoch
  BY DEF Undated, Coalesce, Source, Null, Epoch
<1>8. ASSUME NEW s \in d.sources, NEW t \in d.sources, s # t, s.url = t.url
      PROVE  Coalesce(s.published, Epoch) = Coalesce(t.published, Epoch) <=> Undated(s) /\ Undated(t)
  <2>1. s.published = t.published => s.published = Null BY <1>1, <1>8 DEF UniqueUrls
  <2> QED BY <2>1, <1>1 DEF Undated, Coalesce, Source, Null, Epoch
<1>9. UniqueUrls(C) <=> ~Twins(d.sources) BY <1>6, <1>8 DEF Twins
<1>10. \A l \in d.links : \E x \in C : x.id = l.source BY <1>1, <1>5
<1>11. ASSUME UniqueUrls(C), NEW e, e = Rewritten(d, 5, C, DatedLinks(d.links, C))
       PROVE  Up(d, e)
  <2>1. IsRows(C, DatedLinks(d.links, C), 5) BY <1>1, <1>4, <1>5, <1>10, <1>11, DatedRows
  <2>2. /\ Good(e)
        /\ e.revision = 5 /\ e.sources = C /\ e.links = DatedLinks(d.links, C)
        /\ e.protection = d.protection
    BY <1>11, <2>1, RewrittenGood
  <2>3. /\ \A l \in d.links : \E m \in e.links : l.source = m.source
        /\ \A m \in e.links : \E l \in d.links : l.source = m.source
    BY <1>1, <1>4, <1>10, <2>2, DatedLinksFacts
  <2>4. \A s \in d.sources : ~Undated(s) => s \in e.sources BY <1>5, <2>2 DEF Undated
  <2>5. Kept(d, e) BY <1>5, <2>2, <2>3, <2>4 DEF Kept, Latest
  <2> QED BY <1>9, <1>11, <2>2, <2>5 DEF Up, Upgradable
<1>12. Up0005(d) = IF UniqueUrls(C) THEN {Rewritten(d, 5, C, DatedLinks(d.links, C))} ELSE {}
  BY <1>3 DEF Up0005
<1>13. CASE UniqueUrls(C) BY <1>11, <1>12, <1>13
<1>14. CASE ~UniqueUrls(C) BY <1>9, <1>12, <1>14 DEF Upgradable
<1> QED BY <1>13, <1>14

LEMMA Up6 ==
  ASSUME NEW d, Good(d), d.revision = 5
  PROVE  Up0006(d) # {} /\ \A e \in Up0006(d) : Up(d, e)
<1>1. PICK e : e = [d EXCEPT !.revision = 6, !.company = Clamped(@), !.protection = Clamped(@)]
  OBVIOUS
<1>2. /\ e \in Database /\ e.revision = 6 /\ e.sources = d.sources /\ e.links = d.links
      /\ e.sequence = d.sequence /\ e.jobs = d.jobs
      /\ e.protection = Clamped(d.protection) /\ e.company = Clamped(d.company)
  <2>1. d \in Database BY DEF Good
  <2>2. 6 \in Base..Latest BY DEF Base, Latest
  <2>3. \A p \in Nat : Clamped(p) \in Nat BY DEF Clamped, NoRow
  <2>4. e \in Database BY <1>1, <2>1, <2>2, <2>3 DEF Database
  <2> QED BY <1>1, <2>1, <2>4 DEF Database
<1>3. /\ e.company <= 2
      /\ e.protection = NoRow \/ e.protection <= 2
  <2>1. d.company \in Nat /\ d.protection \in Nat /\ d.company <= 3
    BY DEF Good, Database, Largest, Latest
  <2> QED BY <1>2, <2>1 DEF Clamped, NoRow
<1>4. Good(e) BY <1>2, <1>3 DEF Good, Largest, Latest
<1>5. Kept(d, e) BY <1>2 DEF Kept, Latest
<1>6. Up(d, e) BY <1>2, <1>4, <1>5 DEF Up, Upgradable
<1> QED BY <1>1, <1>6 DEF Up0006

\* One revision up: it fails exactly where the rows are not upgradable.
LEMMA UpStepFacts ==
  ASSUME NEW d, Good(d), d.revision # Latest
  PROVE  /\ UpStep(d) = {} => ~Upgradable(d)
         /\ \A e \in UpStep(d) : Up(d, e)
<1>1. d.revision \in {0, 1, 2, 3, 4, 5} BY DEF Good, Database, Base, Latest
<1>2. CASE d.revision = 0
  <2>1. UpStep(d) = Up0001(d) BY <1>2 DEF UpStep
  <2> QED BY <1>2, <2>1, Up1
<1>3. CASE d.revision = 1
  <2>1. UpStep(d) = Up0002(d) BY <1>3 DEF UpStep
  <2> QED BY <1>3, <2>1, Up2
<1>4. CASE d.revision = 2
  <2>1. UpStep(d) = Up0003(d) BY <1>4 DEF UpStep
  <2> QED BY <1>4, <2>1, Up3
<1>5. CASE d.revision = 3
  <2>1. UpStep(d) = Up0004(d) BY <1>5 DEF UpStep
  <2> QED BY <1>5, <2>1, Up4
<1>6. CASE d.revision = 4
  <2>1. UpStep(d) = Up0005(d) BY <1>6 DEF UpStep
  <2> QED BY <1>6, <2>1, Up5
<1>7. CASE d.revision = 5
  <2>1. UpStep(d) = Up0006(d) BY <1>7 DEF UpStep
  <2> QED BY <1>7, <2>1, Up6
<1> QED BY <1>1, <1>2, <1>3, <1>4, <1>5, <1>6, <1>7

-------------------------------------------------------------------------------
(* alembic upgrade head.                                                   *)

LEMMA KeptReflexive ==
  ASSUME NEW d, Good(d)
  PROVE  Kept(d, d)
<1>1. d.protection \in Nat BY DEF Good, Database
<1>2. d.revision = Latest /\ d.protection # NoRow => Clamped(d.protection) = d.protection
  BY <1>1 DEF Good, Largest, Clamped
<1> QED BY <1>2 DEF Kept

LEMMA KeptTransitive ==
  ASSUME NEW d, NEW e, NEW f, Kept(d, e), Kept(e, f), e.revision # Latest
  PROVE  Kept(d, f)
<1>1. \A s \in d.sources : \E t \in f.sources : t.id = s.id /\ t.url = s.url
  <2> SUFFICES ASSUME NEW s \in d.sources PROVE \E t \in f.sources : t.id = s.id /\ t.url = s.url OBVIOUS
  <2>1. PICK x \in e.sources : x.id = s.id /\ x.url = s.url BY DEF Kept
  <2> QED BY <2>1 DEF Kept
<1>2. \A t \in f.sources : \E s \in d.sources : t.id = s.id /\ t.url = s.url
  <2> SUFFICES ASSUME NEW t \in f.sources PROVE \E s \in d.sources : t.id = s.id /\ t.url = s.url OBVIOUS
  <2>1. PICK x \in e.sources : t.id = x.id /\ t.url = x.url BY DEF Kept
  <2>2. PICK s \in d.sources : x.id = s.id /\ x.url = s.url BY DEF Kept
  <2> QED BY <2>1, <2>2
<1>3. \A s \in d.sources : ~Undated(s) => s \in f.sources BY DEF Kept
<1>4. \A l \in d.links : \E m \in f.links : l.source = m.source
  <2> SUFFICES ASSUME NEW l \in d.links PROVE \E m \in f.links : l.source = m.source OBVIOUS
  <2>1. PICK x \in e.links : l.source = x.source BY DEF Kept
  <2> QED BY <2>1 DEF Kept
<1>5. \A m \in f.links : \E l \in d.links : l.source = m.source
  <2> SUFFICES ASSUME NEW m \in f.links PROVE \E l \in d.links : l.source = m.source OBVIOUS
  <2>1. PICK x \in e.links : x.source = m.source BY DEF Kept
  <2>2. PICK l \in d.links : l.source = x.source BY DEF Kept
  <2> QED BY <2>1, <2>2
<1>6. d.protection # NoRow =>
        f.protection = IF f.revision = Latest THEN Clamped(d.protection) ELSE d.protection
  BY DEF Kept
<1> QED BY <1>1, <1>2, <1>3, <1>4, <1>5, <1>6 DEF Kept

\* ds is what a command on d may have reached once revision r is behind it.
UpReached(d, ds, r) ==
  /\ ds = {} => ~Upgradable(d)
  /\ \A e \in ds :
       /\ Good(e) /\ e.revision >= r
       /\ Upgradable(e) <=> Upgradable(d)
       /\ d.revision # Base => e.revision # Base /\ Kept(d, e)

LEMMA ThroughFacts ==
  ASSUME NEW d, NEW ds, NEW r \in 0..5, UpReached(d, ds, r)
  PROVE  UpReached(d, Through(ds, r), r + 1)
<1>1. ASSUME NEW f \in Through(ds, r)
      PROVE  /\ Good(f) /\ f.revision >= r + 1
             /\ Upgradable(f) <=> Upgradable(d)
             /\ d.revision # Base => f.revision # Base /\ Kept(d, f)
  <2>1. PICK e \in ds : f \in (IF e.revision = r THEN UpStep(e) ELSE {e}) BY DEF Through
  <2>2. /\ Good(e) /\ e.revision >= r
        /\ Upgradable(e) <=> Upgradable(d)
        /\ d.revision # Base => e.revision # Base /\ Kept(d, e)
    BY <2>1 DEF UpReached
  <2>3. e.revision \in Nat BY <2>2 DEF Good, Database, Base
  <2>4. CASE e.revision # r
    <3>1. f = e BY <2>1, <2>4
    <3>2. f.revision >= r + 1 BY <2>2, <2>3, <2>4, <3>1
    <3> QED BY <2>2, <3>1, <3>2
  <2>5. CASE e.revision = r
    <3>1. e.revision # Latest BY <2>5 DEF Latest
    <3>2. f \in UpStep(e) BY <2>1, <2>5
    <3>3. Up(e, f) BY <2>2, <3>1, <3>2, UpStepFacts
    <3>4. /\ Good(f) /\ f.revision = r + 1
          /\ Upgradable(f) <=> Upgradable(e)
          /\ e.revision # Base => Kept(e, f)
      BY <2>5, <3>3 DEF Up
    <3>5. d.revision # Base => f.revision # Base /\ Kept(d, f)
      <4> SUFFICES ASSUME d.revision # Base PROVE f.revision # Base /\ Kept(d, f) OBVIOUS
      <4>1. Kept(d, e) /\ Kept(e, f) BY <2>2, <3>4
      <4>2. Kept(d, f) BY <3>1, <4>1, KeptTransitive
      <4> QED BY <3>4, <4>2 DEF Base
    <3>6. f.revision >= r + 1 BY <3>4
    <3> QED BY <2>2, <3>4, <3>5, <3>6
  <2> QED BY <2>4, <2>5
<1>2. ASSUME Through(ds, r) = {} PROVE ~Upgradable(d)
  <2>1. CASE ds = {} BY <2>1 DEF UpReached
  <2>2. CASE ds # {}
    <3>1. PICK e \in ds : TRUE BY <2>2
    <3>2. (IF e.revision = r THEN UpStep(e) ELSE {e}) = {} BY <1>2, <3>1 DEF Through
    <3>3. e.revision = r /\ UpStep(e) = {} BY <3>2
    <3>4. e.revision # Latest BY <3>3 DEF Latest
    <3>5. Good(e) /\ (Upgradable(e) <=> Upgradable(d)) BY DEF UpReached
    <3> QED BY <3>3, <3>4, <3>5, UpStepFacts
  <2> QED BY <2>1, <2>2
<1> QED BY <1>1, <1>2 DEF UpReached

\* A whole upgrade.
LEMMA UpgradedFacts ==
  ASSUME NEW d, Good(d)
  PROVE  /\ Upgraded(d) = {} <=> ~Upgradable(d)
         /\ \A e \in Upgraded(d) :
              /\ Good(e) /\ e.revision = Latest
              /\ d.revision # Base => Kept(d, e)
<1>0. UpReached(d, {d}, 0)
  <2>1. d.revision >= 0 BY DEF Good, Database, Base
  <2> QED BY <2>1, KeptReflexive DEF UpReached
<1>1. PICK s1 : s1 = Through({d}, 0) OBVIOUS
<1>2. PICK s2 : s2 = Through(s1, 1) OBVIOUS
<1>3. PICK s3 : s3 = Through(s2, 2) OBVIOUS
<1>4. PICK s4 : s4 = Through(s3, 3) OBVIOUS
<1>5. PICK s5 : s5 = Through(s4, 4) OBVIOUS
<1>6. PICK s6 : s6 = Through(s5, 5) OBVIOUS
<1>7. UpReached(d, s1, 0 + 1) BY <1>0, <1>1, ThroughFacts
<1>8. UpReached(d, s2, 1 + 1) BY <1>7, <1>2, ThroughFacts
<1>9. UpReached(d, s3, 2 + 1) BY <1>8, <1>3, ThroughFacts
<1>10. UpReached(d, s4, 3 + 1) BY <1>9, <1>4, ThroughFacts
<1>11. UpReached(d, s5, 4 + 1) BY <1>10, <1>5, ThroughFacts
<1>12. UpReached(d, s6, 5 + 1) BY <1>11, <1>6, ThroughFacts
<1>13. Upgraded(d) = s6 BY <1>1, <1>2, <1>3, <1>4, <1>5, <1>6 DEF Upgraded
<1>14. ASSUME NEW e \in s6
       PROVE  /\ Good(e) /\ e.revision = Latest
              /\ d.revision # Base => Kept(d, e)
              /\ Upgradable(d)
  <2>1. /\ Good(e) /\ e.revision >= 6
        /\ Upgradable(e) <=> Upgradable(d)
        /\ d.revision # Base => Kept(d, e)
    BY <1>12 DEF UpReached
  <2>2. e.revision = Latest BY <2>1 DEF Good, Database, Base, Latest
  <2>3. Upgradable(e) BY <2>2 DEF Upgradable, Latest
  <2> QED BY <2>1, <2>2, <2>3
<1>15. s6 = {} => ~Upgradable(d) BY <1>12 DEF UpReached
<1> QED BY <1>13, <1>14, <1>15

-------------------------------------------------------------------------------
(* alembic downgrade.  The time of a downgrade is a later date than the    *)
(* epoch.                                                                  *)

Later == clock \in Nat /\ clock > Epoch

\* What one migration down does.
Down(d, e) ==
  /\ Good(e)
  /\ e.revision = d.revision - 1
  /\ Downgradable(e) <=> Downgradable(d)
  /\ e.revision # Base => Kept(d, e)

LEMMA Down6 ==
  ASSUME NEW d, Good(d), d.revision = 6
  PROVE  Down0006(d) # {} /\ \A e \in Down0006(d) : Down(d, e)
<1>1. PICK e : e = [d EXCEPT !.revision = 5, !.jobs = FALSE] OBVIOUS
<1>2. /\ e \in Database /\ e.revision = 5 /\ e.sources = d.sources /\ e.links = d.links
      /\ e.sequence = d.sequence /\ e.protection = d.protection /\ e.company = d.company
      /\ e.jobs = FALSE
  <2>1. d \in Database BY DEF Good
  <2>2. 5 \in Base..Latest BY DEF Base, Latest
  <2>3. e \in Database BY <1>1, <2>1, <2>2 DEF Database
  <2> QED BY <1>1, <2>1, <2>3 DEF Database
<1>3. /\ e.company <= 3
      /\ e.protection = NoRow \/ e.protection <= 3
  <2>1. d.company \in Nat /\ d.protection \in Nat BY DEF Good, Database
  <2>2. /\ d.company <= 2
        /\ d.protection = NoRow \/ d.protection <= 2
    BY DEF Good, Largest, Latest
  <2> QED BY <1>2, <2>1, <2>2
<1>4. Good(e) BY <1>2, <1>3 DEF Good, Largest, Latest
<1>5. Kept(d, e) BY <1>2 DEF Kept, Latest
<1>6. Downgradable(e) <=> Downgradable(d) BY <1>2 DEF Downgradable, Undatable
<1>7. Down(d, e) BY <1>2, <1>4, <1>5, <1>6 DEF Down
<1> QED BY <1>1, <1>7 DEF Down0006

\* NULLIF in a table whose ids are unique.
LEMMA NullifyKeeps ==
  ASSUME NEW S \in SUBSET Source, IsFiniteSet(S), UniqueIds(S), UniqueUrls(S),
         \A s \in S : s.published # Null, NEW N, N = NullifyDates(S, Epoch)
  PROVE  /\ UniqueIds(N) /\ UniqueIdDates(N) /\ UniqueUrls(N)
         /\ \A s \in S : \E x \in N : x.id = s.id /\ x.url = s.url
         /\ \A x \in N : \E s \in S : x.id = s.id /\ x.url = s.url
         /\ \A s \in S : ~Undated(s) => s \in N
<1>1. /\ \A s \in S : Dated(s, NullIf(s.published, Epoch)) \in N
      /\ \A x \in N : \E s \in S : x = Dated(s, NullIf(s.published, Epoch))
  BY NullifyFacts DEF Epoch
<1>2. \A s, p : Dated(s, p).id = s.id /\ Dated(s, p).url = s.url /\ Dated(s, p).published = p
  BY DEF Dated
<1>3. UniqueIds(N)
  <2> SUFFICES ASSUME NEW x \in N, NEW y \in N, x.id = y.id PROVE x = y BY DEF UniqueIds
  <2>1. PICK s \in S : x = Dated(s, NullIf(s.published, Epoch)) BY <1>1
  <2>2. PICK t \in S : y = Dated(t, NullIf(t.published, Epoch)) BY <1>1
  <2>3. s = t BY <1>2, <2>1, <2>2 DEF UniqueIds
  <2> QED BY <2>1, <2>2, <2>3
<1>4. UniqueIdDates(N) BY <1>3 DEF UniqueIds, UniqueIdDates
<1>5. UniqueUrls(N)
  <2> SUFFICES ASSUME NEW x \in N, NEW y \in N, x # y, x.url = y.url, x.published = y.published
               PROVE  x.published = Null
    BY DEF UniqueUrls
  <2>1. PICK s \in S : x = Dated(s, NullIf(s.published, Epoch)) BY <1>1
  <2>2. PICK t \in S : y = Dated(t, NullIf(t.published, Epoch)) BY <1>1
  <2>3. s # t /\ s.url = t.url BY <1>2, <2>1, <2>2
  <2>4. s.published # t.published BY <2>3 DEF UniqueUrls
  <2>5. NullIf(s.published, Epoch) = NullIf(t.published, Epoch) BY <1>2, <2>1, <2>2
  <2>6. NullIf(s.published, Epoch) = Null BY <2>4, <2>5 DEF NullIf
  <2> QED BY <1>2, <2>1, <2>6
<1>6. \A s \in S : \E x \in N : x.id = s.id /\ x.url = s.url BY <1>1, <1>2
<1>7. \A x \in N : \E s \in S : x.id = s.id /\ x.url = s.url BY <1>1, <1>2
<1>8. \A s \in S : ~Undated(s) => s \in N
  <2> SUFFICES ASSUME NEW s \in S, ~Undated(s) PROVE s \in N OBVIOUS
  <2>1. Dated(s, NullIf(s.published, Epoch)) = s BY DEF Dated, NullIf, Source, Undated
  <2> QED BY <1>1, <2>1
<1> QED BY <1>3, <1>4, <1>5, <1>6, <1>7, <1>8

\* The rows of one date get one date.
LEMMA NullifyUndatable ==
  ASSUME Later, NEW S \in SUBSET Source, IsFiniteSet(S), UniqueIds(S),
         \A s \in S : s.published # Null, NEW N, N = NullifyDates(S, Epoch)
  PROVE  (\E s, t \in S : s # t /\ s.url = t.url /\ s.published = Epoch /\ t.published \in {Epoch, clock})
           <=> \E x, y \in N : x # y /\ x.url = y.url /\ x.published = Null /\ y.published \in {Null, clock}
<1>1. /\ \A s \in S : Dated(s, NullIf(s.published, Epoch)) \in N
      /\ \A x \in N : \E s \in S : x = Dated(s, NullIf(s.published, Epoch))
  BY NullifyFacts DEF Epoch
<1>2. \A s, p : Dated(s, p).id = s.id /\ Dated(s, p).url = s.url /\ Dated(s, p).published = p
  BY DEF Dated
<1>3. \A s \in S : /\ NullIf(s.published, Epoch) = Null <=> s.published = Epoch
                   /\ NullIf(s.published, Epoch) = clock <=> s.published = clock
  BY DEF NullIf, Later, Epoch, Null
<1>4. ASSUME NEW s \in S, NEW t \in S, s # t, s.url = t.url, s.published = Epoch,
             t.published \in {Epoch, clock}
      PROVE  \E x, y \in N : x # y /\ x.url = y.url /\ x.published = Null /\ y.published \in {Null, clock}
  <2>1. PICK x \in N : x = Dated(s, NullIf(s.published, Epoch)) BY <1>1
  <2>2. PICK y \in N : y = Dated(t, NullIf(t.published, Epoch)) BY <1>1
  <2>3. x.id # y.id /\ x.url = y.url BY <1>2, <1>4, <2>1, <2>2 DEF UniqueIds
  <2>4. x # y BY <2>3
  <2>5. x.published = Null /\ y.published \in {Null, clock} BY <1>2, <1>3, <1>4, <2>1, <2>2
  <2> QED BY <2>3, <2>4, <2>5
<1>5. ASSUME NEW x \in N, NEW y \in N, x # y, x.url = y.url, x.published = Null,
             y.published \in {Null, clock}
      PROVE  \E s, t \in S : s # t /\ s.url = t.url /\ s.published = Epoch /\ t.published \in {Epoch, clock}
  <2>1. PICK s \in S : x = Dated(s, NullIf(s.published, Epoch)) BY <1>1
  <2>2. PICK t \in S : y = Dated(t, NullIf(t.published, Epoch)) BY <1>1
  <2>3. s # t /\ s.url = t.url BY <1>2, <1>5, <2>1, <2>2
  <2>4. s.published = Epoch /\ t.published \in {Epoch, clock} BY <1>2, <1>3, <1>5, <2>1, <2>2
  <2> QED BY <2>3, <2>4
<1> QED BY <1>4, <1>5

LEMMA Down5 ==
  ASSUME Later, NEW d, Good(d), d.revision = 5
  PROVE  /\ Down0005(d) = {} => ~Downgradable(d)
         /\ \A e \in Down0005(d) : Down(d, e)
<1>1. /\ d.sources \in SUBSET Source /\ d.links \in SUBSET Link
      /\ IsFiniteSet(d.sources) /\ UniqueUrls(d.sources)
      /\ \A s \in d.sources : s.published # Null
      /\ \A l \in d.links : \E s \in d.sources : s.id = l.source
  BY DEF Good, Database
<1>2. CASE ~UniqueIds(d.sources) BY <1>2 DEF Down0005, Downgradable
<1>3. CASE UniqueIds(d.sources)
  <2>1. PICK N : N = NullifyDates(d.sources, Epoch) OBVIOUS
  <2>2. PICK e : e = Rewritten(d, 4, N, UndatedLinks(d.links)) OBVIOUS
  <2>3. N \in SUBSET Source /\ IsFiniteSet(N) BY <1>1, <2>1, NullifyFacts DEF Epoch
  <2>4. /\ UniqueIds(N) /\ UniqueIdDates(N) /\ UniqueUrls(N)
        /\ \A s \in d.sources : \E x \in N : x.id = s.id /\ x.url = s.url
        /\ \A x \in N : \E s \in d.sources : x.id = s.id /\ x.url = s.url
        /\ \A s \in d.sources : ~Undated(s) => s \in N
    BY <1>1, <1>3, <2>1, NullifyKeeps
  <2>5. /\ UndatedLinks(d.links) \in SUBSET Link
        /\ \A l \in d.links : \E m \in UndatedLinks(d.links) : l.source = m.source
        /\ \A m \in UndatedLinks(d.links) : \E l \in d.links : l.source = m.source
    BY <1>1, UndatedLinksFacts
  <2>6. \A m \in UndatedLinks(d.links) : \E x \in N : x.id = m.source
    <3> SUFFICES ASSUME NEW m \in UndatedLinks(d.links) PROVE \E x \in N : x.id = m.source OBVIOUS
    <3>1. PICK l \in d.links : l.source = m.source BY <2>5
    <3>2. PICK s \in d.sources : s.id = l.source BY <1>1
    <3> QED BY <2>4, <3>1, <3>2
  <2>7. IsRows(N, UndatedLinks(d.links), 4) BY <2>3, <2>4, <2>5, <2>6 DEF IsRows
  <2>8. /\ Good(e)
        /\ e.revision = 4 /\ e.sources = N /\ e.links = UndatedLinks(d.links)
        /\ e.protection = d.protection
    BY <2>2, <2>7, RewrittenGood
  <2>9. Kept(d, e) BY <2>4, <2>5, <2>8 DEF Kept, Latest
  <2>10. Undatable(e) <=> Undatable(d)
    <3>1. Undatable(d) <=>
            \E s, t \in d.sources :
              s # t /\ s.url = t.url /\ s.published = Epoch /\ t.published \in {Epoch, clock}
      BY DEF Undatable
    <3>2. Undatable(e) <=>
            \E x, y \in N : x # y /\ x.url = y.url /\ x.published = Null /\ y.published \in {Null, clock}
      BY <2>8 DEF Undatable
    <3>3. (\E s, t \in d.sources :
             s # t /\ s.url = t.url /\ s.published = Epoch /\ t.published \in {Epoch, clock})
            <=> \E x, y \in N : x # y /\ x.url = y.url /\ x.published = Null /\ y.published \in {Null, clock}
      BY <1>1, <1>3, <2>1, NullifyUndatable
    <3> QED BY <3>1, <3>2, <3>3
  <2>11. Downgradable(e) <=> Downgradable(d)
    BY <1>3, <2>4, <2>8, <2>10 DEF Downgradable
  <2>12. Down(d, e) BY <2>8, <2>9, <2>11 DEF Down
  <2>13. Down0005(d) = {e} BY <1>3, <2>1, <2>2 DEF Down0005
  <2> QED BY <2>12, <2>13
<1> QED BY <1>2, <1>3

LEMMA Down4 ==
  ASSUME Later, NEW d, Good(d), d.revision = 4
  PROVE  /\ Down0004(d) = {} => ~Downgradable(d)
         /\ \A e \in Down0004(d) : Down(d, e)
<1>1. /\ d.sources \in SUBSET Source /\ d.links \in SUBSET Link
      /\ IsFiniteSet(d.sources) /\ UniqueIds(d.sources) /\ UniqueUrls(d.sources)
      /\ \A l \in d.links : \E s \in d.sources : s.id = l.source
  BY DEF Good, Database
<1>2. PICK now : now = clock OBVIOUS
<1>3. now \in Nat /\ now # Null BY <1>2 DEF Later, Epoch, Null
<1>4. PICK C : C = CoalesceDates(d.sources, now) OBVIOUS
<1>5. C \in SUBSET Source /\ IsFiniteSet(C) BY <1>1, <1>3, <1>4, CoalesceFacts
<1>6. /\ UniqueIds(C) /\ UniqueIdDates(C)
      /\ \A x \in C : x.published # Null
      /\ \A s \in d.sources : \E x \in C : x.id = s.id /\ x.url = s.url
      /\ \A x \in C : \E s \in d.sources : x.id = s.id /\ x.url = s.url
      /\ \A s \in d.sources : s.published # Null => s \in C
  BY <1>1, <1>3, <1>4, CoalesceKeeps
<1>7. UniqueUrls(C) <=>
        \A s, t \in d.sources : s # t /\ s.url = t.url =>
          Coalesce(s.published, now) # Coalesce(t.published, now)
  BY <1>1, <1>3, <1>4, CoalesceKeeps
<1>8. ASSUME NEW s \in d.sources, NEW t \in d.sources, s # t, s.url = t.url
      PROVE  Coalesce(s.published, now) = Coalesce(t.published, now) <=>
               \/ s.published = Null /\ t.published \in {Null, now}
               \/ t.published = Null /\ s.published \in {Null, now}
  <2>1. s.published = t.published => s.published = Null BY <1>1, <1>8 DEF UniqueUrls
  <2> QED BY <2>1, <1>3 DEF Coalesce
<1>9. Undatable(d) <=>
        \E s, t \in d.sources :
          s # t /\ s.url = t.url /\ s.published = Null /\ t.published \in {Null, now}
  BY <1>2 DEF Undatable
<1>10. UniqueUrls(C) <=> Downgradable(d)
  <2>1. UniqueUrls(C) => ~Undatable(d) BY <1>7, <1>8, <1>9
  <2>2. ~Undatable(d) => UniqueUrls(C) BY <1>7, <1>8, <1>9
  <2> QED BY <1>1, <2>1, <2>2 DEF Downgradable
<1>11. \A l \in d.links : \E x \in C : x.id = l.source BY <1>1, <1>6
<1>12. ASSUME UniqueUrls(C), NEW e, e = Rewritten(d, 3, C, DatedLinks(d.links, C))
       PROVE  Down(d, e)
  <2>1. IsRows(C, DatedLinks(d.links, C), 3) BY <1>1, <1>5, <1>6, <1>11, <1>12, DatedRows
  <2>2. /\ Good(e)
        /\ e.revision = 3 /\ e.sources = C /\ e.links = DatedLinks(d.links, C)
        /\ e.protection = d.protection
    BY <1>12, <2>1, RewrittenGood
  <2>3. /\ \A l \in d.links : \E m \in e.links : l.source = m.source
        /\ \A m \in e.links : \E l \in d.links : l.source = m.source
    BY <1>1, <1>5, <1>11, <2>2, DatedLinksFacts
  <2>4. \A s \in d.sources : ~Undated(s) => s \in e.sources BY <1>6, <2>2 DEF Undated
  <2>5. Kept(d, e) BY <1>6, <2>2, <2>3, <2>4 DEF Kept, Latest
  <2>6. Downgradable(e) BY <2>2 DEF Downgradable
  <2> QED BY <1>10, <1>12, <2>2, <2>5, <2>6 DEF Down
<1>13. Down0004(d) = IF UniqueUrls(C) THEN {Rewritten(d, 3, C, DatedLinks(d.links, C))} ELSE {}
  BY <1>2, <1>4 DEF Down0004
<1>14. CASE UniqueUrls(C) BY <1>12, <1>13, <1>14
<1>15. CASE ~UniqueUrls(C) BY <1>10, <1>13, <1>15
<1> QED BY <1>14, <1>15

LEMMA Down3 ==
  ASSUME NEW d, Good(d), d.revision = 3
  PROVE  Down0003(d) # {} /\ \A e \in Down0003(d) : Down(d, e)
<1>1. PICK p : p = IF d.protection = NoRow THEN 1 ELSE d.protection OBVIOUS
<1>2. PICK v : v = IF d.protection = NoRow THEN FALSE ELSE d.etag OBVIOUS
<1>3. PICK e : e = [d EXCEPT !.revision = 2, !.protection = p, !.etag = v] OBVIOUS
<1>4. /\ e \in Database /\ e.revision = 2 /\ e.sources = d.sources /\ e.links = d.links
      /\ e.sequence = d.sequence /\ e.protection = p /\ e.company = d.company /\ e.jobs = d.jobs
  <2>1. d \in Database BY DEF Good
  <2>2. 2 \in Base..Latest BY DEF Base, Latest
  <2>3. p \in Nat BY <1>1, <2>1 DEF Database
  <2>4. v \in BOOLEAN BY <1>2, <2>1 DEF Database
  <2>5. e \in Database BY <1>3, <2>1, <2>2, <2>3, <2>4 DEF Database
  <2> QED BY <1>3, <2>1, <2>5 DEF Database
<1>5. Good(e) BY <1>1, <1>4 DEF Good, Largest, Latest
<1>6. Kept(d, e) BY <1>1, <1>4 DEF Kept, Latest
<1>7. Down(d, e) BY <1>4, <1>5, <1>6 DEF Down, Downgradable
<1>8. Down0003(d) = {e}
  <2>1. d \in Database BY DEF Good
  <2> QED BY <1>1, <1>2, <1>3, <2>1 DEF Down0003, Database
<1> QED BY <1>7, <1>8

LEMMA Down2 ==
  ASSUME NEW d, Good(d), d.revision = 2
  PROVE  Down0002(d) # {} /\ \A e \in Down0002(d) : Down(d, e)
<1>1. PICK e : e = [d EXCEPT !.revision = 1, !.etag = FALSE] OBVIOUS
<1>2. /\ e \in Database /\ e.revision = 1 /\ e.sources = d.sources /\ e.links = d.links
      /\ e.sequence = d.sequence /\ e.protection = d.protection /\ e.company = d.company /\ e.jobs = d.jobs
  <2>1. d \in Database BY DEF Good
  <2>2. 1 \in Base..Latest BY DEF Base, Latest
  <2>3. e \in Database BY <1>1, <2>1, <2>2 DEF Database
  <2> QED BY <1>1, <2>1, <2>3 DEF Database
<1>3. Good(e) BY <1>2 DEF Good, Largest, Latest
<1>4. Kept(d, e) BY <1>2 DEF Kept, Latest
<1>5. Down(d, e) BY <1>2, <1>3, <1>4 DEF Down, Downgradable
<1> QED BY <1>1, <1>5 DEF Down0002

LEMMA Down1 ==
  ASSUME NEW d, Good(d), d.revision = 1
  PROVE  Down0001(d) # {} /\ \A e \in Down0001(d) : Down(d, e)
<1>1. Empty = [Empty EXCEPT !.revision = Base]
  <2>1. \A e : e = Empty => e = [e EXCEPT !.revision = e.revision] BY DEF Empty
  <2> QED BY <2>1, Zenon DEF Empty
<1>2. Good(Empty) BY <1>1, EmptyGood DEF Base, Latest
<1>3. Empty.revision = 0 BY DEF Empty, Base
<1>4. Down(d, Empty) BY <1>2, <1>3 DEF Down, Downgradable, Base
<1> QED BY <1>4 DEF Down0001

\* One revision down.
LEMMA DownStepFacts ==
  ASSUME Later, NEW d, Good(d), d.revision # Base
  PROVE  /\ DownStep(d) = {} => ~Downgradable(d)
         /\ \A e \in DownStep(d) : Down(d, e)
<1>1. d.revision \in {1, 2, 3, 4, 5, 6} BY DEF Good, Database, Base, Latest
<1>2. CASE d.revision = 6
  <2>1. DownStep(d) = Down0006(d) BY <1>2 DEF DownStep
  <2> QED BY <1>2, <2>1, Down6
<1>3. CASE d.revision = 5
  <2>1. DownStep(d) = Down0005(d) BY <1>3 DEF DownStep
  <2> QED BY <1>3, <2>1, Down5
<1>4. CASE d.revision = 4
  <2>1. DownStep(d) = Down0004(d) BY <1>4 DEF DownStep
  <2> QED BY <1>4, <2>1, Down4
<1>5. CASE d.revision = 3
  <2>1. DownStep(d) = Down0003(d) BY <1>5 DEF DownStep
  <2> QED BY <1>5, <2>1, Down3
<1>6. CASE d.revision = 2
  <2>1. DownStep(d) = Down0002(d) BY <1>6 DEF DownStep
  <2> QED BY <1>6, <2>1, Down2
<1>7. CASE d.revision = 1
  <2>1. DownStep(d) = Down0001(d) BY <1>7 DEF DownStep
  <2> QED BY <1>7, <2>1, Down1
<1> QED BY <1>1, <1>2, <1>3, <1>4, <1>5, <1>6, <1>7

\* ds is what a downgrade of d to Base may have reached above revision r.
DownReached(d, ds, r) ==
  /\ ds = {} => ~Downgradable(d)
  /\ \A e \in ds : Good(e) /\ e.revision < r /\ (Downgradable(e) <=> Downgradable(d))

LEMMA BackFacts ==
  ASSUME Later, NEW d, NEW ds, NEW r \in 1..6, DownReached(d, ds, r + 1)
  PROVE  DownReached(d, Back(ds, r, Base), r)
<1>0. r > Base BY DEF Base
<1>1. ASSUME NEW f \in Back(ds, r, Base)
      PROVE  Good(f) /\ f.revision < r /\ (Downgradable(f) <=> Downgradable(d))
  <2>1. PICK e \in ds : f \in (IF e.revision = r THEN DownStep(e) ELSE {e}) BY <1>0 DEF Back
  <2>2. Good(e) /\ e.revision < r + 1 /\ (Downgradable(e) <=> Downgradable(d))
    BY <2>1 DEF DownReached
  <2>3. e.revision \in Nat BY <2>2 DEF Good, Database, Base
  <2>4. CASE e.revision # r
    <3>1. f = e BY <2>1, <2>4
    <3>2. f.revision < r BY <2>2, <2>3, <2>4, <3>1
    <3> QED BY <2>2, <3>1, <3>2
  <2>5. CASE e.revision = r
    <3>1. e.revision # Base BY <2>5 DEF Base
    <3>2. f \in DownStep(e) BY <2>1, <2>5
    <3>3. Down(e, f) BY <2>2, <3>1, <3>2, DownStepFacts
    <3>4. Good(f) /\ f.revision = r - 1 /\ (Downgradable(f) <=> Downgradable(e))
      BY <2>5, <3>3 DEF Down
    <3>5. f.revision < r BY <3>4
    <3> QED BY <2>2, <3>4, <3>5
  <2> QED BY <2>4, <2>5
<1>2. ASSUME Back(ds, r, Base) = {} PROVE ~Downgradable(d)
  <2>1. CASE ds = {} BY <2>1 DEF DownReached
  <2>2. CASE ds # {}
    <3>1. PICK e \in ds : TRUE BY <2>2
    <3>2. (IF e.revision = r THEN DownStep(e) ELSE {e}) = {} BY <1>0, <1>2, <3>1 DEF Back
    <3>3. e.revision = r /\ DownStep(e) = {} BY <3>2
    <3>4. e.revision # Base BY <3>3 DEF Base
    <3>5. Good(e) /\ (Downgradable(e) <=> Downgradable(d)) BY DEF DownReached
    <3> QED BY <3>3, <3>4, <3>5, DownStepFacts
  <2> QED BY <2>1, <2>2
<1> QED BY <1>1, <1>2 DEF DownReached

\* A downgrade to Base.
LEMMA DowngradedFacts ==
  ASSUME Later, NEW d, Good(d)
  PROVE  /\ Downgraded(d, Base) = {} <=> ~Downgradable(d)
         /\ \A e \in Downgraded(d, Base) : Good(e) /\ e.revision = Base
<1>0. DownReached(d, {d}, 6 + 1)
  <2>1. d.revision < 7 BY DEF Good, Database, Base, Latest
  <2> QED BY <2>1 DEF DownReached
<1>1. PICK s1 : s1 = Back({d}, 6, Base) OBVIOUS
<1>2. PICK s2 : s2 = Back(s1, 5, Base) OBVIOUS
<1>3. PICK s3 : s3 = Back(s2, 4, Base) OBVIOUS
<1>4. PICK s4 : s4 = Back(s3, 3, Base) OBVIOUS
<1>5. PICK s5 : s5 = Back(s4, 2, Base) OBVIOUS
<1>6. PICK s6 : s6 = Back(s5, 1, Base) OBVIOUS
<1>7. DownReached(d, s1, 5 + 1) BY <1>0, <1>1, BackFacts
<1>8. DownReached(d, s2, 4 + 1) BY <1>7, <1>2, BackFacts
<1>9. DownReached(d, s3, 3 + 1) BY <1>8, <1>3, BackFacts
<1>10. DownReached(d, s4, 2 + 1) BY <1>9, <1>4, BackFacts
<1>11. DownReached(d, s5, 1 + 1) BY <1>10, <1>5, BackFacts
<1>12. DownReached(d, s6, 1) BY <1>11, <1>6, BackFacts
<1>13. Downgraded(d, Base) = s6 BY <1>1, <1>2, <1>3, <1>4, <1>5, <1>6 DEF Downgraded
<1>14. ASSUME NEW e \in s6 PROVE Good(e) /\ e.revision = Base /\ Downgradable(d)
  <2>1. Good(e) /\ e.revision < 1 /\ (Downgradable(e) <=> Downgradable(d))
    BY <1>12 DEF DownReached
  <2>2. e.revision = Base BY <2>1 DEF Good, Database, Base
  <2>3. Downgradable(e) BY <2>2 DEF Downgradable, Base
  <2> QED BY <2>1, <2>2, <2>3
<1>15. s6 = {} => ~Downgradable(d) BY <1>12 DEF DownReached
<1> QED BY <1>13, <1>14, <1>15

-------------------------------------------------------------------------------
(* Back to revision 4 and forward again.                                   *)

LEMMA NullifyCoalesce ==
  ASSUME NEW S \in SUBSET Source, IsFiniteSet(S), \A s \in S : s.published # Null
  PROVE  CoalesceDates(NullifyDates(S, Epoch), Epoch) = S
<1>1. PICK N : N = NullifyDates(S, Epoch) OBVIOUS
<1>2. PICK C : C = CoalesceDates(N, Epoch) OBVIOUS
<1>3. /\ N \in SUBSET Source /\ IsFiniteSet(N)
      /\ \A s \in S : Dated(s, NullIf(s.published, Epoch)) \in N
      /\ \A x \in N : \E s \in S : x = Dated(s, NullIf(s.published, Epoch))
  BY <1>1, NullifyFacts DEF Epoch
<1>4. /\ \A x \in N : Dated(x, Coalesce(x.published, Epoch)) \in C
      /\ \A y \in C : \E x \in N : y = Dated(x, Coalesce(x.published, Epoch))
  BY <1>2, <1>3, CoalesceFacts DEF Epoch
<1>5. \A s \in S : \A x : x = Dated(s, NullIf(s.published, Epoch)) =>
        Dated(x, Coalesce(x.published, Epoch)) = s
  <2> SUFFICES ASSUME NEW s \in S, NEW x, x = Dated(s, NullIf(s.published, Epoch))
               PROVE  Dated(x, Coalesce(x.published, Epoch)) = s
    OBVIOUS
  <2>1. x.id = s.id /\ x.url = s.url /\ x.published = NullIf(s.published, Epoch) BY DEF Dated
  <2>2. Coalesce(x.published, Epoch) = s.published BY <2>1 DEF Coalesce, NullIf
  <2> QED BY <2>1, <2>2 DEF Dated, Source
<1>6. \A s \in S : s \in C BY <1>3, <1>4, <1>5
<1>7. \A y \in C : y \in S BY <1>3, <1>4, <1>5
<1> QED BY <1>1, <1>2, <1>6, <1>7

LEMMA LinksDatedAgain ==
  ASSUME NEW S \in SUBSET Source, UniqueIds(S), NEW L \in SUBSET Link,
         \A l \in L : \E s \in S : s.id = l.source /\ s.published = l.published
  PROVE  DatedLinks(UndatedLinks(L), S) = L
<1>1. PICK U : U = UndatedLinks(L) OBVIOUS
<1>2. /\ \A l \in L : \E m \in U : l.source = m.source
      /\ \A m \in U : \E l \in L : l.source = m.source
  BY <1>1, UndatedLinksFacts
<1>3. ASSUME NEW m \in DatedLinks(U, S) PROVE m \in L
  <2>1. PICK s \in S : /\ m = [source |-> s.id, published |-> s.published]
                       /\ \E u \in U : u.source = s.id
    BY DEF DatedLinks
  <2>2. PICK l \in L : l.source = s.id BY <1>2, <2>1
  <2>3. s.published = l.published BY <2>2 DEF UniqueIds
  <2>4. m = l BY <2>1, <2>2, <2>3 DEF Link
  <2> QED BY <2>4
<1>4. ASSUME NEW l \in L PROVE l \in DatedLinks(U, S)
  <2>1. PICK s \in S : s.id = l.source /\ s.published = l.published OBVIOUS
  <2>2. \E u \in U : u.source = s.id BY <1>2, <2>1
  <2>3. l = [source |-> s.id, published |-> s.published] BY <2>1 DEF Link
  <2> QED BY <2>2, <2>3 DEF DatedLinks
<1> QED BY <1>1, <1>3, <1>4

LEMMA RewrittenTables ==
  ASSUME NEW d \in Database, NEW r, NEW S, NEW L
  PROVE  /\ Rewritten(d, r, S, L).revision = r
         /\ Rewritten(d, r, S, L).sources = S /\ Rewritten(d, r, S, L).links = L
BY DEF Rewritten, Database

LEMMA BackToFour ==
  ASSUME Later, NEW d, Good(d), d.revision >= 5, NEW e \in Downgraded(d, 4)
  PROVE  /\ UniqueIds(d.sources) /\ Good(e) /\ e.revision = 4
         /\ e.sources = NullifyDates(d.sources, Epoch) /\ e.links = UndatedLinks(d.links)
<1>1. \A ds : Back(ds, 4, 4) = ds /\ Back(ds, 3, 4) = ds /\ Back(ds, 2, 4) = ds /\ Back(ds, 1, 4) = ds
  BY DEF Back
<1>2. PICK s1 : s1 = Back({d}, 6, 4) OBVIOUS
<1>3. e \in Back(s1, 5, 4) BY <1>1, <1>2 DEF Downgraded
<1>4. PICK x \in s1 : e \in (IF x.revision = 5 THEN DownStep(x) ELSE {x}) BY <1>3 DEF Back
<1>5. x \in (IF d.revision = 6 THEN DownStep(d) ELSE {d}) BY <1>2, <1>4 DEF Back
<1>6. d.revision \in {5, 6} /\ d \in Database BY DEF Good, Database, Base, Latest
<1>7. /\ Good(x) /\ x.revision = 5
      /\ x.sources = d.sources /\ x.links = d.links
  <2>1. CASE d.revision = 5 BY <1>5, <1>6, <2>1
  <2>2. CASE d.revision = 6
    <3>1. x \in Down0006(d) BY <1>5, <2>2 DEF DownStep
    <3>2. Down(d, x) BY <2>2, <3>1, Down6
    <3>3. x = [d EXCEPT !.revision = 5, !.jobs = FALSE] BY <3>1 DEF Down0006
    <3>4. Good(x) BY <3>2 DEF Down
    <3> QED BY <1>6, <3>3, <3>4 DEF Database
  <2> QED BY <1>6, <2>1, <2>2
<1>8. e \in Down0005(x) BY <1>4, <1>7 DEF DownStep
<1>9. /\ UniqueIds(x.sources)
      /\ e = Rewritten(x, 4, NullifyDates(x.sources, Epoch), UndatedLinks(x.links))
  BY <1>8 DEF Down0005
<1>10. Good(e) BY <1>7, <1>8, Down5 DEF Down
<1>11. x \in Database BY <1>7 DEF Good
<1> QED BY <1>7, <1>9, <1>10, <1>11, RewrittenTables

LEMMA ForwardFromFour ==
  ASSUME NEW e \in Database, e.revision = 4, NEW f \in Upgraded(e)
  PROVE  /\ f.sources = CoalesceDates(e.sources, Epoch)
         /\ f.links = DatedLinks(e.links, f.sources)
<1>1. /\ Through({e}, 0) = {e} /\ Through({e}, 1) = {e}
      /\ Through({e}, 2) = {e} /\ Through({e}, 3) = {e}
  BY DEF Through
<1>2. PICK s5 : s5 = Through({e}, 4) OBVIOUS
<1>3. f \in Through(s5, 5) BY <1>1, <1>2 DEF Upgraded
<1>4. PICK x \in s5 : f \in (IF x.revision = 5 THEN UpStep(x) ELSE {x}) BY <1>3 DEF Through
<1>5. x \in UpStep(e) BY <1>2, <1>4 DEF Through
<1>6. x \in Up0005(e) BY <1>5 DEF UpStep
<1>7. PICK C : C = CoalesceDates(e.sources, Epoch) OBVIOUS
<1>8. x = Rewritten(e, 5, C, DatedLinks(e.links, C)) BY <1>6, <1>7 DEF Up0005
<1>9. x.revision = 5 /\ x.sources = C /\ x.links = DatedLinks(e.links, C) BY <1>8, RewrittenTables
<1>10. f \in Up0006(x) BY <1>4, <1>9 DEF UpStep
<1>11. f = [x EXCEPT !.revision = 6, !.company = Clamped(@), !.protection = Clamped(@)]
  BY <1>10 DEF Up0006
<1>12. f.sources = x.sources /\ f.links = x.links
  BY <1>8, <1>11 DEF Rewritten, Database
<1> QED BY <1>7, <1>9, <1>12

LEMMA Undone ==
  ASSUME Later, NEW d, Good(d), d.revision >= 5, NEW e \in Downgraded(d, 4), NEW f \in Upgraded(e)
  PROVE  f.sources = d.sources /\ f.links = d.links
<1>1. /\ d.sources \in SUBSET Source /\ IsFiniteSet(d.sources) /\ d.links \in SUBSET Link
      /\ \A s \in d.sources : s.published # Null
      /\ \A l \in d.links : \E s \in d.sources : s.id = l.source /\ s.published = l.published
  BY DEF Good, Database
<1>2. /\ UniqueIds(d.sources) /\ e \in Database /\ e.revision = 4
      /\ e.sources = NullifyDates(d.sources, Epoch) /\ e.links = UndatedLinks(d.links)
  BY BackToFour DEF Good
<1>3. f.sources = CoalesceDates(e.sources, Epoch) /\ f.links = DatedLinks(e.links, f.sources)
  BY <1>2, ForwardFromFour
<1>4. f.sources = d.sources BY <1>1, <1>2, <1>3, NullifyCoalesce
<1>5. f.links = d.links BY <1>1, <1>2, <1>3, <1>4, LinksDatedAgain
<1> QED BY <1>4, <1>5

-------------------------------------------------------------------------------
(* What the services store.                                                *)

\* n is o with a row and its link.
AddsRow(o, n, row, m) ==
  /\ row \in Source /\ m \in Link /\ n \in Database
  /\ row.id <= n.sequence /\ o.sequence <= n.sequence
  /\ row.published = Null => o.revision = 4
  /\ UniqueUrls(o.sources \cup {row}) /\ UniqueIdDates(o.sources \cup {row})
  /\ o.revision = 4 => UniqueIds(o.sources \cup {row})
  /\ m.source = row.id
  /\ o.revision # 4 => m.published = row.published
  /\ n.revision = o.revision /\ n.sources = o.sources \cup {row} /\ n.links = o.links \cup {m}
  /\ n.protection = o.protection /\ n.company = o.company /\ n.jobs = o.jobs

LEMMA RowGood ==
  ASSUME NEW o, Good(o), NEW row, NEW m, NEW n, AddsRow(o, n, row, m)
  PROVE  Good(n)
<1>1. IsFiniteSet(n.sources) BY FS_AddElement DEF Good, AddsRow
<1>2. \A s \in n.sources : s.id <= n.sequence /\ (s.published = Null => n.revision = 4)
  BY DEF Good, Database, Source, AddsRow
<1>3. \A l \in n.links : \E s \in n.sources :
        s.id = l.source /\ (n.revision # 4 => s.published = l.published)
  BY DEF Good, AddsRow
<1>4. Largest(n) = Largest(o) BY DEF Largest, AddsRow
<1> QED BY <1>1, <1>2, <1>3, <1>4 DEF Good, AddsRow

\* The effects of the three actions, n after o.
StoresSource(o, n, url, p, row, m) ==
  /\ row = [id |-> o.sequence + 1, url |-> url, published |-> p]
  /\ m = [source |-> row.id, published |-> IF o.revision = 4 THEN Null ELSE p]
  /\ p = Null => o.revision = 4
  /\ UniqueUrls(o.sources \cup {row})
  /\ n = [o EXCEPT !.sources = @ \cup {row}, !.links = @ \cup {m}, !.sequence = @ + 1]
StoresShared(o, n, url, p, x, row, m) ==
  /\ row = [id |-> x.id, url |-> url, published |-> p]
  /\ m = [source |-> x.id, published |-> IF o.revision = 4 THEN Null ELSE p]
  /\ UniqueUrls(o.sources \cup {row}) /\ UniqueIdDates(o.sources \cup {row})
  /\ n = [o EXCEPT !.sources = @ \cup {row}, !.links = @ \cup {m}]
StoresFeed(o, n, p, c, v, w) ==
  /\ p = NoRow \/ p <= Largest(o)
  /\ c <= Largest(o)
  /\ w => o.revision = Latest
  /\ n = [o EXCEPT !.protection = p, !.company = c, !.etag = v, !.jobs = w]

LEMMA StoreSourceGood ==
  ASSUME NEW o, Good(o), NEW url \in Urls, NEW p \in Nat, NEW row, NEW m, NEW n,
         StoresSource(o, n, url, p, row, m)
  PROVE  Good(n) /\ n.revision = o.revision
<1> USE DEF StoresSource
<1>1. o \in Database /\ o.sequence \in Nat BY DEF Good, Database
<1>2. row \in Source /\ row.id = o.sequence + 1 /\ row.published = p BY <1>1 DEF Source
<1>3. m \in Link /\ m.source = row.id /\ (o.revision # 4 => m.published = p) BY <1>1 DEF Link, Null
<1>4. n \in Database
  <2>1. o.sequence + 1 \in Nat BY <1>1
  <2>2. o.sources \cup {row} \in SUBSET Source /\ o.links \cup {m} \in SUBSET Link
    BY <1>1, <1>2, <1>3 DEF Database
  <2> QED BY <1>1, <2>1, <2>2 DEF Database
<1>5. /\ n.revision = o.revision /\ n.sources = o.sources \cup {row}
      /\ n.links = o.links \cup {m} /\ n.sequence = o.sequence + 1
      /\ n.protection = o.protection /\ n.company = o.company /\ n.jobs = o.jobs
  BY <1>1 DEF Database
<1>6. \A s \in o.sources : s.id # row.id
  <2>1. \A s \in o.sources : s.id \in Nat /\ s.id <= o.sequence BY DEF Good, Database, Source
  <2> QED BY <1>1, <1>2, <2>1
<1>7. UniqueIdDates(o.sources \cup {row}) BY <1>6 DEF Good, UniqueIdDates
<1>8. o.revision = 4 => UniqueIds(o.sources \cup {row}) BY <1>6 DEF Good, UniqueIds
<1>9. row.id <= n.sequence /\ o.sequence <= n.sequence BY <1>1, <1>2, <1>5
<1>10. AddsRow(o, n, row, m) BY <1>2, <1>3, <1>4, <1>5, <1>7, <1>8, <1>9 DEF AddsRow
<1>11. Good(n) BY <1>10, RowGood
<1> QED BY <1>5, <1>11

LEMMA StoreSharedGood ==
  ASSUME NEW o, Good(o), o.revision # 4, NEW url \in Urls, NEW p \in Nat, p # Null,
         NEW x \in o.sources, NEW row, NEW m, NEW n, StoresShared(o, n, url, p, x, row, m)
  PROVE  Good(n) /\ n.revision = o.revision
<1> USE DEF StoresShared
<1>1. o \in Database /\ o.sequence \in Nat /\ x \in Source /\ x.id <= o.sequence
  BY DEF Good, Database
<1>2. x.id \in Nat BY <1>1 DEF Source
<1>3. row \in Source /\ row.id = x.id /\ row.published = p BY <1>2 DEF Source
<1>4. m \in Link /\ m.source = row.id /\ (o.revision # 4 => m.published = p)
  BY <1>2, <1>3 DEF Link, Null
<1>5. n \in Database BY <1>1, <1>3, <1>4 DEF Database
<1>6. /\ n.revision = o.revision /\ n.sources = o.sources \cup {row}
      /\ n.links = o.links \cup {m} /\ n.sequence = o.sequence
      /\ n.protection = o.protection /\ n.company = o.company /\ n.jobs = o.jobs
  BY <1>1 DEF Database
<1>7. row.id <= n.sequence /\ o.sequence <= n.sequence BY <1>1, <1>2, <1>3, <1>6
<1>8. AddsRow(o, n, row, m) BY <1>3, <1>4, <1>5, <1>6, <1>7 DEF AddsRow
<1>9. Good(n) BY <1>8, RowGood
<1> QED BY <1>6, <1>9

LEMMA StoreFeedGood ==
  ASSUME NEW o, Good(o), NEW p \in Nat, NEW c \in Nat, NEW v \in BOOLEAN, NEW w \in BOOLEAN,
         NEW n, StoresFeed(o, n, p, c, v, w)
  PROVE  Good(n) /\ n.revision = o.revision
<1> USE DEF StoresFeed
<1>1. o \in Database BY DEF Good
<1>2. n \in Database BY <1>1 DEF Database
<1>3. /\ n.revision = o.revision /\ n.sources = o.sources /\ n.links = o.links
      /\ n.sequence = o.sequence /\ n.protection = p /\ n.company = c /\ n.jobs = w
  BY <1>1 DEF Database
<1>4. Largest(n) = Largest(o) BY <1>3 DEF Largest
<1> QED BY <1>2, <1>3, <1>4 DEF Good

-------------------------------------------------------------------------------
(* The inductive invariant and the theorems.                               *)

\* TypeOK is not inductive: that revision 3 never holds two sources of one id
\* is what keeps 0004 from failing, that the rows are finitely many what gives
\* setval a value, and that time is past the epoch what keeps a downgrade from
\* mistaking its own dates for undated sources.
MigrationsInv ==
  /\ Good(db)
  /\ Later
  /\ attempt \in 1..MaxAttempts
  /\ ConsumesOnLatest

LEMMA MigrationsInitial == Init => MigrationsInv
<1> SUFFICES ASSUME Init PROVE MigrationsInv OBVIOUS
<1>1. PICK r \in Base..Latest : db = [Empty EXCEPT !.revision = r] BY DEF Init
<1>2. Good(db) BY <1>1, EmptyGood
<1>3. Later BY DEF Init, Later, Epoch
<1>4. attempt \in 1..MaxAttempts BY DEF Init, MaxAttempts
<1>5. ConsumesOnLatest BY DEF Init, ConsumesOnLatest
<1> QED BY <1>2, <1>3, <1>4, <1>5 DEF MigrationsInv

\* An upgrade of the database.
LEMMA UpgradeGood ==
  ASSUME Good(db), db' \in Upgraded(db)
  PROVE  Good(db') /\ db'.revision = Latest /\ (db.revision # Base => Kept(db, db'))
<1>1. PICK d : d = db OBVIOUS
<1>2. PICK e : e = db' OBVIOUS
<1>3. Good(d) /\ e \in Upgraded(d) BY <1>1, <1>2
<1>4. Good(e) /\ e.revision = Latest /\ (d.revision # Base => Kept(d, e)) BY <1>3, UpgradedFacts
<1> QED BY <1>1, <1>2, <1>4

\* Every step either stores rows, within one revision, or runs a command.
LEMMA MigrationsStep ==
  ASSUME MigrationsInv, [Next]_vars
  PROVE  MigrationsInv' /\ (Migrating => Kept(db, db'))
<1> USE DEF MigrationsInv
<1>1. clock \in Nat /\ clock > Epoch BY DEF Later
<1>2. CASE MigrationSucceeds
  <2>1. Good(db') /\ db'.revision = Latest /\ (db.revision # Base => Kept(db, db'))
    BY <1>2, UpgradeGood DEF MigrationSucceeds
  <2>2. attempt' = attempt /\ clock' = clock BY <1>2 DEF MigrationSucceeds
  <2>3. Later' BY <1>1, <2>2 DEF Later
  <2>4. ConsumesOnLatest' BY <2>1 DEF ConsumesOnLatest
  <2> QED BY <2>1, <2>2, <2>3, <2>4 DEF Migrating
<1>3. CASE MigrationFails
  <2>1. db' = db /\ clock' = clock BY <1>3 DEF MigrationFails
  <2>2. attempt' \in 1..MaxAttempts BY <1>3 DEF MigrationFails, MaxAttempts
  <2>3. service' # "consuming" BY <1>3 DEF MigrationFails
  <2>4. Later' BY <1>1, <2>1 DEF Later
  <2> QED BY <2>1, <2>2, <2>3, <2>4 DEF ConsumesOnLatest, Migrating
<1>4. CASE Restart \/ Start
  <2>1. db' = db /\ clock' = clock /\ attempt' = 1 /\ service' = "starting"
    BY <1>4 DEF Restart, Start
  <2>2. attempt' \in 1..MaxAttempts BY <2>1 DEF MaxAttempts
  <2>3. Later' BY <1>1, <2>1 DEF Later
  <2> QED BY <2>1, <2>2, <2>3 DEF ConsumesOnLatest, Migrating
<1>5. CASE DbMigrate
  <2>1. Good(db') /\ db'.revision = Latest /\ (db.revision # Base => Kept(db, db'))
    BY <1>5, UpgradeGood DEF DbMigrate
  <2>2. attempt' = attempt /\ clock' = clock BY <1>5 DEF DbMigrate
  <2>3. Later' BY <1>1, <2>2 DEF Later
  <2>4. ConsumesOnLatest' BY <2>1 DEF ConsumesOnLatest
  <2> QED BY <2>1, <2>2, <2>3, <2>4 DEF Migrating
<1>6. CASE DbReset
  <2>1. clock' = clock + 1 /\ attempt' = attempt /\ service' = "stopped" BY <1>6 DEF DbReset
  <2>2. Later' BY <1>1, <2>1 DEF Later, Epoch
  <2>3. Good(db') /\ (db'.revision = Base \/ db' = db)
    <3>1. PICK d : d = db OBVIOUS
    <3>2. PICK e : e = db' OBVIOUS
    <3>3. Good(d) BY <3>1
    <3>4. e = d \/ e \in Downgraded(d, Base) BY <1>6, <3>1, <3>2 DEF DbReset
    <3>5. Good(e) /\ (e.revision = Base \/ e = d) BY <3>3, <3>4, DowngradedFacts
    <3> QED BY <3>1, <3>2, <3>5
  <2> QED BY <2>1, <2>2, <2>3 DEF ConsumesOnLatest, Migrating
<1>7. CASE AlembicDowngrade
  <2>1. clock' = clock + 1 /\ attempt' = attempt /\ service' = service /\ service = "stopped"
    BY <1>7 DEF AlembicDowngrade
  <2>2. Later' BY <1>1, <2>1 DEF Later, Epoch
  <2>3. Good(db') /\ (db'.revision # Base => Kept(db, db'))
    <3>1. PICK d : d = db OBVIOUS
    <3>2. PICK e : e = db' OBVIOUS
    <3>3. Good(d) /\ d.revision # Base /\ e \in DownStep(d) BY <1>7, <3>1, <3>2 DEF AlembicDowngrade
    <3>4. Down(d, e) BY <3>3, DownStepFacts
    <3>5. Good(e) /\ (e.revision # Base => Kept(d, e)) BY <3>4 DEF Down
    <3> QED BY <3>1, <3>2, <3>5
  <2> QED BY <2>1, <2>2, <2>3 DEF ConsumesOnLatest, Migrating
<1>8. ASSUME NEW url \in Urls, NEW p \in Dates \cup {Null, Epoch}, StoreSource(url, p)
      PROVE  MigrationsInv' /\ (Migrating => Kept(db, db'))
  <2>1. clock' = clock /\ attempt' = attempt /\ service' = service BY <1>8 DEF StoreSource
  <2>2. Later' BY <1>1, <2>1 DEF Later
  <2>3. Good(db') /\ db'.revision = db.revision
    <3>1. PICK o : o = db OBVIOUS
    <3>2. PICK n : n = db' OBVIOUS
    <3>3. PICK row : row = [id |-> o.sequence + 1, url |-> url, published |-> p] OBVIOUS
    <3>4. PICK m : m = [source |-> row.id, published |-> IF o.revision = 4 THEN Null ELSE p] OBVIOUS
    <3>5. /\ p = Null => o.revision = 4
          /\ UniqueUrls(o.sources \cup {row})
          /\ n = [o EXCEPT !.sources = @ \cup {row}, !.links = @ \cup {m}, !.sequence = @ + 1]
      BY <1>8, <3>1, <3>2, <3>3, <3>4 DEF StoreSource, LinkOf
    <3>6. p \in Nat BY DatesAssumption DEF Null, Epoch
    <3>7. Good(o) BY <3>1
    <3>8. StoresSource(o, n, url, p, row, m) BY <3>3, <3>4, <3>5 DEF StoresSource
    <3>9. Good(n) /\ n.revision = o.revision BY <3>6, <3>7, <3>8, StoreSourceGood
    <3> QED BY <3>1, <3>2, <3>9
  <2> QED BY <2>1, <2>2, <2>3 DEF ConsumesOnLatest, Migrating
<1>9. ASSUME NEW url \in Urls, NEW p \in Dates \cup {Epoch}, StoreUnderSharedId(url, p)
      PROVE  MigrationsInv' /\ (Migrating => Kept(db, db'))
  <2>1. clock' = clock /\ attempt' = attempt /\ service' = service
    BY <1>9 DEF StoreUnderSharedId
  <2>2. Later' BY <1>1, <2>1 DEF Later
  <2>3. Good(db') /\ db'.revision = db.revision
    <3>1. PICK o : o = db OBVIOUS
    <3>2. PICK n : n = db' OBVIOUS
    <3>3. PICK x \in o.sources :
            LET row == [id |-> x.id, url |-> url, published |-> p]
            IN  /\ UniqueIdDates(o.sources \cup {row}) /\ UniqueUrls(o.sources \cup {row})
                /\ n = [o EXCEPT !.sources = @ \cup {row}, !.links = @ \cup {LinkOf(x.id, p)}]
      <4>1. PICK id \in ids :
              LET row == [id |-> id, url |-> url, published |-> p]
              IN  /\ UniqueIdDates(o.sources \cup {row}) /\ UniqueUrls(o.sources \cup {row})
                  /\ n = [o EXCEPT !.sources = @ \cup {row}, !.links = @ \cup {LinkOf(id, p)}]
        BY <1>9, <3>1, <3>2 DEF StoreUnderSharedId
      <4>2. PICK x \in o.sources : id = x.id BY <3>1 DEF ids
      <4> QED BY <4>1, <4>2
    <3>4. PICK row : row = [id |-> x.id, url |-> url, published |-> p] OBVIOUS
    <3>5. PICK m : m = [source |-> x.id, published |-> IF o.revision = 4 THEN Null ELSE p] OBVIOUS
    <3>6. /\ UniqueUrls(o.sources \cup {row}) /\ UniqueIdDates(o.sources \cup {row})
          /\ n = [o EXCEPT !.sources = @ \cup {row}, !.links = @ \cup {m}]
      BY <3>1, <3>3, <3>4, <3>5 DEF LinkOf
    <3>7. p \in Nat /\ p # Null BY DatesAssumption DEF Null, Epoch
    <3>8. Good(o) /\ o.revision # 4 BY <1>9, <3>1 DEF StoreUnderSharedId
    <3>9. StoresShared(o, n, url, p, x, row, m) BY <3>4, <3>5, <3>6 DEF StoresShared
    <3>10. Good(n) /\ n.revision = o.revision BY <3>7, <3>8, <3>9, StoreSharedGood
    <3> QED BY <3>1, <3>2, <3>10
  <2> QED BY <2>1, <2>2, <2>3 DEF ConsumesOnLatest, Migrating
<1>10. ASSUME NEW p \in {2, 3, NoRow}, NEW c \in {2, 3}, StoreFeed(p, c)
       PROVE  MigrationsInv' /\ (Migrating => Kept(db, db'))
  <2>1. clock' = clock /\ attempt' = attempt /\ service' = service BY <1>10 DEF StoreFeed
  <2>2. Later' BY <1>1, <2>1 DEF Later
  <2>3. Good(db') /\ db'.revision = db.revision
    <3>1. PICK o : o = db OBVIOUS
    <3>2. PICK n : n = db' OBVIOUS
    <3>3. PICK v \in BOOLEAN : v = (o.revision >= 2 /\ p # NoRow) OBVIOUS
    <3>4. PICK w \in BOOLEAN : w = (o.revision = Latest) OBVIOUS
    <3>5. /\ p = NoRow \/ p <= Largest(o)
          /\ c <= Largest(o)
          /\ n = [o EXCEPT !.protection = p, !.company = c, !.etag = v, !.jobs = w]
      BY <1>10, <3>1, <3>2, <3>3, <3>4 DEF StoreFeed, Largest, LargestProtection
    <3>6. p \in Nat /\ c \in Nat BY DEF NoRow
    <3>7. Good(o) BY <3>1
    <3>8. StoresFeed(o, n, p, c, v, w) BY <3>4, <3>5 DEF StoresFeed
    <3>9. Good(n) /\ n.revision = o.revision BY <3>6, <3>7, <3>8, StoreFeedGood
    <3> QED BY <3>1, <3>2, <3>9
  <2> QED BY <2>1, <2>2, <2>3 DEF ConsumesOnLatest, Migrating
<1>11. CASE UNCHANGED vars
  <2>1. db' = db /\ clock' = clock /\ attempt' = attempt /\ service' = service
    BY <1>11 DEF vars
  <2> QED BY <2>1 DEF Later, ConsumesOnLatest, Migrating
<1> QED BY <1>2, <1>3, <1>4, <1>5, <1>6, <1>7, <1>8, <1>9, <1>10, <1>11 DEF Next

LEMMA MigrationsInvariant == Spec => []MigrationsInv
<1>1. Init => MigrationsInv BY MigrationsInitial
<1>2. MigrationsInv /\ [Next]_vars => MigrationsInv' BY MigrationsStep
<1> QED BY <1>1, <1>2, PTL DEF Spec

\* At every revision the rows satisfy its constraints, whatever the older
\* releases stored and whichever commands were run on them.
THEOREM MigrationsTypeCorrect == Spec => []TypeOK
<1>1. MigrationsInv => TypeOK
  <2> SUFFICES ASSUME MigrationsInv PROVE TypeOK OBVIOUS
  <2>1. Good(db) /\ attempt \in 1..MaxAttempts BY DEF MigrationsInv
  <2>2. Largest(db) = LargestProtection BY DEF Largest, LargestProtection
  <2>3. db.revision \in Base..Latest BY <2>1 DEF Good, Database
  <2>4. IF db.revision = 4 THEN UniqueIds(db.sources) ELSE UniqueIdDates(db.sources)
    BY <2>1 DEF Good
  <2> QED BY <2>1, <2>2, <2>3, <2>4 DEF Good, TypeOK
<1> QED BY <1>1, MigrationsInvariant, PTL

\* db_manager consumes only on the latest schema, for any number of failed
\* attempts, restarts and downgrades.
THEOREM ConsumerOnLatest == Spec => []ConsumesOnLatest
<1>1. MigrationsInv => ConsumesOnLatest BY DEF MigrationsInv
<1> QED BY <1>1, MigrationsInvariant, PTL

\* 0005 down and up again is the identity on the sources and their links.
THEOREM DowngradeUndone == Spec => []DowngradeIsUndone
<1>1. MigrationsInv => DowngradeIsUndone
  <2> SUFFICES ASSUME MigrationsInv, db.revision >= 5,
                      NEW e \in Downgraded(db, 4), NEW f \in Upgraded(e)
               PROVE  f.sources = db.sources /\ f.links = db.links
    BY DEF DowngradeIsUndone
  <2>1. PICK d : d = db OBVIOUS
  <2>2. Later /\ Good(d) /\ d.revision >= 5 /\ e \in Downgraded(d, 4)
    BY <2>1 DEF MigrationsInv
  <2>3. f.sources = d.sources /\ f.links = d.links BY <2>2, Undone
  <2> QED BY <2>1, <2>3
<1> QED BY <1>1, MigrationsInvariant, PTL

\* The rows that stop an upgrade or a downgrade, exactly.
THEOREM BlockedByTwinsOnly == Spec => []OnlyTwinsBlockMigrations
<1>1. MigrationsInv => OnlyTwinsBlockMigrations
  <2> SUFFICES ASSUME MigrationsInv PROVE OnlyTwinsBlockMigrations OBVIOUS
  <2>1. PICK d : d = db OBVIOUS
  <2>2. Later /\ Good(d) BY <2>1 DEF MigrationsInv
  <2>3. Upgraded(d) = {} <=> ~Upgradable(d) BY <2>2, UpgradedFacts
  <2>4. Downgraded(d, Base) = {} <=> ~Downgradable(d) BY <2>2, DowngradedFacts
  <2> QED BY <2>1, <2>3, <2>4 DEF OnlyTwinsBlockMigrations, Upgradable, Downgradable
<1> QED BY <1>1, MigrationsInvariant, PTL

\* No command between revisions that hold rows loses or invents one.
THEOREM RowsKept == Spec => MigrationsKeepRows
<1>1. ASSUME Migrating, Kept(db, db')
      PROVE  /\ {<<s.id, s.url>> : s \in db.sources} = {<<s.id, s.url>> : s \in db'.sources}
             /\ {s \in db.sources : ~Undated(s)} \subseteq db'.sources
             /\ {l.source : l \in db.links} = {l.source : l \in db'.links}
             /\ db.protection # NoRow =>
                  db'.protection = IF db'.revision = Latest THEN Clamped(db.protection)
                                   ELSE db.protection
  BY <1>1 DEF Kept
<1>2. MigrationsInv /\ [Next]_vars =>
        [ Migrating =>
            /\ {<<s.id, s.url>> : s \in db.sources} = {<<s.id, s.url>> : s \in db'.sources}
            /\ {s \in db.sources : ~Undated(s)} \subseteq db'.sources
            /\ {l.source : l \in db.links} = {l.source : l \in db'.links}
            /\ db.protection # NoRow =>
                 db'.protection = IF db'.revision = Latest THEN Clamped(db.protection)
                                  ELSE db.protection ]_vars
  BY <1>1, MigrationsStep
<1> QED BY <1>2, MigrationsInvariant, PTL DEF Spec, MigrationsKeepRows

===============================================================================
