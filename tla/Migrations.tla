------------------------------- MODULE Migrations -------------------------------
(***************************************************************************)
(* The Alembic migrations of db_manager and the two ways they are run:     *)
(* run_db_migrations when the service starts, and make db-migrate and      *)
(* make db-reset by an operator.  Every alembic command runs all its       *)
(* migrations in one transaction (env.py): it succeeds or changes nothing. *)
(*                                                                         *)
(* The database is what the migrations rewrite: the sources with their     *)
(* links (one feed), the protection and the validator of that feed, the    *)
(* protection of its company, and whether there are scrape jobs.  The      *)
(* releases that wrote the older revisions are not in the repository: they *)
(* store whatever the constraints of the revision admit.                   *)
(***************************************************************************)
EXTENDS Naturals, FiniteSets, FiniteSetsExt

CONSTANTS
  Urls,          \* rss_sources.url
  Dates,         \* dates of publication, larger than Epoch
  MaxSources,    \* bound: sources stored
  MaxDowngrades, \* bound: operator commands that take revisions back
  MaxFailures    \* bound: attempts that find the database unreachable

Null == 0        \* published_at IS NULL
Epoch == 1       \* TIMESTAMPTZ '1970-01-01 00:00:00+00'
NoRow == 9       \* a feed without a row in feeds_scraping

Base == 0
Latest == 6
MaxAttempts == 5  \* DEFAULT_MIGRATION_MAX_ATTEMPTS

ASSUME DatesAssumption == Dates \subseteq Nat /\ \A d \in Dates : d > Epoch
ASSUME BoundsAssumption == MaxSources \in Nat /\ MaxDowngrades \in Nat /\ MaxFailures \in Nat

VARIABLES
  db,          \* the database
  service,     \* db_manager: stopped, starting, consuming or failed
  attempt,     \* the attempt of run_db_migrations
  clock,       \* now()
  downgrades,
  failures

vars == <<db, service, attempt, clock, downgrades, failures>>

Empty ==
  [revision |-> Base, sources |-> {}, links |-> {}, sequence |-> 0,
   protection |-> 1, company |-> 1, etag |-> FALSE, jobs |-> FALSE]

\* A deployment that was last migrated by any release.
Init ==
  /\ \E r \in Base..Latest : db = [Empty EXCEPT !.revision = r]
  /\ service \in {"starting", "stopped"}
  /\ attempt = 1
  /\ clock = 100
  /\ downgrades = 0
  /\ failures = 0

-------------------------------------------------------------------------------
(* The migrations, from a database to the set of its successors: none when *)
(* a constraint is violated.                                               *)

Coalesce(d, default) == IF d = Null THEN default ELSE d
NullIf(d, value) == IF d = value THEN Null ELSE d

\* UNIQUE (url, published_at): NULLs are distinct.
UniqueUrls(sources) ==
  \A s, t \in sources :
    s # t /\ s.url = t.url /\ s.published = t.published => s.published = Null
UniqueIds(sources) == \A s, t \in sources : s # t => s.id # t.id
UniqueIdDates(sources) ==
  \A s, t \in sources : s # t /\ s.id = t.id => s.published # t.published

\* COALESCE(published_at, default) and NULLIF(published_at, value) in the rows.
CoalesceDates(sources, default) == {[s EXCEPT !.published = Coalesce(@, default)] : s \in sources}
NullifyDates(sources, value) == {[s EXCEPT !.published = NullIf(@, value)] : s \in sources}

\* setval('rss_sources_id_seq', MAX(id)).
LastId(sources) == Max({0} \cup {s.id : s \in sources})

Rewritten(d, revision, sources, links) ==
  [d EXCEPT !.revision = revision, !.sources = sources, !.links = links,
            !.sequence = LastId(sources)]

\* The links of tables that have published_at in the key, from the sources.
DatedLinks(links, sources) ==
  {[source |-> s.id, published |-> s.published] :
     s \in {s \in sources : \E l \in links : l.source = s.id}}
\* SELECT DISTINCT source_id, feed_id.
UndatedLinks(links) == {[source |-> l.source, published |-> Null] : l \in links}

Up0001(d) == {[Empty EXCEPT !.revision = 1]}
Up0002(d) == {[d EXCEPT !.revision = 2, !.etag = FALSE]}
Up0003(d) == {[d EXCEPT !.revision = 3]}

\* Mutants: a url is copied once; or must be unique.
Up0004_OncePerUrl(d) ==
  LET first == {s \in d.sources : \A t \in d.sources : t.url = s.url => s.id <= t.id}
      kept == {l \in d.links : \E s \in first : s.id = l.source}
  IN  IF UniqueIds(first) THEN {Rewritten(d, 4, first, UndatedLinks(kept))} ELSE {}
Up0004_UniqueUrl(d) ==
  IF UniqueIds(d.sources) /\ \A s, t \in d.sources : s # t => s.url # t.url
  THEN {Rewritten(d, 4, d.sources, UndatedLinks(d.links))}
  ELSE {}

\* The key of rss_sources is id alone.
Up0004(d) ==
  IF UniqueIds(d.sources)
  THEN {Rewritten(d, 4, d.sources, UndatedLinks(d.links))}
  ELSE {}

\* Mutant: undated sources get the date of the migration.
Up0005_Now(d) ==
  LET sources == CoalesceDates(d.sources, clock)
  IN  IF UniqueUrls(sources)
      THEN {Rewritten(d, 5, sources, DatedLinks(d.links, sources))}
      ELSE {}

\* An undated source gets the epoch.
Up0005(d) ==
  LET sources == CoalesceDates(d.sources, Epoch)
  IN  IF UniqueUrls(sources)
      THEN {Rewritten(d, 5, sources, DatedLinks(d.links, sources))}
      ELSE {}

Clamped(p) == IF p # NoRow /\ p > 2 THEN 2 ELSE p

\* Mutant: the rows of feeds_scraping are not clamped.
Up0006_OnlyCompanies(d) == {[d EXCEPT !.revision = 6, !.company = Clamped(@)]}

Up0006(d) == {[d EXCEPT !.revision = 6, !.company = Clamped(@), !.protection = Clamped(@)]}

Down0006(d) == {[d EXCEPT !.revision = 5, !.jobs = FALSE]}

\* The epoch becomes NULL again.
Down0005(d) ==
  IF UniqueIds(d.sources)
  THEN {Rewritten(d, 4, NullifyDates(d.sources, Epoch), UndatedLinks(d.links))}
  ELSE {}

\* An undated source gets the time of the transaction.
Down0004(d) ==
  LET sources == CoalesceDates(d.sources, clock)
  IN  IF UniqueUrls(sources)
      THEN {Rewritten(d, 3, sources, DatedLinks(d.links, sources))}
      ELSE {}

\* A feed without a row in feeds_scraping gets the default of the column.
Down0003(d) ==
  {[d EXCEPT !.revision = 2, !.protection = IF @ = NoRow THEN 1 ELSE @,
             !.etag = IF d.protection = NoRow THEN FALSE ELSE @]}
Down0002(d) == {[d EXCEPT !.revision = 1, !.etag = FALSE]}
Down0001(d) == {Empty}

UpStep(d) ==
  CASE d.revision = 0 -> Up0001(d) [] d.revision = 1 -> Up0002(d)
    [] d.revision = 2 -> Up0003(d) [] d.revision = 3 -> Up0004(d)
    [] d.revision = 4 -> Up0005(d) [] d.revision = 5 -> Up0006(d)
DownStep(d) ==
  CASE d.revision = 6 -> Down0006(d) [] d.revision = 5 -> Down0005(d)
    [] d.revision = 4 -> Down0004(d) [] d.revision = 3 -> Down0003(d)
    [] d.revision = 2 -> Down0002(d) [] d.revision = 1 -> Down0001(d)

\* The databases of revision r are taken one revision further, or back unless
\* they are at the target.
Through(ds, r) == UNION {IF d.revision = r THEN UpStep(d) ELSE {d} : d \in ds}
Back(ds, r, target) ==
  UNION {IF d.revision = r /\ r > target THEN DownStep(d) ELSE {d} : d \in ds}

\* alembic upgrade head and alembic downgrade: every step on the result of the
\* one before, nothing when one fails.
Upgraded(d) == Through(Through(Through(Through(Through(Through({d}, 0), 1), 2), 3), 4), 5)
Downgraded(d, target) ==
  Back(Back(Back(Back(Back(Back({d}, 6, target), 5, target), 4, target), 3, target),
            2, target), 1, target)

-------------------------------------------------------------------------------
(* db_manager.                                                             *)

\* Mutant: the loop is not left after a success.
MigrationSucceeds_NoReturn ==
  /\ service = "starting"
  /\ db' \in Upgraded(db)
  /\ UNCHANGED <<service, attempt, clock, downgrades, failures>>

\* command.upgrade returns: the consumer is started.
MigrationSucceeds ==
  /\ service = "starting"
  /\ db' \in Upgraded(db)
  /\ service' = "consuming"
  /\ UNCHANGED <<attempt, clock, downgrades, failures>>

\* Mutant: after the last attempt run_db_migrations returns.
MigrationFails_Returns ==
  /\ service = "starting"
  /\ \/ Upgraded(db) = {} /\ UNCHANGED failures
     \/ failures < MaxFailures /\ failures' = failures + 1
  /\ IF attempt >= MaxAttempts
     THEN service' = "consuming" /\ UNCHANGED attempt
     ELSE attempt' = attempt + 1 /\ UNCHANGED service
  /\ UNCHANGED <<db, clock, downgrades>>

\* It raises, on a constraint or for want of a database: the next attempt, or
\* DBManagerError and the end of the process.
MigrationFails ==
  /\ service = "starting"
  /\ \/ Upgraded(db) = {} /\ UNCHANGED failures
     \/ failures < MaxFailures /\ failures' = failures + 1
  /\ IF attempt >= MaxAttempts
     THEN service' = "failed" /\ UNCHANGED attempt
     ELSE attempt' = attempt + 1 /\ UNCHANGED service
  /\ UNCHANGED <<db, clock, downgrades>>

\* restart: unless-stopped.
Restart ==
  /\ service = "failed"
  /\ service' = "starting"
  /\ attempt' = 1
  /\ UNCHANGED <<db, clock, downgrades, failures>>

-------------------------------------------------------------------------------
(* The operator.                                                           *)

\* make up.
Start ==
  /\ service = "stopped"
  /\ service' = "starting"
  /\ attempt' = 1
  /\ UNCHANGED <<db, clock, downgrades, failures>>

\* make db-migrate.
DbMigrate ==
  /\ db.revision # Latest
  /\ db' \in Upgraded(db)
  /\ UNCHANGED <<service, attempt, clock, downgrades, failures>>

\* make db-reset up to the downgrade; make stops where it fails, else the
\* recipe goes on with DbMigrate and Start.
DbReset ==
  /\ downgrades < MaxDowngrades
  /\ downgrades' = downgrades + 1
  /\ clock' = clock + 1
  /\ service' = "stopped"
  /\ IF Downgraded(db, Base) = {} THEN UNCHANGED db ELSE db' \in Downgraded(db, Base)
  /\ UNCHANGED <<attempt, failures>>

\* alembic downgrade -1, while the service is stopped.
AlembicDowngrade ==
  /\ service = "stopped"
  /\ downgrades < MaxDowngrades
  /\ db.revision # Base
  /\ db' \in DownStep(db)
  /\ downgrades' = downgrades + 1
  /\ clock' = clock + 1
  /\ UNCHANGED <<service, attempt, failures>>

-------------------------------------------------------------------------------
(* What the services store, within the constraints of the revision.        *)

ids == {s.id : s \in db.sources}
LinkOf(id, d) == [source |-> id, published |-> IF db.revision = 4 THEN Null ELSE d]

\* A source and its link; without a date only in revision 4.
StoreSource(url, d) ==
  LET row == [id |-> db.sequence + 1, url |-> url, published |-> d]
  IN  /\ db.revision # Base
      /\ Cardinality(db.sources) < MaxSources
      /\ d = Null => db.revision = 4
      /\ UniqueUrls(db.sources \cup {row})
      /\ db' = [db EXCEPT !.sources = @ \cup {row}, !.links = @ \cup {LinkOf(row.id, d)},
                          !.sequence = @ + 1]
      /\ UNCHANGED <<service, attempt, clock, downgrades, failures>>

\* A source under an id given out twice (the race of SourcePartitions): the key
\* is (id, published_at) but in revision 4.
StoreUnderSharedId(url, d) ==
  /\ db.revision \notin {Base, 4}
  /\ Cardinality(db.sources) < MaxSources
  /\ \E id \in ids :
       LET row == [id |-> id, url |-> url, published |-> d]
       IN  /\ UniqueIdDates(db.sources \cup {row}) /\ UniqueUrls(db.sources \cup {row})
           /\ row \notin db.sources
           /\ db' = [db EXCEPT !.sources = @ \cup {row}, !.links = @ \cup {LinkOf(id, d)}]
  /\ UNCHANGED <<service, attempt, clock, downgrades, failures>>

\* Protections, a validator and jobs.
LargestProtection == IF db.revision = Latest THEN 2 ELSE 3
StoreFeed(p, company) ==
  /\ db.revision # Base
  /\ p = NoRow \/ p <= LargestProtection
  /\ p = NoRow => db.revision >= 3
  /\ company <= LargestProtection
  /\ db' = [db EXCEPT !.protection = p, !.company = company,
                      !.etag = db.revision >= 2 /\ p # NoRow,
                      !.jobs = db.revision = Latest]
  /\ UNCHANGED <<service, attempt, clock, downgrades, failures>>

Next ==
  \/ MigrationSucceeds
  \/ MigrationFails
  \/ Restart
  \/ Start
  \/ DbMigrate
  \/ DbReset
  \/ AlembicDowngrade
  \/ \E url \in Urls, d \in Dates \cup {Null, Epoch} : StoreSource(url, d)
  \/ \E url \in Urls, d \in Dates \cup {Epoch} : StoreUnderSharedId(url, d)
  \/ \E p \in {2, 3, NoRow} : StoreFeed(p, 3) \/ StoreFeed(p, 2)

\* The service runs, and Docker starts it again.
Fairness ==
  /\ WF_vars(MigrationSucceeds \/ MigrationFails)
  /\ WF_vars(Restart)

Spec == Init /\ [][Next]_vars
FairSpec == Spec /\ Fairness

-------------------------------------------------------------------------------

\* The rows satisfy the constraints of their revision: keys, foreign keys,
\* NOT NULL and CHECK; the next id is free.
TypeOK ==
  /\ db.revision \in Base..Latest
  /\ UniqueUrls(db.sources)
  /\ IF db.revision = 4 THEN UniqueIds(db.sources) ELSE UniqueIdDates(db.sources)
  /\ \A s \in db.sources : s.id <= db.sequence /\ (s.published = Null => db.revision = 4)
  /\ \A l \in db.links : \E s \in db.sources :
       s.id = l.source /\ (db.revision # 4 => s.published = l.published)
  /\ db.company <= LargestProtection
  /\ db.protection = NoRow \/ db.protection <= LargestProtection
  /\ db.jobs => db.revision = Latest
  /\ attempt \in 1..MaxAttempts

Undated(s) == s.published \in {Null, Epoch}
Migrating == db'.revision # db.revision /\ db.revision # Base /\ db'.revision # Base

\* No migration, up or down, loses or invents a source or a link, changes the
\* date of a dated source, or gives a feed another protection than the nearest
\* one the new revision allows.
MigrationsKeepRows ==
  [][ Migrating =>
        /\ {<<s.id, s.url>> : s \in db.sources} = {<<s.id, s.url>> : s \in db'.sources}
        /\ {s \in db.sources : ~Undated(s)} \subseteq db'.sources
        /\ {l.source : l \in db.links} = {l.source : l \in db'.links}
        /\ db.protection # NoRow =>
             db'.protection = IF db'.revision = Latest THEN Clamped(db.protection)
                              ELSE db.protection ]_vars

\* Going back to revision 4 and forward again restores every source, its date
\* and its links: NULLIF and COALESCE undo each other, and the dates of the
\* links are those of their sources.
DowngradeIsUndone ==
  db.revision >= 5 =>
    \A d \in Downgraded(db, 4) : \A e \in Upgraded(d) :
      e.sources = db.sources /\ e.links = db.links

Twins(sources) ==
  \E s, t \in sources : s # t /\ s.url = t.url /\ Undated(s) /\ Undated(t)

\* A source that revision 3 will date with the time of the migration, beside one
\* of its url with that date or no date either.
Undatable(d) ==
  LET undated == IF d.revision = 4 THEN Null ELSE Epoch
  IN  \E s, t \in d.sources :
        s # t /\ s.url = t.url /\ s.published = undated /\ t.published \in {undated, clock}

\* A command fails on the rows that the revision it starts from admits and a
\* later one does not, and on no others.  On the way up these are two sources of
\* one id, which revision 4 does not hold, and two undated sources of one url,
\* which only revision 4 holds; on the way down two sources of one id, and an
\* undated source beside one of its url dated at the very time of the migration.
OnlyTwinsBlockMigrations ==
  /\ Upgraded(db) = {} <=>
       \/ db.revision \in 1..3 /\ ~UniqueIds(db.sources)
       \/ db.revision = 4 /\ Twins(db.sources)
  /\ Downgraded(db, Base) = {} <=>
       db.revision >= 4 /\ (~UniqueIds(db.sources) \/ Undatable(db))

\* The consumer never runs against an older schema, however many attempts fail.
ConsumesOnLatest == service = "consuming" => db.revision = Latest

\* The service gets to its consumer through unreachable databases and restarts,
\* unless the migration itself is blocked or an operator stops the service.
StartupEnds ==
  service \in {"starting", "failed"} ~>
    service \in {"consuming", "stopped"} \/ Upgraded(db) = {}
===============================================================================
