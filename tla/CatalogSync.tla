------------------------------ MODULE CatalogSync ------------------------------
(***************************************************************************)
(* The RSS catalog of the backend: POST /rss/sync pulls a git repository   *)
(* of catalog files and writes the companies, feeds and tags they list in  *)
(* one transaction; two PATCH endpoints toggle the enabled flag of a feed  *)
(* or of a company.  Each endpoint runs under a job_lock of its own name   *)
(* (see JobLock), so there is at most one sync, one feed toggle and one    *)
(* company toggle at a time, and they interleave with each other.          *)
(*                                                                         *)
(* The sync's SQLAlchemy session has autoflush off.  An attribute it sets  *)
(* on a loaded feed stays in memory until the next flush; its SELECTs and  *)
(* DELETEs meanwhile see the rows as they were flushed; and the UPDATE of  *)
(* a flush writes only the columns whose value changed in memory.          *)
(*                                                                         *)
(* Abstractions.  A file is known by its place in the sorted order of the  *)
(* paths.  Host, icon, country, language, section and trust score are      *)
(* columns the sync alone writes and nothing reads back: they are left     *)
(* out; tags stand for the data a feed carries.                            *)
(***************************************************************************)
EXTENDS Naturals, Sequences, FiniteSets, SequencesExt

CONSTANTS
  Files,          \* the .json files of the repository
  CatalogFiles,   \* those under json/
  QuotedFiles,    \* those whose path git prints between quotes
  Urls,           \* rss_feeds.url
  Names,          \* rss_company.name
  Tags,           \* rss_tags.name
  NameOf,         \* the company name normalize_name_from_filename derives
  Revisions,      \* the contents the repository may have: functions on Files
  ToggledUrls,    \* the feeds administrators toggle
  ToggledNames,   \* the companies administrators toggle
  MaxPushes,      \* bound: commits pushed to the remote branch
  MaxFailures     \* bound: failures of git, of the database or of the process

ASSUME FilesAssumption ==
  /\ CatalogFiles \subseteq Files /\ Files \subseteq Nat /\ IsFiniteSet(Files)
  /\ QuotedFiles \subseteq Files
  /\ NameOf \in [Files -> Names]

Absent == [kind |-> "absent"]   \* there is no such file
Broken == [kind |-> "broken"]   \* it does not load, or its upsert raises

NoCompany == [kind |-> "no company"]
NoFeed == [kind |-> "no feed"]
Nobody == "nobody"              \* rss_feeds.company_id IS NULL
NoProtection == 3               \* null: a feed entry without fetchprotection

\* What the schema of a catalog file admits.
IsEntry(e) ==
  /\ e.url \in Urls /\ e.enabled \in BOOLEAN /\ e.tags \subseteq Tags
  /\ e.fetchprotection \in 0..2 \cup {NoProtection}
IsContent(c) ==
  \/ c \in {Absent, Broken}
  \/ /\ c.kind = "catalog"
     /\ c.company \in Names \cup {Nobody}
     /\ c.fetchprotection \in 0..2
     /\ c.feeds \in Seq(ToSet(c.feeds))
     /\ \A i \in DOMAIN c.feeds : IsEntry(c.feeds[i])

ASSUME NamesAssumption == Nobody \notin Names /\ ToggledNames \subseteq Names
ASSUME UrlsAssumption == ToggledUrls \subseteq Urls
ASSUME RevisionsAssumption ==
  \A r \in Revisions : DOMAIN r = Files /\ \A f \in Files : IsContent(r[f])

VARIABLES
  remote,     \* the content of the files on the remote branch
  checkout,   \* the same in the local clone, <<>> before the first clone
  companies,  \* rss_company
  feeds,      \* rss_feeds with feeds_scraping.fetchprotection and the tags
  tags,       \* rss_tags
  sync,       \* the POST /rss/sync being served
  toggle,     \* the PATCH /rss/feeds/{id}/enabled being served
  companyToggle,  \* the PATCH /rss/companies/{id}/enabled being served
  pushes,
  failures,
  history     \* the catalogs earlier syncs missed, and the full syncs of this
              \* revision; read by the properties only

vars == <<remote, checkout, companies, feeds, tags, sync, toggle, companyToggle,
          pushes, failures, history>>
dbVars == <<companies, feeds, tags>>
toggleVars == <<toggle, companyToggle>>

Idle == [phase |-> "idle"]

Listed(content) == {content.feeds[i].url : i \in DOMAIN content.feeds}
HasCatalog(repository, f) == f \in CatalogFiles /\ repository[f].kind = "catalog"

Init ==
  /\ remote = [f \in Files |-> Absent]
  /\ checkout = <<>>
  /\ companies = [n \in Names |-> NoCompany]
  /\ feeds = [u \in Urls |-> NoFeed]
  /\ tags = {}
  /\ sync = Idle
  /\ toggle = Idle
  /\ companyToggle = Idle
  /\ pushes = 0
  /\ failures = 0
  /\ history = [missed |-> {}, full |-> 0]

\* The maintainers of the catalog push a commit.
Push(revision) ==
  /\ pushes < MaxPushes
  /\ remote' = revision
  /\ pushes' = pushes + 1
  /\ UNCHANGED <<checkout, companies, feeds, tags, sync, toggleVars, failures, history>>

-------------------------------------------------------------------------------
(* The session of the sync.                                                *)

\* objects: the feeds in the identity map, as loaded or last flushed and as they
\* are in memory; modified, when an attribute was set since.  written: the rows
\* this transaction wrote (and locks); deleted: the urls whose row it deleted.
NewSession ==
  [objects |-> <<>>, written |-> <<>>, deleted |-> {}, companies |-> <<>>, tags |-> {}]

\* What a SELECT of the sync's transaction sees.
FeedRow(s, u) == IF u \in DOMAIN s.written THEN s.written[u] ELSE feeds[u]
CompanyExists(s, n) == n \in DOMAIN s.companies \/ companies[n] # NoCompany

Dirty(s) == {u \in DOMAIN s.objects : s.objects[u].now # s.objects[u].was}

\* The UPDATE a flush sends for a feed: the columns that changed in memory.
Updated(row, object) ==
  [column \in DOMAIN row |->
     IF object.now[column] # object.was[column] THEN object.now[column] ELSE row[column]]

Unmodified(row) == [was |-> row, now |-> row, modified |-> FALSE]
Modified(object, row) == [was |-> object.was, now |-> row, modified |-> TRUE]

\* Session.flush.
Flush(s) ==
  [s EXCEPT
     !.written = [u \in DOMAIN s.written \cup Dirty(s) |->
                    IF u \in Dirty(s) THEN Updated(FeedRow(s, u), s.objects[u])
                                      ELSE s.written[u]],
     !.objects = [u \in DOMAIN s.objects |->
                    Unmodified(s.objects[u].now)]]

Put(f, x, y) == [z \in DOMAIN f \cup {x} |-> IF z = x THEN y ELSE f[z]]
Without(f, S) == [z \in DOMAIN f \ S |-> f[z]]

\* get_or_create_company: a new row is flushed at once, a known one is
\* changed in memory.
GetOrCreateCompany(s, n, protection) ==
  LET known == CompanyExists(s, n)
      t == [s EXCEPT !.companies = Put(s.companies, n, protection)]
  IN  IF known THEN t ELSE Flush(t)

\* list_rss_feeds_by_urls: load the feeds that have a row and are not in memory.
LoadFeeds(s, urls) ==
  LET found == {u \in urls \ DOMAIN s.objects : FeedRow(s, u) # NoFeed}
  IN  [s EXCEPT !.objects = [u \in DOMAIN s.objects \cup found |->
         IF u \in DOMAIN s.objects THEN s.objects[u]
         ELSE Unmodified(FeedRow(s, u))]]

\* get_or_create_tags: missing tags are added and flushed.
GetOrCreateTags(s, names) ==
  IF names \subseteq tags \cup s.tags THEN s
  ELSE Flush([s EXCEPT !.tags = @ \cup names])

\* Mutant: an entry without a protection keeps its null.
EntryProtection_NoDefault(entry, default) == entry.fetchprotection

\* normalize_source_feed_entry and its schema: an entry without a protection
\* takes that of its company.
EntryProtection(entry, default) ==
  IF entry.fetchprotection = NoProtection THEN default ELSE entry.fetchprotection

MaxOf(x, y) == IF x >= y THEN x ELSE y
MinOf(x, y) == IF x <= y THEN x ELSE y

\* Mutant: a known feed keeps its enabled flag.
UpsertFeed_KeepsFlag(s, entry, protection) ==
  LET u == entry.url
      new == [company |-> Nobody, enabled |-> entry.enabled,
              fetchprotection |-> protection, tags |-> entry.tags]
      t == Flush(s)
  IN  IF u \notin DOMAIN s.objects
      THEN [t EXCEPT !.written = Put(t.written, u, new),
                     !.objects = Put(t.objects, u, Unmodified(new))]
      ELSE [s EXCEPT !.objects[u] = Modified(@, [@.now EXCEPT !.tags = entry.tags])]

\* upsert_feed: insert and flush, or change the loaded feed in memory.
UpsertFeed(s, entry, protection) ==
  LET u == entry.url
      new == [company |-> Nobody, enabled |-> entry.enabled,
              fetchprotection |-> protection, tags |-> entry.tags]
      old == s.objects[u].now
      t == Flush(s)
  IN  IF u \notin DOMAIN s.objects
      THEN [t EXCEPT !.written = Put(t.written, u, new),
                     !.objects = Put(t.objects, u, Unmodified(new))]
      ELSE [s EXCEPT !.objects[u] =
              Modified(@, [old EXCEPT !.enabled = entry.enabled,
                             !.fetchprotection = MaxOf(old.fetchprotection, protection),
                             !.tags = entry.tags])]

\* link_company_to_feed: in memory.  It sets nothing when the company is right
\* already, on a feed upsert_feed has modified.
LinkCompanyToFeed(s, u, n) ==
  [s EXCEPT !.objects[u] = Modified(@, [@.now EXCEPT !.company = n])]

\* One turn of the loop of _sync_catalog_file over the entries.
SyncEntry(s, entry, n) ==
  LinkCompanyToFeed(
    UpsertFeed(GetOrCreateTags(s, entry.tags), entry,
               EntryProtection(entry, s.companies[n])),
    entry.url, n)

SyncEntries(s, entries, n) ==
  LET after[k \in 0..Len(entries)] ==
        IF k = 0 THEN s ELSE SyncEntry(after[k - 1], entries[k], n)
  IN  after[Len(entries)]

\* Mutants: no feed is deleted; the feeds of every company are.
DeleteCompanyFeedsNotIn_Never(s, n, expected) == s
DeleteCompanyFeedsNotIn_AnyCompany(s, n, expected) ==
  LET gone == {u \in Urls \ expected : FeedRow(s, u) # NoFeed}
  IN  [s EXCEPT !.written = [u \in DOMAIN s.written \cup gone |->
                               IF u \in gone THEN NoFeed ELSE s.written[u]],
                !.deleted = @ \cup gone,
                !.objects = Without(s.objects, gone)]

\* delete_company_feeds_not_in_urls: a SELECT and a DELETE, without a flush.
DeleteCompanyFeedsNotIn(s, n, expected) ==
  LET gone == {u \in Urls \ expected :
                 FeedRow(s, u) # NoFeed /\ FeedRow(s, u).company = n}
  IN  [s EXCEPT !.written = [u \in DOMAIN s.written \cup gone |->
                               IF u \in gone THEN NoFeed ELSE s.written[u]],
                !.deleted = @ \cup gone,
                !.objects = Without(s.objects, gone)]

CompanyName(f, content) == IF content.company = Nobody THEN NameOf[f] ELSE content.company

\* _sync_catalog_file for a file that exists.
SyncPresentFile(s, f, content) ==
  LET n == CompanyName(f, content)
      start == LoadFeeds(GetOrCreateCompany(s, n, content.fetchprotection), Listed(content))
  IN  DeleteCompanyFeedsNotIn(SyncEntries(start, content.feeds, n), n, Listed(content))

\* _sync_catalog_file for a file that disappeared.
SyncMissingFile(s, f) ==
  IF CompanyExists(s, NameOf[f]) THEN DeleteCompanyFeedsNotIn(s, NameOf[f], {}) ELSE s

\* The identity map references its feeds weakly, but for those modified since the
\* last flush: the others are gone when the function returns.
EndOfFile(s) ==
  [s EXCEPT !.objects = Without(s.objects, {u \in DOMAIN s.objects : ~s.objects[u].modified})]

-------------------------------------------------------------------------------
(* POST /rss/sync.                                                         *)

Fail ==
  /\ failures < MaxFailures
  /\ failures' = failures + 1

\* A fresh clone or force=true takes every file under json/ in the order of the
\* directory walk.
Walks == SetToSeqs({f \in CatalogFiles : remote[f] # Absent})

\* The files a pull changes.
Differing == IF checkout = <<>> THEN {} ELSE {f \in Files : checkout[f] # remote[f]}

\* list_changed_files: the lines of git diff --name-only that end in .json, sorted.
\* The line of a quoted path ends in the quote; and git leaves out a file that is
\* gone when it takes it for renamed, be it to a name that is not listed.
ChangedFiles ==
  LET printed == Differing \ QuotedFiles
  IN  {walk \in UNION {SetToSeqs(printed \ renamed) :
                         renamed \in SUBSET {f \in printed : remote[f] = Absent}} :
         \A i, j \in DOMAIN walk : i < j => walk[i] < walk[j]}

\* pull_or_clone, and the files to handle.
BeginSync(force, todo) ==
  /\ checkout' = remote
  /\ sync' = IF todo = <<>> THEN Idle
             ELSE [phase |-> "files", full |-> force \/ checkout = <<>>, todo |-> todo,
                   done |-> {}, session |-> NewSession, toggled |-> <<>>]
  /\ history' = [missed |-> {f \in history.missed \cup (Differing \ ToSet(todo)) : HasCatalog(remote, f)},
                 full |-> IF checkout = remote THEN history.full ELSE 0]

SyncRepository(force) ==
  /\ sync = Idle
  /\ \/ /\ force \/ checkout = <<>>
        /\ \E walk \in Walks : BeginSync(force, walk)
     \/ /\ ~force
        /\ checkout # <<>>
        /\ \E changed \in ChangedFiles : BeginSync(force, changed)
  /\ UNCHANGED <<remote, dbVars, toggleVars, pushes, failures>>

\* One turn of the loop over the changed files.
SyncFile ==
  /\ sync.phase = "files"
  /\ sync.todo # <<>>
  /\ LET f == Head(sync.todo)
         present == HasCatalog(checkout, f)
         s == sync.session
     IN  /\ f \in CatalogFiles => checkout[f] # Broken
         /\ sync' = [sync EXCEPT
                       !.todo = Tail(sync.todo),
                       !.done = @ \cup {f},
                       !.session = EndOfFile(IF present THEN SyncPresentFile(s, f, checkout[f])
                                                        ELSE SyncMissingFile(s, f))]
  /\ UNCHANGED <<remote, checkout, dbVars, toggleVars, pushes, failures, history>>

\* db.commit: the last flush and the commit.  A toggle that read a feed this
\* transaction deletes holds the id of a row that is gone, also when the sync
\* inserted the url again.
SyncCommit ==
  /\ sync.phase = "files"
  /\ sync.todo = <<>>
  /\ LET s == Flush(sync.session)
     IN  /\ feeds' = [u \in Urls |-> FeedRow(s, u)]
         /\ companies' = [n \in Names |->
              IF n \notin DOMAIN s.companies THEN companies[n]
              ELSE [enabled |-> companies[n] = NoCompany \/ companies[n].enabled,
                    fetchprotection |-> s.companies[n]]]
         /\ tags' = tags \cup s.tags
         /\ toggle' = IF toggle # Idle /\ toggle.url \in s.deleted
                      THEN [toggle EXCEPT !.gone = TRUE] ELSE toggle
  /\ sync' = Idle
  /\ history' = [missed |-> history.missed \ sync.done,
                 full |-> IF sync.full THEN MinOf(2, history.full + 1) ELSE history.full]
  /\ UNCHANGED <<remote, checkout, companyToggle, pushes, failures>>

\* The file raises, the database fails or the process dies: the transaction is
\* rolled back, and the clone stays at the revision that was pulled.
SyncRollback ==
  /\ sync.phase = "files"
  /\ \/ /\ sync.todo # <<>>
        /\ Head(sync.todo) \in CatalogFiles
        /\ checkout[Head(sync.todo)] = Broken
        /\ UNCHANGED failures
     \/ Fail
  /\ sync' = Idle
  /\ history' = [history EXCEPT !.missed = @ \cup {f \in sync.done \cup ToSet(sync.todo) :
                                               HasCatalog(checkout, f)}]
  /\ UNCHANGED <<remote, checkout, dbVars, toggleVars, pushes>>

-------------------------------------------------------------------------------
(* The toggles.                                                            *)

\* toggle_rss_feed_enabled up to the update: the feed and its company are
\* read; a flag that is already right or a disabled company ends the request.
FeedToggleRead(u, enabled) ==
  /\ toggle = Idle
  /\ feeds[u] # NoFeed
  /\ feeds[u].enabled # enabled
  /\ feeds[u].company # Nobody => companies[feeds[u].company].enabled
  /\ toggle' = [phase |-> "write", url |-> u, enabled |-> enabled, gone |-> FALSE]
  /\ UNCHANGED <<remote, checkout, dbVars, sync, companyToggle, pushes, failures, history>>

Locked(u) == sync.phase = "files" /\ u \in DOMAIN sync.session.written

\* The update by id, which waits for a row the sync has written, and the
\* commit.  A row that is gone makes it 404.
FeedToggleWrite ==
  /\ toggle # Idle
  /\ toggle' = Idle
  /\ \/ /\ toggle.gone
        /\ UNCHANGED <<feeds, sync>>
     \/ /\ ~toggle.gone
        /\ ~Locked(toggle.url)
        /\ feeds' = [feeds EXCEPT ![toggle.url].enabled = toggle.enabled]
        /\ sync' = IF sync = Idle THEN sync
                   ELSE [sync EXCEPT !.toggled = Put(@, toggle.url, toggle.enabled)]
  /\ UNCHANGED <<remote, checkout, companies, tags, companyToggle, pushes, failures, history>>

\* toggle_rss_company_enabled; companies are never deleted.
CompanyToggleRead(n, enabled) ==
  /\ companyToggle = Idle
  /\ companies[n] # NoCompany
  /\ companies[n].enabled # enabled
  /\ companyToggle' = [phase |-> "write", name |-> n, enabled |-> enabled]
  /\ UNCHANGED <<remote, checkout, dbVars, sync, toggle, pushes, failures, history>>

CompanyToggleWrite ==
  /\ companyToggle # Idle
  /\ companies' = [companies EXCEPT ![companyToggle.name].enabled = companyToggle.enabled]
  /\ companyToggle' = Idle
  /\ UNCHANGED <<remote, checkout, feeds, tags, sync, toggle, pushes, failures, history>>

\* The update or the commit of a toggle fails, or its process dies.
ToggleRollback ==
  /\ Fail
  /\ \/ /\ toggle # Idle
        /\ toggle' = Idle
        /\ UNCHANGED companyToggle
     \/ /\ companyToggle # Idle
        /\ companyToggle' = Idle
        /\ UNCHANGED toggle
  /\ UNCHANGED <<remote, checkout, dbVars, sync, pushes, history>>

Next ==
  \/ \E revision \in Revisions \ {remote} : Push(revision)
  \/ \E force \in BOOLEAN : SyncRepository(force)
  \/ SyncFile
  \/ SyncCommit
  \/ SyncRollback
  \/ \E u \in ToggledUrls, enabled \in BOOLEAN : FeedToggleRead(u, enabled)
  \/ FeedToggleWrite
  \/ \E n \in ToggledNames, enabled \in BOOLEAN : CompanyToggleRead(n, enabled)
  \/ CompanyToggleWrite
  \/ ToggleRollback

Spec == Init /\ [][Next]_vars

-------------------------------------------------------------------------------
(* Properties.                                                             *)

FeedRows ==
  [company : Names \cup {Nobody}, enabled : BOOLEAN, fetchprotection : 0..2,
   tags : SUBSET tags]

\* The rows satisfy the constraints of the schema: check constraints, foreign
\* keys to rss_company and rss_tags; and no committed feed is without company.
\* A toggle knows when the row it has read is gone.
TypeOK ==
  /\ \A n \in Names : companies[n] # NoCompany =>
       companies[n] \in [enabled : BOOLEAN, fetchprotection : 0..2]
  /\ \A u \in Urls : feeds[u] # NoFeed =>
       /\ feeds[u] \in FeedRows
       /\ feeds[u].company \in Names
       /\ companies[feeds[u].company] # NoCompany
  /\ checkout = <<>> \/ DOMAIN checkout = Files
  /\ sync = Idle \/ sync.phase = "files"
  /\ toggle # Idle =>
       toggle.url \in Urls /\ (toggle.gone \/ feeds[toggle.url] # NoFeed)
  /\ companyToggle = Idle \/ companies[companyToggle.name] # NoCompany

FeedsOf(n) == {u \in Urls : feeds[u] # NoFeed /\ feeds[u].company = n}
Catalogs == {f \in Files : HasCatalog(checkout, f)}

\* What a file may list and the companies its catalogs may have, whatever the
\* revision.
MayList(f) == UNION {Listed(r[f]) : r \in {r \in Revisions : HasCatalog(r, f)}}
MayOwn(f) == {CompanyName(f, r[f]) : r \in {r \in Revisions : HasCatalog(r, f)}}

\* No other file lists the url, and none acts under a name of file f's company:
\* that of its own catalog, or the one derived from its path, under which it is
\* handled when it is missing or lies outside json/.
Undisturbed(f, u) ==
  \A g \in Files \ {f} :
    u \notin MayList(g) /\ (MayOwn(g) \cup {NameOf[g]}) \cap MayOwn(f) = {}

\* Incremental syncs compose.  The feeds of a company are exactly those its file in
\* the clone lists, whatever order the files were changed, emptied, renamed,
\* deleted and restored in (rss_sync_service.py, list_changed_files), unless the
\* file was missed: the last pull that changed it did not list it, or the sync that
\* last had it was rolled back.  Excepted are urls that move between files, and
\* companies under whose name another file of the repository is handled too.
ClonedCatalogIsStored ==
  sync = Idle /\ checkout # <<>> =>
    \A f \in Catalogs \ history.missed, u \in Urls : Undisturbed(f, u) =>
      (u \in FeedsOf(CompanyName(f, checkout[f])) <=> u \in Listed(checkout[f]))

\* No two catalogs of the clone have the same company.
OneFilePerCompany ==
  \A f, g \in Catalogs : CompanyName(f, checkout[f]) = CompanyName(g, checkout[g]) => f = g

\* A feed may be lost when its url moves from one file to another, but not for
\* good: after two full syncs of the same revision every listed url is stored,
\* linked to a company that lists it.  (Files that share a company delete each
\* other's feeds in every sync.)
SecondFullSyncRestores ==
  sync = Idle /\ history.full >= 2 /\ OneFilePerCompany =>
    \A f \in Catalogs : \A u \in Listed(checkout[f]) :
      /\ feeds[u] # NoFeed
      /\ \E g \in Catalogs : /\ u \in Listed(checkout[g])
                             /\ feeds[u].company = CompanyName(g, checkout[g])

\* The enabled values the catalog in the clone gives a url.
CatalogFlags(u) ==
  {e.enabled : e \in {e \in UNION {ToSet(checkout[f].feeds) : f \in Catalogs \cap sync.done} :
                        e.url = u}}

\* A sync and the toggles are serialisable: when the sync commits, a feed of
\* its files has the flag the catalog gives it, or the one the last toggle
\* answered while the sync was running, and never the value it was loaded with
\* (the flush writes only the columns that changed).
SyncOrToggleSetsFlag ==
  [][ SyncCommit =>
        \A u \in Urls :
          CatalogFlags(u) # {} /\ feeds'[u] # NoFeed =>
            \/ feeds'[u].enabled \in CatalogFlags(u)
            \/ u \in DOMAIN sync.toggled /\ feeds'[u].enabled = sync.toggled[u] ]_vars
===============================================================================
