-------------------------------- MODULE JobLock --------------------------------
(***************************************************************************)
(* job_lock, the context manager the PATCH endpoints, POST /rss/sync and   *)
(* POST /sources/partitions/repartition-default run under: a threading     *)
(* lock of the backend process, then, for the names with an id in          *)
(* _PG_LOCK_IDS, a PostgreSQL advisory lock held by a connection of its    *)
(* own.  Neither is waited for: a request that finds one taken is refused  *)
(* (409).  The threads serve requests of several backend processes.        *)
(*                                                                         *)
(* An advisory lock belongs to a session, and the connections come from    *)
(* the pool of the engine: closing one ends its transaction, not its       *)
(* session.                                                                *)
(***************************************************************************)
EXTENDS Naturals

CONSTANTS
  Threads,      \* the request threads
  ProcessOf,    \* the backend process of each
  Names,        \* the names job_lock is called with
  PgNames,      \* the keys of _PG_LOCK_IDS
  MaxFailures   \* bound: failing statements, lost connections and crashes

ASSUME ThreadsAssumption == ProcessOf \in [Threads -> Nat]
ASSUME NamesAssumption == PgNames \subseteq Names /\ "none" \notin Names
ASSUME FailuresAssumption == MaxFailures \in Nat

Processes == {ProcessOf[t] : t \in Threads}

VARIABLES
  job,         \* where each thread is in job_lock
  localLock,   \* _LOCAL_LOCKS: by process and name, the threads that took it
  pgLock,      \* the advisory locks: by name, the threads whose session holds it
  pooled,      \* process and name: an idle session of the pool holds the lock
  unreleased,  \* process and name: an unlock failed and its session lives on
  stuck,       \* process and name: close() raised before the local lock's release
  failures

vars == <<job, localLock, pgLock, pooled, unreleased, stuck, failures>>

Phases == {"idle", "local", "running", "leaving", "closing", "unlocking"}
NoJob == "none"

\* pg_lock_conn: None (or invalidated), usable, or lost and not known to be.
Connections == {"none", "open", "lost"}

Outside == [phase |-> "idle", name |-> NoJob, acquiredPg |-> FALSE, conn |-> "none"]
Entered(n) == [phase |-> "local", name |-> n, acquiredPg |-> FALSE, conn |-> "none"]

Init ==
  /\ job = [t \in Threads |-> Outside]
  /\ localLock = [p \in Processes |-> [n \in Names |-> {}]]
  /\ pgLock = [n \in Names |-> {}]
  /\ pooled = {}
  /\ unreleased = {}
  /\ stuck = {}
  /\ failures = 0

Fail ==
  /\ failures < MaxFailures
  /\ failures' = failures + 1

Name(t) == job[t].name
Slot(t) == <<ProcessOf[t], job[t].name>>
LocalHolders(t, n) == localLock[ProcessOf[t]][n]

\* No session holds the advisory lock.
Free(n) == pgLock[n] = {} /\ \A p \in Processes : <<p, n>> \notin pooled

\* Mutant: the answer of acquire is not looked at.
AcquireLocal_Ignored(t, n) ==
  /\ job[t].phase = "idle"
  /\ localLock' = [localLock EXCEPT ![ProcessOf[t]][n] = {t}]
  /\ job' = [job EXCEPT ![t] = Entered(n)]
  /\ UNCHANGED <<pgLock, pooled, unreleased, stuck, failures>>

\* local_lock.acquire(blocking=False); a request that finds it taken raises
\* JobAlreadyRunning and changes nothing.
AcquireLocal(t, n) ==
  /\ job[t].phase = "idle"
  /\ LocalHolders(t, n) = {}
  /\ localLock' = [localLock EXCEPT ![ProcessOf[t]][n] = {t}]
  /\ job' = [job EXCEPT ![t] = Entered(n)]
  /\ UNCHANGED <<pgLock, pooled, unreleased, stuck, failures>>

Acquired(t) ==
  /\ pgLock' = [pgLock EXCEPT ![Name(t)] = {t}]
  /\ job' = [job EXCEPT ![t].phase = "running", ![t].acquiredPg = TRUE, ![t].conn = "open"]

\* Mutants: the answer of _try_pg_lock is not looked at, or not kept.
AcquirePg_Ignored(t) ==
  /\ job[t].phase = "local"
  /\ Name(t) \in PgNames
  /\ pgLock' = [pgLock EXCEPT ![Name(t)] = IF @ = {} THEN {t} ELSE @]
  /\ job' = [job EXCEPT ![t].phase = "running", ![t].acquiredPg = pgLock[Name(t)] = {},
                        ![t].conn = "open"]
  /\ UNCHANGED <<localLock, pooled, unreleased, stuck, failures>>
AcquirePg_Forgotten(t) ==
  /\ job[t].phase = "local"
  /\ Name(t) \in PgNames
  /\ Free(Name(t))
  /\ pgLock' = [pgLock EXCEPT ![Name(t)] = {t}]
  /\ job' = [job EXCEPT ![t].phase = "running", ![t].conn = "open"]
  /\ UNCHANGED <<localLock, pooled, unreleased, stuck, failures>>

\* _try_pg_lock, for a name that has an id: the lock is free.
AcquirePg(t) ==
  /\ job[t].phase = "local"
  /\ Name(t) \in PgNames
  /\ Free(Name(t))
  /\ Acquired(t)
  /\ UNCHANGED <<localLock, pooled, unreleased, stuck, failures>>

\* The pool hands out the very session that holds it: a session may lock again.
AcquireKept(t) ==
  /\ job[t].phase = "local"
  /\ Slot(t) \in pooled
  /\ Acquired(t)
  /\ pooled' = pooled \ {Slot(t)}
  /\ UNCHANGED <<localLock, unreleased, stuck, failures>>

\* Mutant: the request tries again instead of giving up.
RefusedPg_Spins(t) ==
  /\ job[t].phase = "local"
  /\ Name(t) \in PgNames
  /\ ~ Free(Name(t))
  /\ UNCHANGED vars

\* pg_try_advisory_lock returns false: JobAlreadyRunning.
RefusedPg(t) ==
  /\ job[t].phase = "local"
  /\ Name(t) \in PgNames
  /\ ~ Free(Name(t))
  /\ job' = [job EXCEPT ![t].phase = "leaving", ![t].conn = "open"]
  /\ UNCHANGED <<localLock, pgLock, pooled, unreleased, stuck, failures>>

\* engine.connect() raises, or the query does on a session that is gone or lives.
ConnectionFails(t) ==
  /\ Fail
  /\ job[t].phase = "local"
  /\ Name(t) \in PgNames
  /\ \E c \in {"none", "open"} :
       job' = [job EXCEPT ![t].phase = "leaving", ![t].conn = c]
  /\ UNCHANGED <<localLock, pgLock, pooled, unreleased, stuck>>

\* A name without an id runs under the local lock alone.
SkipPg(t) ==
  /\ job[t].phase = "local"
  /\ Name(t) \notin PgNames
  /\ job' = [job EXCEPT ![t].phase = "running"]
  /\ UNCHANGED <<localLock, pgLock, pooled, unreleased, stuck, failures>>

\* The body of the with statement returns or raises.
BodyEnds(t) ==
  /\ job[t].phase = "running"
  /\ job' = [job EXCEPT ![t].phase = "leaving"]
  /\ UNCHANGED <<localLock, pgLock, pooled, unreleased, stuck, failures>>

-------------------------------------------------------------------------------
(* The finally clause.                                                     *)

\* _release_pg_lock, if the lock was acquired.  A session that had the lock
\* already keeps it; on a lost session the statement raises, which is swallowed,
\* and the connection is invalidated.
Unlock(t) ==
  /\ job[t].phase = "leaving"
  /\ pgLock' = IF job[t].acquiredPg /\ Slot(t) \notin unreleased
                 THEN [pgLock EXCEPT ![Name(t)] = @ \ {t}] ELSE pgLock
  /\ job' = [job EXCEPT ![t].phase = "closing",
                        ![t].conn = IF job[t].acquiredPg /\ @ = "lost" THEN "none" ELSE @]
  /\ UNCHANGED <<localLock, pooled, unreleased, stuck, failures>>

\* The unlock fails on a session that lives, by a cancelled statement: swallowed,
\* and the session keeps the lock.
UnlockFails(t) ==
  /\ Fail
  /\ job[t].phase = "leaving" /\ job[t].acquiredPg /\ job[t].conn = "open"
  /\ job' = [job EXCEPT ![t].phase = "closing"]
  /\ unreleased' = unreleased \cup {Slot(t)}
  /\ UNCHANGED <<localLock, pgLock, pooled, stuck>>

\* pg_lock_conn.close(), if there is a connection: it rolls the transaction back
\* and goes to the pool with what its session holds, or is closed for good when
\* the pool is full.
Close(t) ==
  /\ job[t].phase = "closing" /\ job[t].conn # "lost"
  /\ job' = [job EXCEPT ![t].phase = "unlocking", ![t].conn = "none"]
  /\ pgLock' = [pgLock EXCEPT ![Name(t)] = @ \ {t}]
  /\ IF t \in pgLock[Name(t)]
     THEN \/ pooled' = pooled \cup {Slot(t)} /\ UNCHANGED unreleased
          \/ unreleased' = unreleased \ {Slot(t)} /\ UNCHANGED pooled
     ELSE UNCHANGED <<pooled, unreleased>>
  /\ UNCHANGED <<localLock, stuck, failures>>

\* The rollback finds the session gone: close() raises, and the request ends
\* without local_lock.release().
CloseRaises(t) ==
  /\ job[t].phase = "closing" /\ job[t].conn = "lost"
  /\ job' = [job EXCEPT ![t] = Outside]
  /\ stuck' = stuck \cup {Slot(t)}
  /\ UNCHANGED <<localLock, pgLock, pooled, unreleased, failures>>

\* local_lock.release().
ReleaseLocal(t) ==
  /\ job[t].phase = "unlocking"
  /\ localLock' = [localLock EXCEPT ![ProcessOf[t]][Name(t)] = {}]
  /\ job' = [job EXCEPT ![t] = Outside]
  /\ UNCHANGED <<pgLock, pooled, unreleased, stuck, failures>>

-------------------------------------------------------------------------------
(* What happens to sessions and processes.                                 *)

\* The session of a lock connection ends, in the body or after: the server drops
\* what it holds, and the thread finds out with its next statement.
ConnectionLost(t) ==
  /\ Fail
  /\ job[t].conn = "open"
  /\ pgLock' = [pgLock EXCEPT ![Name(t)] = @ \ {t}]
  /\ unreleased' = IF t \in pgLock[Name(t)] THEN unreleased \ {Slot(t)} ELSE unreleased
  /\ job' = [job EXCEPT ![t].conn = "lost"]
  /\ UNCHANGED <<localLock, pooled, stuck>>

\* A session of the pool ends: dropped by the server, or by the pool.
PooledEnds(slot) ==
  /\ slot \in pooled
  /\ pooled' = pooled \ {slot}
  /\ unreleased' = unreleased \ {slot}
  /\ UNCHANGED <<job, localLock, pgLock, stuck, failures>>

Others(slots, p) == {slot \in slots : slot[1] # p}

\* A backend process dies; its locks and sessions go with it.
Crash(p) ==
  /\ Fail
  /\ job' = [t \in Threads |-> IF ProcessOf[t] = p THEN Outside ELSE job[t]]
  /\ localLock' = [localLock EXCEPT ![p] = [n \in Names |-> {}]]
  /\ pgLock' = [n \in Names |-> {t \in pgLock[n] : ProcessOf[t] # p}]
  /\ pooled' = Others(pooled, p)
  /\ unreleased' = Others(unreleased, p)
  /\ stuck' = Others(stuck, p)

Next ==
  \/ \E t \in Threads :
       \/ \E n \in Names : AcquireLocal(t, n)
       \/ AcquirePg(t)
       \/ AcquireKept(t)
       \/ RefusedPg(t)
       \/ ConnectionFails(t)
       \/ SkipPg(t)
       \/ BodyEnds(t)
       \/ Unlock(t)
       \/ UnlockFails(t)
       \/ Close(t)
       \/ CloseRaises(t)
       \/ ReleaseLocal(t)
       \/ ConnectionLost(t)
  \/ \E slot \in pooled : PooledEnds(slot)
  \/ \E p \in Processes : Crash(p)

\* A thread inside job_lock keeps running: nothing in it waits for another.
Fairness ==
  \A t \in Threads :
    /\ WF_vars(AcquirePg(t) \/ AcquireKept(t) \/ RefusedPg(t) \/ SkipPg(t))
    /\ WF_vars(BodyEnds(t))
    /\ WF_vars(Unlock(t))
    /\ WF_vars(Close(t) \/ CloseRaises(t))
    /\ WF_vars(ReleaseLocal(t))

Spec == Init /\ [][Next]_vars
FairSpec == Spec /\ Fairness

-------------------------------------------------------------------------------

Slots == Processes \X Names

TypeOK ==
  /\ job \in [Threads -> [phase : Phases, name : Names \cup {NoJob},
                          acquiredPg : BOOLEAN, conn : Connections]]
  /\ \A t \in Threads : job[t].phase # "idle" => job[t].name \in Names
  /\ localLock \in [Processes -> [Names -> SUBSET Threads]]
  /\ pgLock \in [Names -> SUBSET Threads]
  /\ pooled \subseteq Slots /\ unreleased \subseteq Slots /\ stuck \subseteq Slots
  /\ failures \in 0..MaxFailures

Inside(t, n) == job[t].phase # "idle" /\ job[t].name = n
Running(t, n) == job[t].phase = "running" /\ job[t].name = n

\* The same job never runs twice in one process, whatever connections are lost
\* and although the local lock is released after the advisory one.
ExclusiveInProcess ==
  \A n \in Names, t, u \in Threads :
    t # u /\ ProcessOf[t] = ProcessOf[u] => ~(Running(t, n) /\ Running(u, n))

\* A job with an advisory lock runs in two processes at once only when one of
\* them has lost the connection that held the lock.
ExclusiveAcrossProcesses ==
  \A n \in PgNames, t, u \in Threads :
    t # u /\ Running(t, n) /\ Running(u, n) => "lost" \in {job[t].conn, job[u].conn}

\* job_lock leaves a lock behind in two ways only.  A taken local lock belongs to
\* a thread that is inside and will release it, unless close() raised; a taken
\* advisory lock belongs to the session of such a thread, unless an unlock failed
\* and left it to the pool.
LocksHaveOwners ==
  /\ \A p \in Processes, n \in Names : \A t \in localLock[p][n] :
       ProcessOf[t] = p /\ (Inside(t, n) \/ <<p, n>> \in stuck)
  /\ \A n \in Names : \A t \in pgLock[n] :
       /\ Inside(t, n) /\ job[t].conn = "open"
       /\ job[t].phase = "closing" => Slot(t) \in unreleased
  /\ pooled \subseteq unreleased

\* A refused request may be repeated: every lock is free again and again, but for
\* the two ways in which one is left behind.
LocksAreFreed ==
  /\ \A p \in Processes, n \in Names : []<>(localLock[p][n] = {} \/ <<p, n>> \in stuck)
  /\ \A n \in Names : []<>(Free(n) \/ \E p \in Processes : <<p, n>> \in unreleased)
===============================================================================
