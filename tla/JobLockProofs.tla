----------------------------- MODULE JobLockProofs -----------------------------
(***************************************************************************)
(* job_lock excludes, for any threads, processes and names and any number  *)
(* of failing statements, lost connections and crashes, and leaves locks   *)
(* behind in two ways only.  None of the properties is inductive: they     *)
(* rest on what the locks hold, also while a thread is on its way in or    *)
(* out, and on a session of the pool being the one holder of its lock.     *)
(***************************************************************************)
EXTENDS JobLock, TLAPS

-------------------------------------------------------------------------------
(* The inductive invariant.                                                *)

\* A thread inside job_lock is the one holder of its local lock.
LocalHeld ==
  \A t \in Threads : job[t].phase # "idle" => LocalHolders(t, job[t].name) = {t}

\* Where a thread has a connection, and where the flag acquiredPg is set.
Connected ==
  \A t \in Threads :
    /\ job[t].conn # "none" => job[t].phase \in {"running", "leaving", "closing"}
    /\ job[t].phase = "running" /\ job[t].name \in PgNames => job[t].acquiredPg
    /\ job[t].phase \in {"running", "leaving"} /\ job[t].acquiredPg => job[t].conn # "none"
    /\ job[t].phase = "local" => ~job[t].acquiredPg

\* Until it is released an acquired advisory lock is held, unless its connection
\* was lost.
PgHeld ==
  \A t \in Threads :
    job[t].phase \in {"running", "leaving"} /\ job[t].acquiredPg /\ job[t].conn = "open" =>
      t \in pgLock[job[t].name]

\* An advisory lock has one holder, a thread that acquired it or a pool.
OneHolder ==
  /\ \A n \in Names : \A t \in pgLock[n] : pgLock[n] = {t} /\ job[t].acquiredPg
  /\ \A slot \in pooled :
       pgLock[slot[2]] = {} /\ \A other \in pooled : other[2] = slot[2] => other = slot

\* The parts of LocksHaveOwners.
LocalOwned ==
  \A p \in Processes, n \in Names : \A t \in localLock[p][n] :
    ProcessOf[t] = p /\ (Inside(t, n) \/ <<p, n>> \in stuck)
PgOwned ==
  \A n \in Names : \A t \in pgLock[n] :
    /\ Inside(t, n) /\ job[t].conn = "open"
    /\ job[t].phase = "closing" => Slot(t) \in unreleased

LockInv == TypeOK /\ LocksHaveOwners /\ LocalHeld /\ Connected /\ PgHeld /\ OneHolder

-------------------------------------------------------------------------------

\* No thread is inside and no lock is taken in the beginning.
LEMMA InitLocks == Init => LockInv
<1> SUFFICES ASSUME Init PROVE LockInv
  OBVIOUS
<1>1. TypeOK
  BY ThreadsAssumption, NamesAssumption, FailuresAssumption
  DEF Init, TypeOK, Outside, Phases, NoJob, Connections
<1>2. LocksHaveOwners
  BY DEF Init, LocksHaveOwners
<1>3. LocalHeld /\ Connected /\ PgHeld /\ OneHolder
  BY DEF Init, LocalHeld, Connected, PgHeld, OneHolder, Outside
<1> QED
  BY <1>1, <1>2, <1>3 DEF LockInv

\* The process and the name of a thread inside job_lock are a slot.
LEMMA SlotFacts ==
  ASSUME TypeOK, NEW t \in Threads
  PROVE  /\ ProcessOf[t] \in Processes
         /\ job[t].phase # "idle" => job[t].name \in Names /\ Slot(t) \in Slots
BY DEF TypeOK, Processes, Slots, Slot

JobRecords == [phase : Phases, name : Names \cup {NoJob}, acquiredPg : BOOLEAN, conn : Connections]

\* Only thread t moves, to this place in job_lock.
Moves(t, phase, name, acquiredPg, conn) ==
  /\ job' \in [Threads -> JobRecords]
  /\ \A u \in Threads : u # t => job'[u] = job[u]
  /\ job'[t].phase = phase /\ job'[t].name = name
  /\ job'[t].acquiredPg = acquiredPg /\ job'[t].conn = conn

\* A step that puts thread t in a place moves it there and no other.
LEMMA MoveFacts ==
  ASSUME TypeOK, NEW t \in Threads, NEW r \in JobRecords, job' = [job EXCEPT ![t] = r]
  PROVE  Moves(t, r.phase, r.name, r.acquiredPg, r.conn)
BY DEF TypeOK, Moves, JobRecords

\* An update of phase and connection moves the thread and leaves the other fields.
LEMMA TwoFieldMoves ==
  ASSUME TypeOK, NEW t \in Threads, NEW f \in Phases, NEW c \in Connections,
         job' = [job EXCEPT ![t] = [job[t] EXCEPT !.phase = f, !.conn = c]]
  PROVE  Moves(t, f, job[t].name, job[t].acquiredPg, c)
<1>1. PICK o \in JobRecords : o = job[t] BY DEF TypeOK, JobRecords
<1>2. PICK r : r = [o EXCEPT !.phase = f, !.conn = c] OBVIOUS
<1>3. r \in JobRecords BY <1>2 DEF JobRecords
<1>4. r.phase = f /\ r.name = o.name /\ r.acquiredPg = o.acquiredPg /\ r.conn = c
  BY <1>2 DEF JobRecords
<1>5. job' = [job EXCEPT ![t] = r] BY <1>1, <1>2
<1>6. Moves(t, r.phase, r.name, r.acquiredPg, r.conn) BY <1>3, <1>5, MoveFacts
<1> QED BY <1>1, <1>4, <1>6

\* A thread that got its advisory lock runs, with the flag and the connection.
LEMMA AcquiredMoves ==
  ASSUME TypeOK, NEW t \in Threads, Acquired(t)
  PROVE  Moves(t, "running", job[t].name, TRUE, "open")
<1>1. PICK o \in JobRecords : o = job[t] BY DEF TypeOK, JobRecords
<1>2. PICK r : r = [o EXCEPT !.phase = "running", !.acquiredPg = TRUE, !.conn = "open"] OBVIOUS
<1>3. "running" \in Phases /\ TRUE \in BOOLEAN /\ "open" \in Connections BY DEF Phases, Connections
<1>4. r \in JobRecords BY <1>2, <1>3 DEF JobRecords
<1>5. r.phase = "running" /\ r.name = o.name /\ r.acquiredPg = TRUE /\ r.conn = "open"
  BY <1>2 DEF JobRecords
<1>6. job' = [job EXCEPT ![t] = r] BY <1>1, <1>2 DEF Acquired
<1>7. Moves(t, r.phase, r.name, r.acquiredPg, r.conn) BY <1>4, <1>6, MoveFacts
<1> QED BY <1>1, <1>5, <1>7

\* A thread whose connection or query fails leaves, with a connection or without.
LEMMA FailsMoves ==
  ASSUME TypeOK, NEW t \in Threads, ConnectionFails(t)
  PROVE  \E c \in {"none", "open"} : Moves(t, "leaving", job[t].name, job[t].acquiredPg, c)
<1>1. PICK c \in {"none", "open"} :
        job' = [job EXCEPT ![t] = [job[t] EXCEPT !.phase = "leaving", !.conn = c]]
  BY DEF ConnectionFails
<1>2. "leaving" \in Phases /\ c \in Connections BY DEF Phases, Connections
<1> QED BY <1>1, <1>2, TwoFieldMoves

\* A thread past _release_pg_lock closes its connection, if it still has one.
LEMMA UnlockMoves ==
  ASSUME TypeOK, NEW t \in Threads, Unlock(t)
  PROVE  Moves(t, "closing", job[t].name, job[t].acquiredPg,
               IF job[t].acquiredPg /\ job[t].conn = "lost" THEN "none" ELSE job[t].conn)
<1>1. PICK c : c = IF job[t].acquiredPg /\ job[t].conn = "lost" THEN "none" ELSE job[t].conn OBVIOUS
<1>2. "closing" \in Phases /\ c \in Connections BY <1>1 DEF Phases, Connections, TypeOK
<1>3. job' = [job EXCEPT ![t] = [job[t] EXCEPT !.phase = "closing", !.conn = c]] BY <1>1 DEF Unlock
<1>4. Moves(t, "closing", job[t].name, job[t].acquiredPg, c) BY <1>2, <1>3, TwoFieldMoves
<1> QED BY <1>1, <1>4

\* A thread past close() has no connection and is to release its local lock.
LEMMA CloseMoves ==
  ASSUME TypeOK, NEW t \in Threads, Close(t)
  PROVE  Moves(t, "unlocking", job[t].name, job[t].acquiredPg, "none")
<1>1. job' = [job EXCEPT ![t] = [job[t] EXCEPT !.phase = "unlocking", !.conn = "none"]] BY DEF Close
<1>2. "unlocking" \in Phases /\ "none" \in Connections BY DEF Phases, Connections
<1> QED BY <1>1, <1>2, TwoFieldMoves

\* A lost connection changes nothing else of its thread.
LEMMA LostMoves ==
  ASSUME TypeOK, NEW t \in Threads, ConnectionLost(t)
  PROVE  Moves(t, job[t].phase, job[t].name, job[t].acquiredPg, "lost")
<1>1. job[t] \in JobRecords /\ "lost" \in Connections BY DEF TypeOK, JobRecords, Connections
<1>2. PICK r : r = [job[t] EXCEPT !.conn = "lost"] OBVIOUS
<1>3. /\ r \in JobRecords
      /\ r.phase = job[t].phase /\ r.name = job[t].name
      /\ r.acquiredPg = job[t].acquiredPg /\ r.conn = "lost"
  BY <1>1, <1>2 DEF JobRecords
<1>4. job' = [job EXCEPT ![t] = r] BY <1>2 DEF ConnectionLost
<1>5. Moves(t, r.phase, r.name, r.acquiredPg, r.conn) BY <1>3, <1>4, MoveFacts
<1> QED BY <1>3, <1>5

\* A thread that ends is outside.
LEMMA OutsideMoves ==
  ASSUME TypeOK, NEW t \in Threads, job' = [job EXCEPT ![t] = Outside]
  PROVE  Moves(t, "idle", NoJob, FALSE, "none")
<1>1. Outside \in JobRecords BY DEF Outside, JobRecords, Phases, Connections
<1>2. Moves(t, Outside.phase, Outside.name, Outside.acquiredPg, Outside.conn) BY <1>1, MoveFacts
<1> QED BY <1>2 DEF Outside

\* A thread that took its local lock has neither flag nor connection.
LEMMA EnteredMoves ==
  ASSUME TypeOK, NEW t \in Threads, NEW n \in Names, job' = [job EXCEPT ![t] = Entered(n)]
  PROVE  Moves(t, "local", n, FALSE, "none")
<1>1. PICK r : r = Entered(n) OBVIOUS
<1>2. r \in JobRecords BY <1>1 DEF Entered, JobRecords, Phases, Connections
<1>3. Moves(t, r.phase, r.name, r.acquiredPg, r.conn) BY <1>1, <1>2, MoveFacts
<1> QED BY <1>1, <1>3 DEF Entered

\* The types are kept by every step.
LEMMA StepTypes == LockInv /\ [Next]_vars => TypeOK'
<1> SUFFICES ASSUME LockInv, [Next]_vars PROVE TypeOK'
  OBVIOUS
<1>0. /\ \A t \in Threads : ProcessOf[t] \in Processes
      /\ \A t \in Threads : job[t].phase # "idle" => job[t].name \in Names /\ Slot(t) \in Slots
  BY SlotFacts DEF LockInv
<1> USE ThreadsAssumption, NamesAssumption, FailuresAssumption
    DEF LockInv, TypeOK, Phases, NoJob, Connections, Name, Slot, Fail, Outside, Entered, Others
<1>1. ASSUME NEW t \in Threads, NEW n \in Names, AcquireLocal(t, n) PROVE TypeOK'
  BY <1>1, <1>0 DEF AcquireLocal
<1>2. ASSUME NEW t \in Threads, AcquirePg(t) PROVE TypeOK'
  <2>1. Moves(t, "running", job[t].name, TRUE, "open") BY <1>2, AcquiredMoves DEF AcquirePg
  <2>2. /\ pgLock' = [pgLock EXCEPT ![Name(t)] = {t}]
        /\ job[t].phase # "idle" /\ UNCHANGED <<localLock, pooled, unreleased, stuck, failures>>
    BY <1>2 DEF AcquirePg, Acquired
  <2> QED BY <1>0, <2>1, <2>2 DEF Moves, JobRecords
<1>3. ASSUME NEW t \in Threads, AcquireKept(t) PROVE TypeOK'
  <2>1. Moves(t, "running", job[t].name, TRUE, "open") BY <1>3, AcquiredMoves DEF AcquireKept
  <2>2. /\ pgLock' = [pgLock EXCEPT ![Name(t)] = {t}] /\ pooled' \subseteq pooled
        /\ job[t].phase # "idle" /\ UNCHANGED <<localLock, unreleased, stuck, failures>>
    BY <1>3 DEF AcquireKept, Acquired
  <2> QED BY <1>0, <2>1, <2>2 DEF Moves, JobRecords
<1>4. ASSUME NEW t \in Threads, RefusedPg(t) PROVE TypeOK'
  BY <1>4, <1>0 DEF RefusedPg
<1>5. ASSUME NEW t \in Threads, ConnectionFails(t) PROVE TypeOK'
  <2>1. PICK c \in {"none", "open"} : Moves(t, "leaving", job[t].name, job[t].acquiredPg, c)
    BY <1>5, FailsMoves
  <2>2. /\ job[t].phase # "idle" /\ failures' \in 0..MaxFailures
        /\ UNCHANGED <<localLock, pgLock, pooled, unreleased, stuck>>
    BY <1>5 DEF ConnectionFails
  <2> QED BY <1>0, <2>1, <2>2 DEF Moves, JobRecords
<1>6. ASSUME NEW t \in Threads, SkipPg(t) PROVE TypeOK'
  BY <1>6, <1>0 DEF SkipPg
<1>7. ASSUME NEW t \in Threads, BodyEnds(t) PROVE TypeOK'
  BY <1>7, <1>0 DEF BodyEnds
<1>8. ASSUME NEW t \in Threads, Unlock(t) PROVE TypeOK'
  BY <1>8, <1>0 DEF Unlock
<1>9. ASSUME NEW t \in Threads, UnlockFails(t) PROVE TypeOK'
  BY <1>9, <1>0 DEF UnlockFails
<1>10. ASSUME NEW t \in Threads, Close(t) PROVE TypeOK'
  <2>1. Moves(t, "unlocking", job[t].name, job[t].acquiredPg, "none") BY <1>10, CloseMoves
  <2>2. /\ pgLock' = [pgLock EXCEPT ![Name(t)] = @ \ {t}] /\ job[t].phase # "idle"
        /\ pooled' \subseteq pooled \cup {Slot(t)} /\ unreleased' \subseteq unreleased
        /\ UNCHANGED <<localLock, stuck, failures>>
    BY <1>10 DEF Close
  <2> QED BY <1>0, <2>1, <2>2 DEF Moves, JobRecords
<1>11. ASSUME NEW t \in Threads, CloseRaises(t) PROVE TypeOK'
  BY <1>11, <1>0 DEF CloseRaises
<1>12. ASSUME NEW t \in Threads, ReleaseLocal(t) PROVE TypeOK'
  BY <1>12, <1>0 DEF ReleaseLocal
<1>13. ASSUME NEW t \in Threads, ConnectionLost(t) PROVE TypeOK'
  <2>1. Moves(t, job[t].phase, job[t].name, job[t].acquiredPg, "lost") BY <1>13, LostMoves
  <2>2. /\ pgLock' = [pgLock EXCEPT ![Name(t)] = @ \ {t}] /\ unreleased' \subseteq unreleased
        /\ failures' \in 0..MaxFailures /\ UNCHANGED <<localLock, pooled, stuck>>
    BY <1>13 DEF ConnectionLost
  <2> QED BY <1>0, <2>1, <2>2 DEF Moves, JobRecords
<1>14. ASSUME NEW slot \in pooled, PooledEnds(slot) PROVE TypeOK'
  BY <1>14, <1>0 DEF PooledEnds
<1>15. ASSUME NEW p \in Processes, Crash(p) PROVE TypeOK'
  BY <1>15, <1>0 DEF Crash
<1>16. CASE UNCHANGED vars
  BY <1>16 DEF vars
<1> QED
  BY <1>1, <1>2, <1>3, <1>4, <1>5, <1>6, <1>7, <1>8, <1>9, <1>10, <1>11, <1>12, <1>13, <1>14, <1>15, <1>16 DEF Next

\* A thread on its way in or out takes no advisory lock, and keeps one only where it
\* will still release it or its unlock has failed: the others' are untouched.
LEMMA OffOwners ==
  ASSUME LockInv, NEW t \in Threads, NEW f, NEW n, NEW a, NEW c, Moves(t, f, n, a, c),
         UNCHANGED unreleased, \A m \in Names : pgLock'[m] \subseteq pgLock[m],
         \A m \in Names : t \in pgLock'[m] =>
           n = m /\ f # "idle" /\ c = "open" /\ (f = "closing" => <<ProcessOf[t], m>> \in unreleased)
  PROVE  PgOwned'
<1> SUFFICES ASSUME NEW m \in Names, NEW u \in pgLock'[m]
             PROVE  Inside(u, m)' /\ job'[u].conn = "open"
                    /\ (job'[u].phase = "closing" => Slot(u)' \in unreleased')
  BY DEF PgOwned
<1>1. u \in pgLock[m] /\ u \in Threads BY DEF LockInv, TypeOK
<1>2. CASE u = t BY <1>2 DEF Moves, Inside, Slot
<1>3. CASE u # t
  <2>1. Inside(u, m) /\ job[u].conn = "open" /\ (job[u].phase = "closing" => Slot(u) \in unreleased)
    BY <1>1 DEF LockInv, LocksHaveOwners
  <2>2. job'[u] = job[u] BY <1>1, <1>3 DEF Moves
  <2> QED BY <2>1, <2>2 DEF Inside, Slot
<1> QED BY <1>2, <1>3

\* The rest of the invariant for such a thread: the advisory locks of the others are
\* untouched, and it is in no phase in which its own must be held.
LEMMA OffLocks ==
  ASSUME LockInv, NEW t \in Threads, NEW f \in {"idle", "local", "closing", "unlocking"},
         NEW n, NEW a \in BOOLEAN, NEW c, Moves(t, f, n, a, c),
         c # "none" => f = "closing", f = "local" => ~a,
         \A m \in Names : pgLock'[m] \subseteq pgLock[m] /\ pgLock[m] \ {t} \subseteq pgLock'[m],
         \A m \in Names : t \in pgLock'[m] => a
  PROVE  /\ Connected' /\ PgHeld'
         /\ \A m \in Names : \A u \in pgLock'[m] : pgLock'[m] = {u} /\ job'[u].acquiredPg
<1>1. job \in [Threads -> JobRecords] BY DEF LockInv, TypeOK, JobRecords
<1>2. \A u \in Threads : u # t => job'[u] = job[u] BY DEF Moves
<1>3. job'[t].phase = f /\ job'[t].acquiredPg = a /\ job'[t].conn = c BY DEF Moves
<1>4. Connected'
  BY <1>2, <1>3 DEF LockInv, Connected
<1>5. PgHeld'
  <2> SUFFICES ASSUME NEW u \in Threads, job'[u].phase \in {"running", "leaving"},
                      job'[u].acquiredPg, job'[u].conn = "open"
               PROVE  u \in pgLock'[job'[u].name]
    BY DEF PgHeld
  <2>1. u # t /\ job'[u] = job[u] BY <1>2, <1>3
  <2>2. u \in pgLock[job[u].name] BY <2>1 DEF LockInv, PgHeld
  <2>3. job[u].name \in Names BY <2>1 DEF LockInv, TypeOK
  <2> QED BY <2>1, <2>2, <2>3
<1>6. ASSUME NEW m \in Names, NEW u \in pgLock'[m] PROVE pgLock'[m] = {u} /\ job'[u].acquiredPg
  <2>1. u \in pgLock[m] /\ u \in Threads BY <1>6 DEF LockInv, TypeOK
  <2>2. pgLock[m] = {u} /\ job[u].acquiredPg BY <2>1 DEF LockInv, OneHolder
  <2> QED BY <1>2, <1>3, <1>6, <2>1, <2>2
<1> QED BY <1>4, <1>5, <1>6

\* A thread that takes its local lock.
LEMMA EnterKeeps ==
  ASSUME LockInv, NEW t \in Threads, NEW n \in Names, AcquireLocal(t, n)
  PROVE  LocksHaveOwners' /\ Connected' /\ PgHeld' /\ OneHolder'
<1>1. Moves(t, "local", n, FALSE, "none") BY EnteredMoves DEF AcquireLocal, LockInv
<1>2. /\ job[t].phase = "idle" /\ localLock[ProcessOf[t]][n] = {}
      /\ localLock' = [localLock EXCEPT ![ProcessOf[t]][n] = {t}]
      /\ UNCHANGED <<pgLock, pooled, unreleased, stuck>>
  BY DEF AcquireLocal, LocalHolders
<1>3. \A m \in Names : t \notin pgLock'[m]
  BY <1>2 DEF LockInv, LocksHaveOwners, Inside
<1>4. LocalOwned'
  <2> SUFFICES ASSUME NEW p \in Processes, NEW m \in Names, NEW u \in localLock'[p][m]
               PROVE  ProcessOf[u] = p /\ (Inside(u, m)' \/ <<p, m>> \in stuck')
    BY DEF LocalOwned
  <2>1. CASE p = ProcessOf[t] /\ m = n
    BY <1>1, <1>2, <2>1 DEF Moves, Inside, LockInv, TypeOK
  <2>2. CASE ~(p = ProcessOf[t] /\ m = n)
    <3>1. u \in localLock[p][m] /\ u \in Threads BY <1>2, <2>2 DEF LockInv, TypeOK
    <3>2. ProcessOf[u] = p /\ (Inside(u, m) \/ <<p, m>> \in stuck) BY <3>1 DEF LockInv, LocksHaveOwners
    <3> QED BY <1>1, <1>2, <3>1, <3>2 DEF Moves, Inside
  <2> QED BY <2>1, <2>2
<1>5. PgOwned' BY <1>1, <1>2, <1>3, OffOwners
<1>6. Connected' /\ PgHeld' /\ OneHolder'
  <2>1. "local" \in {"idle", "local", "closing", "unlocking"} /\ FALSE \in BOOLEAN OBVIOUS
  <2>2. /\ Connected' /\ PgHeld'
        /\ \A m \in Names : \A u \in pgLock'[m] : pgLock'[m] = {u} /\ job'[u].acquiredPg
    BY <1>1, <1>2, <1>3, <2>1, OffLocks
  <2> QED BY <1>2, <2>2 DEF OneHolder, LockInv
<1> QED BY <1>2, <1>4, <1>5, <1>6 DEF LocksHaveOwners, LocalOwned, PgOwned, LockInv

\* A thread that is to close its connection, or has no connection any more.
LEMMA UnlockKeeps ==
  ASSUME LockInv, NEW t \in Threads, Unlock(t)
  PROVE  LocksHaveOwners' /\ Connected' /\ PgHeld' /\ OneHolder'
<1>1. PICK c : c = IF job[t].acquiredPg /\ job[t].conn = "lost" THEN "none" ELSE job[t].conn OBVIOUS
<1>2. Moves(t, "closing", job[t].name, job[t].acquiredPg, c) BY <1>1, UnlockMoves DEF LockInv
<1>3. /\ job[t].phase = "leaving"
      /\ pgLock' = IF job[t].acquiredPg /\ Slot(t) \notin unreleased
                     THEN [pgLock EXCEPT ![job[t].name] = @ \ {t}] ELSE pgLock
      /\ UNCHANGED <<localLock, pooled, unreleased, stuck>>
  BY DEF Unlock, Name
<1>4. job[t].name \in Names /\ job[t].acquiredPg \in BOOLEAN /\ pgLock \in [Names -> SUBSET Threads]
  BY <1>3 DEF LockInv, TypeOK
<1>5. ASSUME NEW m \in Names, t \in pgLock[m]
      PROVE  job[t].name = m /\ job[t].conn = "open" /\ job[t].acquiredPg
  BY <1>5 DEF LockInv, LocksHaveOwners, OneHolder, Inside
<1>6. \A m \in Names : pgLock'[m] \subseteq pgLock[m] /\ pgLock[m] \ {t} \subseteq pgLock'[m]
  BY <1>3, <1>4
<1>7. \A m \in Names : t \in pgLock'[m] =>
        job[t].name = m /\ c = "open" /\ job[t].acquiredPg /\ <<ProcessOf[t], m>> \in unreleased
  <2> SUFFICES ASSUME NEW m \in Names, t \in pgLock'[m]
               PROVE  job[t].name = m /\ c = "open" /\ job[t].acquiredPg
                      /\ <<ProcessOf[t], m>> \in unreleased
    OBVIOUS
  <2>1. job[t].name = m /\ job[t].conn = "open" /\ job[t].acquiredPg BY <1>5, <1>6
  <2> QED BY <1>1, <1>3, <1>4, <2>1 DEF Slot
<1>8. LocalOwned'
  <2> SUFFICES ASSUME NEW p \in Processes, NEW m \in Names, NEW u \in localLock[p][m]
               PROVE  ProcessOf[u] = p /\ (Inside(u, m)' \/ <<p, m>> \in stuck')
    BY <1>3 DEF LocalOwned
  <2>1. u \in Threads BY DEF LockInv, TypeOK
  <2>2. ProcessOf[u] = p /\ (Inside(u, m) \/ <<p, m>> \in stuck) BY DEF LockInv, LocksHaveOwners
  <2>3. job'[u].name = job[u].name /\ (job[u].phase # "idle" => job'[u].phase # "idle")
    BY <1>2, <2>1 DEF Moves
  <2> QED BY <1>3, <2>2, <2>3 DEF Inside
<1>9. PgOwned' BY <1>2, <1>3, <1>6, <1>7, OffOwners
<1>10. Connected' /\ PgHeld' /\ OneHolder'
  <2>1. "closing" \in {"idle", "local", "closing", "unlocking"} OBVIOUS
  <2>2. /\ Connected' /\ PgHeld'
        /\ \A m \in Names : \A u \in pgLock'[m] : pgLock'[m] = {u} /\ job'[u].acquiredPg
    <3>1. PICK a \in BOOLEAN : a = job[t].acquiredPg BY <1>4
    <3>2. Moves(t, "closing", job[t].name, a, c) BY <1>2, <3>1
    <3>3. \A m \in Names : t \in pgLock'[m] => a BY <1>7, <3>1
    <3> QED BY <1>6, <2>1, <3>2, <3>3, OffLocks
  <2>3. ASSUME NEW slot \in pooled PROVE pgLock'[slot[2]] = {}
    BY <1>6, <2>3 DEF LockInv, TypeOK, Slots, OneHolder
  <2> QED BY <1>3, <2>2, <2>3 DEF OneHolder, LockInv
<1> QED BY <1>3, <1>8, <1>9, <1>10 DEF LocksHaveOwners, LocalOwned, PgOwned, LockInv

\* A thread whose connection goes back to the pool, with the lock or without.
LEMMA CloseKeeps ==
  ASSUME LockInv, NEW t \in Threads, Close(t)
  PROVE  Connected' /\ PgHeld' /\ OneHolder'
<1>1. Moves(t, "unlocking", job[t].name, job[t].acquiredPg, "none") BY CloseMoves DEF LockInv
<1>2. /\ job[t].phase = "closing" /\ pgLock' = [pgLock EXCEPT ![job[t].name] = @ \ {t}]
      /\ pooled' = pooled \/ (pooled' = pooled \cup {Slot(t)} /\ t \in pgLock[job[t].name])
  BY DEF Close, Name
<1>3. job[t].name \in Names /\ job[t].acquiredPg \in BOOLEAN /\ pgLock \in [Names -> SUBSET Threads]
  BY <1>2 DEF LockInv, TypeOK
<1>4. \A m \in Names : pgLock'[m] \subseteq pgLock[m] /\ pgLock[m] \ {t} \subseteq pgLock'[m]
  BY <1>2, <1>3
<1>5. \A m \in Names : t \notin pgLock'[m]
  BY <1>2, <1>3 DEF LockInv, LocksHaveOwners, Inside
<1>6. "unlocking" \in {"idle", "local", "closing", "unlocking"} OBVIOUS
<1>7. /\ Connected' /\ PgHeld'
      /\ \A m \in Names : \A u \in pgLock'[m] : pgLock'[m] = {u} /\ job'[u].acquiredPg
  BY <1>1, <1>3, <1>4, <1>5, <1>6, OffLocks
<1>8. ASSUME NEW slot \in pooled
      PROVE  pgLock[slot[2]] = {} /\ slot[2] \in Names /\ \A other \in pooled : other[2] = slot[2] => other = slot
  BY <1>8 DEF LockInv, TypeOK, Slots, OneHolder
<1>9. CASE pooled' = pooled BY <1>4, <1>7, <1>8, <1>9 DEF OneHolder
<1>10. CASE pooled' = pooled \cup {Slot(t)} /\ t \in pgLock[job[t].name]
  <2>1. pgLock'[job[t].name] = {} BY <1>2, <1>3, <1>10 DEF LockInv, OneHolder
  <2>2. Slot(t)[2] = job[t].name BY DEF Slot
  <2>3. \A slot \in pooled : slot[2] # job[t].name BY <1>8, <1>10
  <2>4. \A slot \in pooled' : pgLock'[slot[2]] = {} BY <1>4, <1>8, <1>10, <2>1, <2>2
  <2>5. \A slot, other \in pooled' : other[2] = slot[2] => other = slot BY <1>8, <1>10, <2>2, <2>3
  <2> QED BY <1>7, <2>4, <2>5 DEF OneHolder
<1> QED BY <1>2, <1>7, <1>9, <1>10

\* A thread whose close() raises leaves its local lock behind, and has no other.
LEMMA RaiseKeeps ==
  ASSUME LockInv, NEW t \in Threads, CloseRaises(t)
  PROVE  LocksHaveOwners' /\ Connected' /\ PgHeld' /\ OneHolder'
<1>1. Moves(t, "idle", NoJob, FALSE, "none") BY OutsideMoves DEF CloseRaises, LockInv
<1>2. /\ job[t].phase = "closing" /\ job[t].conn = "lost" /\ stuck' = stuck \cup {Slot(t)}
      /\ UNCHANGED <<localLock, pgLock, pooled, unreleased>>
  BY DEF CloseRaises
<1>3. \A m \in Names : t \notin pgLock'[m] BY <1>2 DEF LockInv, LocksHaveOwners
<1>4. LocalOwned'
  <2> SUFFICES ASSUME NEW p \in Processes, NEW m \in Names, NEW u \in localLock[p][m]
               PROVE  ProcessOf[u] = p /\ (Inside(u, m)' \/ <<p, m>> \in stuck')
    BY <1>2 DEF LocalOwned
  <2>1. u \in Threads BY DEF LockInv, TypeOK
  <2>2. ProcessOf[u] = p /\ (Inside(u, m) \/ <<p, m>> \in stuck) BY DEF LockInv, LocksHaveOwners
  <2>3. CASE u = t BY <1>2, <2>2, <2>3 DEF Inside, Slot
  <2>4. CASE u # t BY <1>1, <1>2, <2>1, <2>2, <2>4 DEF Inside, Moves
  <2> QED BY <2>3, <2>4
<1>5. PgOwned' BY <1>1, <1>2, <1>3, OffOwners
<1>6. Connected' /\ PgHeld' /\ OneHolder'
  <2>1. "idle" \in {"idle", "local", "closing", "unlocking"} /\ FALSE \in BOOLEAN OBVIOUS
  <2>2. /\ Connected' /\ PgHeld'
        /\ \A m \in Names : \A u \in pgLock'[m] : pgLock'[m] = {u} /\ job'[u].acquiredPg
    BY <1>1, <1>2, <1>3, <2>1, OffLocks
  <2> QED BY <1>2, <2>2 DEF OneHolder, LockInv
<1> QED BY <1>2, <1>4, <1>5, <1>6 DEF LocksHaveOwners, LocalOwned, PgOwned, LockInv

\* A thread that releases its local lock, the last thing it does.
LEMMA ReleaseKeeps ==
  ASSUME LockInv, NEW t \in Threads, ReleaseLocal(t)
  PROVE  LocksHaveOwners' /\ Connected' /\ PgHeld' /\ OneHolder'
<1>1. Moves(t, "idle", NoJob, FALSE, "none") BY OutsideMoves DEF ReleaseLocal, LockInv
<1>2. /\ job[t].phase = "unlocking"
      /\ localLock' = [localLock EXCEPT ![ProcessOf[t]][job[t].name] = {}]
      /\ UNCHANGED <<pgLock, pooled, unreleased, stuck>>
  BY DEF ReleaseLocal, Name
<1>3. \A m \in Names : t \notin pgLock'[m]
  BY <1>2 DEF LockInv, LocksHaveOwners, Connected
<1>4. LocalOwned'
  <2> SUFFICES ASSUME NEW p \in Processes, NEW m \in Names, NEW u \in localLock'[p][m]
               PROVE  ProcessOf[u] = p /\ (Inside(u, m)' \/ <<p, m>> \in stuck')
    BY DEF LocalOwned
  <2>1. u \in localLock[p][m] /\ u \in Threads /\ ~(p = ProcessOf[t] /\ m = job[t].name)
    BY <1>2 DEF LockInv, TypeOK
  <2>2. ProcessOf[u] = p /\ (Inside(u, m) \/ <<p, m>> \in stuck) BY <2>1 DEF LockInv, LocksHaveOwners
  <2>3. CASE u = t BY <1>2, <2>1, <2>2, <2>3 DEF Inside
  <2>4. CASE u # t BY <1>1, <1>2, <2>1, <2>2, <2>4 DEF Inside, Moves
  <2> QED BY <2>3, <2>4
<1>5. PgOwned' BY <1>1, <1>2, <1>3, OffOwners
<1>6. Connected' /\ PgHeld' /\ OneHolder'
  <2>1. "idle" \in {"idle", "local", "closing", "unlocking"} /\ FALSE \in BOOLEAN OBVIOUS
  <2>2. /\ Connected' /\ PgHeld'
        /\ \A m \in Names : \A u \in pgLock'[m] : pgLock'[m] = {u} /\ job'[u].acquiredPg
    BY <1>1, <1>2, <1>3, <2>1, OffLocks
  <2> QED BY <1>2, <2>2 DEF OneHolder, LockInv
<1> QED BY <1>2, <1>4, <1>5, <1>6 DEF LocksHaveOwners, LocalOwned, PgOwned, LockInv

\* A taken lock keeps belonging to a thread inside, or is left behind in one of the
\* two ways.
LEMMA StepOwners == LockInv /\ [Next]_vars => LocksHaveOwners'
<1> SUFFICES ASSUME LockInv, [Next]_vars PROVE LocksHaveOwners'
  OBVIOUS
<1>0. /\ \A t \in Threads : ProcessOf[t] \in Processes
      /\ \A t \in Threads : job[t].phase # "idle" => job[t].name \in Names /\ Slot(t) \in Slots
  BY SlotFacts DEF LockInv
<1>1. ASSUME NEW t \in Threads, NEW n \in Names, AcquireLocal(t, n) PROVE LocksHaveOwners'
  BY <1>1, EnterKeeps
<1>8. ASSUME NEW t \in Threads, Unlock(t) PROVE LocksHaveOwners'
  BY <1>8, UnlockKeeps
<1>11. ASSUME NEW t \in Threads, CloseRaises(t) PROVE LocksHaveOwners'
  BY <1>11, RaiseKeeps
<1>12. ASSUME NEW t \in Threads, ReleaseLocal(t) PROVE LocksHaveOwners'
  BY <1>12, ReleaseKeeps
<1> USE ThreadsAssumption, NamesAssumption
    DEF LockInv, TypeOK, Phases, NoJob, Connections, Name, Slot, Fail, Outside, Entered, LocksHaveOwners, LocalHeld, LocalHolders, Connected, OneHolder, Inside, Others, Slots
<1>2. ASSUME NEW t \in Threads, AcquirePg(t) PROVE LocksHaveOwners'
  BY <1>2, <1>0 DEF AcquirePg, Acquired
<1>3. ASSUME NEW t \in Threads, AcquireKept(t) PROVE LocksHaveOwners'
  BY <1>3, <1>0 DEF AcquireKept, Acquired
<1>4. ASSUME NEW t \in Threads, RefusedPg(t) PROVE LocksHaveOwners'
  BY <1>4, <1>0 DEF RefusedPg
<1>5. ASSUME NEW t \in Threads, ConnectionFails(t) PROVE LocksHaveOwners'
  BY <1>5, <1>0 DEF ConnectionFails
<1>6. ASSUME NEW t \in Threads, SkipPg(t) PROVE LocksHaveOwners'
  BY <1>6, <1>0 DEF SkipPg
<1>7. ASSUME NEW t \in Threads, BodyEnds(t) PROVE LocksHaveOwners'
  BY <1>7, <1>0 DEF BodyEnds
<1>9. ASSUME NEW t \in Threads, UnlockFails(t) PROVE LocksHaveOwners'
  BY <1>9, <1>0 DEF UnlockFails
<1>10. ASSUME NEW t \in Threads, Close(t) PROVE LocksHaveOwners'
  BY <1>10, <1>0 DEF Close
<1>13. ASSUME NEW t \in Threads, ConnectionLost(t) PROVE LocksHaveOwners'
  BY <1>13, <1>0 DEF ConnectionLost
<1>14. ASSUME NEW slot \in pooled, PooledEnds(slot) PROVE LocksHaveOwners'
  BY <1>14, <1>0 DEF PooledEnds
<1>15. ASSUME NEW p \in Processes, Crash(p) PROVE LocksHaveOwners'
  BY <1>15, <1>0 DEF Crash
<1>16. CASE UNCHANGED vars
  BY <1>16 DEF vars
<1> QED
  BY <1>1, <1>2, <1>3, <1>4, <1>5, <1>6, <1>7, <1>8, <1>9, <1>10, <1>11, <1>12, <1>13, <1>14, <1>15, <1>16 DEF Next

\* The local locks: a thread takes a free one, and releases its own only.
LEMMA StepLocal == LockInv /\ [Next]_vars => LocalHeld'
<1> SUFFICES ASSUME LockInv, [Next]_vars PROVE LocalHeld'
  OBVIOUS
<1>0. /\ \A t \in Threads : ProcessOf[t] \in Processes
      /\ \A t \in Threads : job[t].phase # "idle" => job[t].name \in Names /\ Slot(t) \in Slots
  BY SlotFacts DEF LockInv
<1> USE ThreadsAssumption, NamesAssumption
    DEF LockInv, TypeOK, Phases, NoJob, Connections, Name, Slot, Fail, Outside, Entered, LocalHeld, LocalHolders
<1>1. ASSUME NEW t \in Threads, NEW n \in Names, AcquireLocal(t, n) PROVE LocalHeld'
  BY <1>1, <1>0 DEF AcquireLocal
<1>2. ASSUME NEW t \in Threads, AcquirePg(t) PROVE LocalHeld'
  BY <1>2, <1>0 DEF AcquirePg, Acquired
<1>3. ASSUME NEW t \in Threads, AcquireKept(t) PROVE LocalHeld'
  BY <1>3, <1>0 DEF AcquireKept, Acquired
<1>4. ASSUME NEW t \in Threads, RefusedPg(t) PROVE LocalHeld'
  BY <1>4, <1>0 DEF RefusedPg
<1>5. ASSUME NEW t \in Threads, ConnectionFails(t) PROVE LocalHeld'
  BY <1>5, <1>0 DEF ConnectionFails
<1>6. ASSUME NEW t \in Threads, SkipPg(t) PROVE LocalHeld'
  BY <1>6, <1>0 DEF SkipPg
<1>7. ASSUME NEW t \in Threads, BodyEnds(t) PROVE LocalHeld'
  BY <1>7, <1>0 DEF BodyEnds
<1>8. ASSUME NEW t \in Threads, Unlock(t) PROVE LocalHeld'
  BY <1>8, <1>0 DEF Unlock
<1>9. ASSUME NEW t \in Threads, UnlockFails(t) PROVE LocalHeld'
  BY <1>9, <1>0 DEF UnlockFails
<1>10. ASSUME NEW t \in Threads, Close(t) PROVE LocalHeld'
  BY <1>10, <1>0 DEF Close
<1>11. ASSUME NEW t \in Threads, CloseRaises(t) PROVE LocalHeld'
  BY <1>11, <1>0 DEF CloseRaises
<1>12. ASSUME NEW t \in Threads, ReleaseLocal(t) PROVE LocalHeld'
  BY <1>12, <1>0 DEF ReleaseLocal
<1>13. ASSUME NEW t \in Threads, ConnectionLost(t) PROVE LocalHeld'
  BY <1>13, <1>0 DEF ConnectionLost
<1>14. ASSUME NEW slot \in pooled, PooledEnds(slot) PROVE LocalHeld'
  BY <1>14, <1>0 DEF PooledEnds
<1>15. ASSUME NEW p \in Processes, Crash(p) PROVE LocalHeld'
  BY <1>15, <1>0 DEF Crash
<1>16. CASE UNCHANGED vars
  BY <1>16 DEF vars
<1> QED
  BY <1>1, <1>2, <1>3, <1>4, <1>5, <1>6, <1>7, <1>8, <1>9, <1>10, <1>11, <1>12, <1>13, <1>14, <1>15, <1>16 DEF Next

\* The advisory locks: the server gives one out only when it is free or to the
\* session that holds it, and the flag acquiredPg is set with it.
LEMMA StepPg == LockInv /\ [Next]_vars => (Connected /\ PgHeld /\ OneHolder)'
<1> SUFFICES ASSUME LockInv, [Next]_vars PROVE (Connected /\ PgHeld /\ OneHolder)'
  OBVIOUS
<1>0. /\ \A t \in Threads : ProcessOf[t] \in Processes
      /\ \A t \in Threads : job[t].phase # "idle" => job[t].name \in Names /\ Slot(t) \in Slots
  BY SlotFacts DEF LockInv
<1>1. ASSUME NEW t \in Threads, NEW n \in Names, AcquireLocal(t, n) PROVE (Connected /\ PgHeld /\ OneHolder)'
  BY <1>1, EnterKeeps
<1>8. ASSUME NEW t \in Threads, Unlock(t) PROVE (Connected /\ PgHeld /\ OneHolder)'
  BY <1>8, UnlockKeeps
<1>10. ASSUME NEW t \in Threads, Close(t) PROVE (Connected /\ PgHeld /\ OneHolder)'
  BY <1>10, CloseKeeps
<1>11. ASSUME NEW t \in Threads, CloseRaises(t) PROVE (Connected /\ PgHeld /\ OneHolder)'
  BY <1>11, RaiseKeeps
<1>12. ASSUME NEW t \in Threads, ReleaseLocal(t) PROVE (Connected /\ PgHeld /\ OneHolder)'
  BY <1>12, ReleaseKeeps
<1> USE ThreadsAssumption, NamesAssumption
    DEF LockInv, TypeOK, Phases, NoJob, Connections, Name, Slot, Fail, Outside, Entered, LocksHaveOwners, Connected, PgHeld, OneHolder, Inside, Others, Slots, Free
<1>2. ASSUME NEW t \in Threads, AcquirePg(t) PROVE (Connected /\ PgHeld /\ OneHolder)'
  BY <1>2, <1>0 DEF AcquirePg, Acquired
<1>3. ASSUME NEW t \in Threads, AcquireKept(t) PROVE (Connected /\ PgHeld /\ OneHolder)'
  BY <1>3, <1>0 DEF AcquireKept, Acquired
<1>4. ASSUME NEW t \in Threads, RefusedPg(t) PROVE (Connected /\ PgHeld /\ OneHolder)'
  BY <1>4, <1>0 DEF RefusedPg
<1>5. ASSUME NEW t \in Threads, ConnectionFails(t) PROVE (Connected /\ PgHeld /\ OneHolder)'
  BY <1>5, <1>0 DEF ConnectionFails
<1>6. ASSUME NEW t \in Threads, SkipPg(t) PROVE (Connected /\ PgHeld /\ OneHolder)'
  BY <1>6, <1>0 DEF SkipPg
<1>7. ASSUME NEW t \in Threads, BodyEnds(t) PROVE (Connected /\ PgHeld /\ OneHolder)'
  BY <1>7, <1>0 DEF BodyEnds
<1>9. ASSUME NEW t \in Threads, UnlockFails(t) PROVE (Connected /\ PgHeld /\ OneHolder)'
  BY <1>9, <1>0 DEF UnlockFails
<1>13. ASSUME NEW t \in Threads, ConnectionLost(t) PROVE (Connected /\ PgHeld /\ OneHolder)'
  BY <1>13, <1>0 DEF ConnectionLost
<1>14. ASSUME NEW slot \in pooled, PooledEnds(slot) PROVE (Connected /\ PgHeld /\ OneHolder)'
  BY <1>14, <1>0 DEF PooledEnds
<1>15. ASSUME NEW p \in Processes, Crash(p) PROVE (Connected /\ PgHeld /\ OneHolder)'
  BY <1>15, <1>0 DEF Crash
<1>16. CASE UNCHANGED vars
  BY <1>16 DEF vars
<1> QED
  BY <1>1, <1>2, <1>3, <1>4, <1>5, <1>6, <1>7, <1>8, <1>9, <1>10, <1>11, <1>12, <1>13, <1>14, <1>15, <1>16 DEF Next

\* The lock invariant holds in every state of job_lock.
LEMMA LocksInvariant == Spec => []LockInv
<1>1. LockInv /\ [Next]_vars => LockInv'
  BY StepTypes, StepOwners, StepLocal, StepPg DEF LockInv
<1> QED
  BY InitLocks, <1>1, PTL DEF Spec

-------------------------------------------------------------------------------

\* The same job never runs twice in one process: its threads share one
\* threading lock, released last.
THEOREM InProcessExclusion == Spec => []ExclusiveInProcess
<1>1. LockInv => ExclusiveInProcess
  BY DEF LockInv, LocalHeld, LocalHolders, ExclusiveInProcess, Running
<1> QED
  BY LocksInvariant, <1>1, PTL

\* A job with an advisory lock id runs twice, in any two processes, only after
\* one of the two lost the connection that held the lock.
THEOREM CrossProcessExclusion == Spec => []ExclusiveAcrossProcesses
<1>1. LockInv => ExclusiveAcrossProcesses
  BY NamesAssumption
  DEF LockInv, TypeOK, Connections, Connected, PgHeld, OneHolder, ExclusiveAcrossProcesses, Running
<1> QED
  BY LocksInvariant, <1>1, PTL

\* A lock that no thread inside job_lock will release is a local one whose
\* request ended with close() raising, or an advisory one whose unlock failed.
THEOREM LocksAreOwned == Spec => []LocksHaveOwners
  BY LocksInvariant, PTL DEF LockInv
===============================================================================
