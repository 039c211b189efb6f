--------------------------- MODULE FetchLimiterProofs ---------------------------
(***************************************************************************)
(* The rate of a company's fetches holds for any messages, any rate and    *)
(* any length of a second.                                                 *)
(***************************************************************************)
EXTENDS FetchLimiter, FiniteSetTheorems, TLAPS

-------------------------------------------------------------------------------
(* The inductive invariant.  A permit is counted by its timer, the rate by *)
(* the fetches that began within a second: what joins them is that a timer *)
(* fires no earlier than a second after its fetch began.                   *)

\* A record with the fields of a limiter.
IsLimiter(limiter) ==
  limiter = [free |-> limiter.free, waiters |-> limiter.waiters, timers |-> limiter.timers]

\* A limiter of company k accounts for its permits, and its fetches are k's.
GoodLimiter(k, limiter) ==
  /\ IsLimiter(limiter)
  /\ limiter.free \in Nat
  /\ limiter.waiters \in Seq(Fetches) /\ IsInjective(limiter.waiters)
  /\ limiter.timers \subseteq Fetches /\ IsFiniteSet(limiter.timers)
  /\ limiter.free + Cardinality(limiter.timers) = MaxRps
  /\ \A f \in limiter.timers \cup Range(limiter.waiters) : CompanyKey(f) = k

GoodFetch(fetch) ==
  /\ fetch = [phase |-> fetch.phase, attempt |-> fetch.attempt, wait |-> fetch.wait,
              age |-> fetch.age]
  /\ fetch.phase \in {"not read", "started", "waiting", "requesting", "sleeping", "done"}
  /\ fetch.attempt \in 0..MaxAttempts
  /\ fetch.wait \in 0..(Second * MaxAttempts)
  /\ fetch.age \in 0..Second
  /\ fetch.phase = "sleeping" => fetch.attempt < MaxAttempts

Timers(k) == IF k \in DOMAIN limiters THEN limiters[k].timers ELSE {}

LimiterInv ==
  /\ DOMAIN limiters \subseteq Keys
  /\ \A k \in DOMAIN limiters : GoodLimiter(k, limiters[k])
  /\ DOMAIN fetches = Fetches
  /\ \A f \in Fetches :
       /\ GoodFetch(fetches[f])
       /\ fetches[f].phase = "waiting" <=> f \in Waiters(CompanyKey(f))
       /\ f \in Timers(CompanyKey(f)) => fetches[f].phase \in {"requesting", "sleeping", "done"}
       /\ fetches[f].age < Second => f \in Timers(CompanyKey(f))

-------------------------------------------------------------------------------
(* Operations on one limiter.                                              *)

\* A waiter joins the queue.
LEMMA AppendFacts ==
  ASSUME NEW S, NEW s \in Seq(S), IsInjective(s), NEW x \in S, x \notin Range(s),
         NEW t, t = Append(s, x)
  PROVE  /\ t \in Seq(S) /\ IsInjective(t)
         /\ \A y : y \in Range(t) <=> y \in Range(s) \/ y = x
<1>1. /\ t \in Seq(S) /\ Len(s) \in Nat /\ DOMAIN t = 1..Len(s) + 1 /\ DOMAIN s = 1..Len(s)
      /\ \A i \in 1..Len(s) : t[i] = s[i]
      /\ t[Len(s) + 1] = x
  OBVIOUS
<1>2. ASSUME NEW y \in Range(t) PROVE y \in Range(s) \cup {x} BY <1>1 DEF Range
<1>3. ASSUME NEW y \in Range(s) \cup {x} PROVE y \in Range(t) BY <1>1 DEF Range
<1>4. \A i, j \in 1..Len(s) : s[i] = s[j] => i = j BY <1>1 DEF IsInjective
<1>5. \A i \in 1..Len(s) : s[i] # x BY <1>1 DEF Range
<1>6. \A i, j \in 1..Len(s) + 1 : t[i] = t[j] => i = j BY <1>1, <1>4, <1>5
<1>7. IsInjective(t) BY <1>1, <1>6 DEF IsInjective
<1> QED BY <1>1, <1>2, <1>3, <1>7

\* The first waiter leaves the queue.
LEMMA TailFacts ==
  ASSUME NEW S, NEW s \in Seq(S), IsInjective(s), s # <<>>, NEW x, x = Head(s),
         NEW t, t = Tail(s)
  PROVE  /\ t \in Seq(S) /\ IsInjective(t) /\ x \in S /\ x \in Range(s)
         /\ Range(t) = Range(s) \ {x}
<1>1. /\ t \in Seq(S) /\ Len(s) \in Nat /\ Len(s) >= 1
      /\ DOMAIN t = 1..Len(s) - 1 /\ DOMAIN s = 1..Len(s)
      /\ \A i \in 1..Len(s) - 1 : t[i] = s[i + 1]
      /\ x = s[1] /\ x \in S
  OBVIOUS
<1>2. \A i, j \in 1..Len(s) : s[i] = s[j] => i = j BY <1>1 DEF IsInjective
<1>3. \A i \in 1..Len(s) - 1 : i + 1 \in 1..Len(s) BY <1>1
<1>4. \A i, j \in 1..Len(s) - 1 : t[i] = t[j] => i = j
  <2> SUFFICES ASSUME NEW i \in 1..Len(s) - 1, NEW j \in 1..Len(s) - 1, t[i] = t[j] PROVE i = j
    OBVIOUS
  <2>1. i + 1 = j + 1 BY <1>1, <1>2, <1>3
  <2> QED BY <2>1
<1>5. IsInjective(t) BY <1>1, <1>4 DEF IsInjective
<1>6. x \in Range(s) BY <1>1 DEF Range
<1>7. ASSUME NEW y \in Range(t) PROVE y \in Range(s) \ {x} BY <1>1, <1>2, <1>3 DEF Range
<1>8. ASSUME NEW y \in Range(s) \ {x} PROVE y \in Range(t)
  <2>1. PICK i \in 1..Len(s) : y = s[i] BY <1>1 DEF Range
  <2>2. i - 1 \in 1..Len(s) - 1 /\ (i - 1) + 1 = i BY <1>1, <2>1
  <2>3. t[i - 1] = y BY <1>1, <2>1, <2>2
  <2> QED BY <1>1, <2>2, <2>3 DEF Range
<1> QED BY <1>1, <1>5, <1>6, <1>7, <1>8

\* What the two halves of semaphore.acquire make of a limiter.
Queued(limiter, f, new) ==
  /\ IsLimiter(new) /\ new.free = limiter.free /\ new.timers = limiter.timers
  /\ new.waiters = Append(limiter.waiters, f)
Granted(limiter, f, new) ==
  /\ limiter.free > 0 /\ limiter.waiters # <<>> /\ f = Head(limiter.waiters)
  /\ IsLimiter(new) /\ new.free = limiter.free - 1 /\ new.waiters = Tail(limiter.waiters)
  /\ new.timers = limiter.timers \cup {f}

\* semaphore.acquire has to wait.
LEMMA Enqueues ==
  ASSUME NEW k, NEW f \in Fetches, CompanyKey(f) = k, NEW limiter, GoodLimiter(k, limiter),
         f \notin Range(limiter.waiters), NEW new, Queued(limiter, f, new)
  PROVE  GoodLimiter(k, new) /\ Range(new.waiters) = Range(limiter.waiters) \cup {f}
<1>2. PICK s, t : s = limiter.waiters /\ t = new.waiters OBVIOUS
<1>3. s \in Seq(Fetches) /\ IsInjective(s) /\ t = Append(s, f) /\ f \notin Range(s)
  BY <1>2 DEF GoodLimiter, Queued
<1>4. t \in Seq(Fetches) /\ IsInjective(t) BY <1>3, AppendFacts
<1>5. Range(t) = Range(s) \cup {f}
  <2>1. \A y : y \in Range(t) <=> y \in Range(s) \/ y = f BY <1>3, AppendFacts
  <2> QED BY <2>1
<1> QED BY <1>2, <1>4, <1>5 DEF GoodLimiter, Queued

\* semaphore.acquire returns and the timer of the permit starts.
LEMMA Dequeues ==
  ASSUME NEW k, NEW f, NEW limiter, GoodLimiter(k, limiter), f \notin limiter.timers,
         NEW new, Granted(limiter, f, new)
  PROVE  GoodLimiter(k, new) /\ Range(new.waiters) = Range(limiter.waiters) \ {f}
<1>2. PICK s, t : s = limiter.waiters /\ t = new.waiters OBVIOUS
<1>3. s \in Seq(Fetches) /\ IsInjective(s) /\ t = Tail(s) /\ s # <<>> /\ f = Head(s)
  BY <1>2 DEF GoodLimiter, Granted
<1>4. /\ t \in Seq(Fetches) /\ IsInjective(t) /\ f \in Fetches /\ f \in Range(s)
      /\ Range(t) = Range(s) \ {f}
  BY <1>3, TailFacts
<1>5. PICK old : old = limiter.timers OBVIOUS
<1>6. IsFiniteSet(old) /\ f \notin old /\ new.timers = old \cup {f} BY <1>5 DEF GoodLimiter, Granted
<1>7. /\ IsFiniteSet(new.timers) /\ Cardinality(new.timers) = Cardinality(old) + 1
      /\ Cardinality(old) \in Nat
  BY <1>6, FS_AddElement, FS_CardinalityType
<1>8. new.free \in Nat /\ new.free + Cardinality(new.timers) = MaxRps
  BY <1>5, <1>7 DEF GoodLimiter, Granted
<1>9. CompanyKey(f) = k BY <1>2, <1>4 DEF GoodLimiter
<1> QED BY <1>2, <1>4, <1>7, <1>8, <1>9 DEF GoodLimiter, Granted

\* semaphore.release.
LEMMA TimerFires ==
  ASSUME NEW k, NEW limiter, GoodLimiter(k, limiter), NEW f \in limiter.timers,
         NEW new, IsLimiter(new),
         new.free = limiter.free + 1, new.waiters = limiter.waiters,
         new.timers = limiter.timers \ {f}
  PROVE  GoodLimiter(k, new)
<1>1. /\ IsFiniteSet(new.timers) /\ Cardinality(new.timers) = Cardinality(limiter.timers) - 1
      /\ Cardinality(limiter.timers) \in Nat
  BY FS_RemoveElement, FS_CardinalityType DEF GoodLimiter
<1> QED BY <1>1 DEF GoodLimiter

\* A new semaphore has all its permits.
LEMMA StartsFull ==
  ASSUME NEW k PROVE GoodLimiter(k, NewLimiter) /\ Range(NewLimiter.waiters) = {} /\ NewLimiter.timers = {}
<1>1. NewLimiter.waiters = <<>> /\ NewLimiter.timers = {} /\ NewLimiter.free = MaxRps BY DEF NewLimiter
<1>2. Range(<<>>) = {} BY DEF Range
<1>3. IsInjective(<<>>) BY DEF IsInjective
<1>4. IsLimiter(NewLimiter) BY DEF IsLimiter, NewLimiter
<1> QED BY <1>1, <1>2, <1>3, <1>4, FS_EmptySet, MaxRpsAssumption DEF GoodLimiter
-------------------------------------------------------------------------------
(* Steps.                                                                  *)

\* No limiter, no fetch.
LEMMA LimiterInvInit == Init => LimiterInv
<1> SUFFICES ASSUME Init PROVE LimiterInv OBVIOUS
<1>1. DOMAIN limiters = {} /\ fetches = [f \in Fetches |-> NotRead] BY DEF Init
<1>2. GoodFetch(NotRead) /\ NotRead.phase = "not read" /\ ~ (NotRead.age < Second)
  BY SecondAssumption DEF NotRead, GoodFetch, MaxAttempts
<1>3. \A k : Waiters(k) = {} /\ Timers(k) = {} BY <1>1 DEF Waiters, Timers
<1> QED BY <1>1, <1>2, <1>3 DEF LimiterInv

\* The coroutines of a message start.
LEMMA ReadStep ==
  ASSUME LimiterInv, NEW m \in DOMAIN Messages, Read(m) PROVE LimiterInv'
<1>0. /\ NotRead.phase = "not read"
      /\ \A new : new = [NotRead EXCEPT !.phase = "started"] =>
           GoodFetch(new) /\ new.phase = "started" /\ new.age = Second
  <2>1. NotRead.phase = "not read" BY DEF NotRead
  <2>2. ASSUME NEW new, new = [NotRead EXCEPT !.phase = "started"]
        PROVE  GoodFetch(new) /\ new.phase = "started" /\ new.age = Second
    <3>1. /\ new.phase = "started" /\ new.attempt = 0 /\ new.wait = 0 /\ new.age = Second
          /\ new = [phase |-> new.phase, attempt |-> new.attempt, wait |-> new.wait, age |-> new.age]
      BY <2>2 DEF NotRead
    <3> QED BY <3>1, SecondAssumption DEF GoodFetch, MaxAttempts
  <2> QED BY <2>1, <2>2
<1>1. /\ UNCHANGED limiters
      /\ fetches' = [f \in Fetches |->
           IF f[1] = m THEN [fetches[f] EXCEPT !.phase = "started"] ELSE fetches[f]]
  BY DEF Read
<1>2. \A k : Waiters(k)' = Waiters(k) /\ Timers(k)' = Timers(k) BY <1>1 DEF Waiters, Timers
<1>3. ASSUME NEW f \in Fetches
      PROVE  /\ GoodFetch(fetches'[f])
             /\ fetches'[f].phase = "waiting" <=> f \in Waiters(CompanyKey(f))
             /\ f \in Timers(CompanyKey(f)) => fetches'[f].phase \in {"requesting", "sleeping", "done"}
             /\ fetches'[f].age < Second => f \in Timers(CompanyKey(f))
  <2>1. CASE f[1] # m
    <3>1. fetches'[f] = fetches[f] BY <1>1, <2>1
    <3> QED BY <3>1 DEF LimiterInv
  <2>2. CASE f[1] = m
    <3>1. PICK i \in DOMAIN Messages[m] : f = <<m, i>> BY <2>2 DEF Fetches
    <3>2. fetches[f] = NotRead BY <3>1 DEF Read
    <3>3. fetches'[f] = [NotRead EXCEPT !.phase = "started"] BY <1>1, <2>2, <3>2
    <3>4. GoodFetch(fetches'[f]) /\ fetches'[f].phase = "started" /\ fetches'[f].age = Second
      BY <1>0, <3>3
    <3>5. fetches[f].phase = "not read" BY <1>0, <3>2
    <3>6. f \notin Waiters(CompanyKey(f)) /\ f \notin Timers(CompanyKey(f)) BY <3>5 DEF LimiterInv
    <3> QED BY <3>4, <3>6, SecondAssumption
  <2> QED BY <2>1, <2>2
<1>4. DOMAIN fetches' = Fetches BY <1>1
<1> QED BY <1>1, <1>2, <1>3, <1>4 DEF LimiterInv

\* A step that changes one fetch after it has begun.
LEMMA BegunStep ==
  ASSUME LimiterInv, NEW f \in Fetches, fetches[f].phase \in {"requesting", "sleeping"},
         NEW new, GoodFetch(new), new.age = fetches[f].age,
         new.phase \in {"requesting", "sleeping", "done"},
         fetches' = [fetches EXCEPT ![f] = new], UNCHANGED limiters
  PROVE  LimiterInv'
<1>1. \A k : Waiters(k)' = Waiters(k) /\ Timers(k)' = Timers(k) BY DEF Waiters, Timers
<1>2. DOMAIN fetches' = Fetches /\ fetches'[f] = new /\ \A g \in Fetches \ {f} : fetches'[g] = fetches[g]
  BY DEF LimiterInv
<1>3. ASSUME NEW g \in Fetches
      PROVE  /\ GoodFetch(fetches'[g])
             /\ fetches'[g].phase = "waiting" <=> g \in Waiters(CompanyKey(g))
             /\ g \in Timers(CompanyKey(g)) => fetches'[g].phase \in {"requesting", "sleeping", "done"}
             /\ fetches'[g].age < Second => g \in Timers(CompanyKey(g))
  <2>1. CASE g # f BY <1>2, <2>1 DEF LimiterInv
  <2>2. CASE g = f
    <3>1. f \notin Waiters(CompanyKey(f)) /\ (fetches[f].age < Second => f \in Timers(CompanyKey(f)))
      BY DEF LimiterInv
    <3> QED BY <1>2, <2>2, <3>1
  <2> QED BY <2>1, <2>2
<1> QED BY <1>1, <1>2, <1>3 DEF LimiterInv

\* The answer of a server, or none.
LEMMA ReplyOkStep ==
  ASSUME LimiterInv, NEW f \in Fetches, ReplyOk(f) PROVE LimiterInv'
<1>1. PICK new : new = [fetches[f] EXCEPT !.phase = "done"] OBVIOUS
<1>2. /\ fetches[f].phase = "requesting" /\ UNCHANGED limiters
      /\ fetches' = [fetches EXCEPT ![f] = new]
  BY <1>1 DEF ReplyOk
<1>3. GoodFetch(fetches[f]) BY DEF LimiterInv
<1>4. GoodFetch(new) /\ new.age = fetches[f].age /\ new.phase = "done" BY <1>1, <1>3 DEF GoodFetch
<1> QED BY <1>2, <1>4, BegunStep

\* A failed attempt: another one follows at most MaxAttempts - 1 times.
LEMMA ReplyFailsStep ==
  ASSUME LimiterInv, NEW f \in Fetches, ReplyFails(f) PROVE LimiterInv'
<1>1. PICK new : new = IF fetches[f].attempt >= MaxAttempts THEN [fetches[f] EXCEPT !.phase = "done"]
                       ELSE [fetches[f] EXCEPT !.phase = "sleeping", !.wait = Second * fetches[f].attempt]
  OBVIOUS
<1>2. /\ fetches[f].phase = "requesting" /\ UNCHANGED limiters
      /\ fetches' = [fetches EXCEPT ![f] = new]
  BY <1>1 DEF ReplyFails
<1>3. GoodFetch(fetches[f]) BY DEF LimiterInv
<1>4. GoodFetch(new) /\ new.age = fetches[f].age /\ new.phase \in {"sleeping", "done"}
  <2>1. CASE fetches[f].attempt >= MaxAttempts
    <3>1. new = [fetches[f] EXCEPT !.phase = "done"] BY <1>1, <2>1
    <3> QED BY <1>3, <3>1 DEF GoodFetch
  <2>2. CASE ~ (fetches[f].attempt >= MaxAttempts)
    <3>1. new = [fetches[f] EXCEPT !.phase = "sleeping", !.wait = Second * fetches[f].attempt]
      BY <1>1, <2>2
    <3>2. fetches[f].attempt \in {0, 1, 2}
      <4>1. fetches[f].attempt \in 0..3 /\ ~ (fetches[f].attempt >= 3)
        BY <1>3, <2>2, Zenon DEF GoodFetch, MaxAttempts
      <4> QED BY <4>1
    <3>3. Second * fetches[f].attempt \in 0..(Second * MaxAttempts)
      <4>1. Second * 0 = 0 /\ Second * 1 = Second /\ Second * 2 = Second + Second
        BY SecondAssumption
      <4> QED BY <3>2, <4>1, SecondAssumption DEF MaxAttempts
    <3>4. fetches[f].attempt < MaxAttempts BY <3>2 DEF MaxAttempts
    <3> QED BY <1>3, <3>1, <3>3, <3>4 DEF GoodFetch
  <2> QED BY <2>1, <2>2
<1> QED BY <1>2, <1>4, BegunStep

\* The sleep between two attempts ends.
LEMMA RetryStep ==
  ASSUME LimiterInv, NEW f \in Fetches, Retry(f) PROVE LimiterInv'
<1>1. PICK new : new = [fetches[f] EXCEPT !.phase = "requesting", !.attempt = fetches[f].attempt + 1] OBVIOUS
<1>2. /\ fetches[f].phase = "sleeping" /\ UNCHANGED limiters
      /\ fetches' = [fetches EXCEPT ![f] = new]
  BY <1>1 DEF Retry
<1>3. GoodFetch(fetches[f]) BY DEF LimiterInv
<1>4. fetches[f].attempt + 1 \in 0..MaxAttempts
  <2>1. fetches[f].attempt \in 0..MaxAttempts /\ fetches[f].attempt < MaxAttempts
    BY <1>2, <1>3 DEF GoodFetch
  <2> QED BY <2>1 DEF MaxAttempts
<1>5. GoodFetch(new) /\ new.age = fetches[f].age /\ new.phase = "requesting"
  BY <1>1, <1>3, <1>4 DEF GoodFetch
<1> QED BY <1>2, <1>5, BegunStep

\* Time passes: no timer is due before its fetch is a second old.
LEMMA TickStep == LimiterInv /\ Tick => LimiterInv'
<1> SUFFICES ASSUME LimiterInv, Tick PROVE LimiterInv' OBVIOUS
<1>1. /\ UNCHANGED limiters
      /\ fetches' = [f \in Fetches |->
           [fetches[f] EXCEPT !.wait = IF fetches[f].wait = 0 THEN 0 ELSE fetches[f].wait - 1,
                              !.age = IF fetches[f].age = Second THEN Second ELSE fetches[f].age + 1]]
  BY DEF Tick
<1>2. \A k : Waiters(k)' = Waiters(k) /\ Timers(k)' = Timers(k) BY <1>1 DEF Waiters, Timers
<1>3. ASSUME NEW f \in Fetches
      PROVE  /\ GoodFetch(fetches'[f]) /\ fetches'[f].phase = fetches[f].phase
             /\ fetches'[f].age < Second => fetches[f].age < Second
  <2>1. PICK old : old = fetches[f] OBVIOUS
  <2>2. GoodFetch(old) BY <2>1 DEF LimiterInv
  <2>3. PICK wait, age :
          /\ wait = IF old.wait = 0 THEN 0 ELSE old.wait - 1
          /\ age = IF old.age = Second THEN Second ELSE old.age + 1
    OBVIOUS
  <2>4. fetches'[f] = [old EXCEPT !.wait = wait, !.age = age] BY <1>1, <2>1, <2>3
  <2>5. /\ age \in 0..Second /\ (age < Second => old.age < Second)
        /\ wait \in 0..(Second * MaxAttempts)
    <3>1. old.age \in 0..Second /\ old.wait \in 0..(Second * MaxAttempts) BY <2>2 DEF GoodFetch
    <3>2. Second \in Nat /\ Second * MaxAttempts \in Nat BY SecondAssumption DEF MaxAttempts
    <3>3. age \in 0..Second /\ (age < Second => old.age < Second) BY <2>3, <3>1, <3>2
    <3>4. \A bound \in Nat : old.wait \in 0..bound => wait \in 0..bound BY <2>3
    <3> QED BY <3>1, <3>2, <3>3, <3>4
  <2> QED BY <2>1, <2>2, <2>4, <2>5 DEF GoodFetch
<1>4. DOMAIN fetches' = Fetches BY <1>1
<1> QED BY <1>1, <1>2, <1>3, <1>4 DEF LimiterInv

\* One limiter changes, and with it one fetch of its company.
LEMMA LimiterStep ==
  ASSUME LimiterInv, NEW k \in Keys, NEW f \in Fetches, CompanyKey(f) = k,
         NEW limiter, GoodLimiter(k, limiter), NEW fetch, GoodFetch(fetch),
         DOMAIN limiters' = DOMAIN limiters \cup {k}, limiters'[k] = limiter,
         \A j \in DOMAIN limiters \ {k} : limiters'[j] = limiters[j],
         DOMAIN fetches' = Fetches, fetches'[f] = fetch,
         \A g \in Fetches \ {f} : fetches'[g] = fetches[g],
         Range(limiter.waiters) \ {f} = Waiters(k) \ {f}, limiter.timers \ {f} = Timers(k) \ {f},
         fetch.phase = "waiting" <=> f \in Range(limiter.waiters),
         f \in limiter.timers => fetch.phase \in {"requesting", "sleeping", "done"},
         fetch.age < Second => f \in limiter.timers
  PROVE  LimiterInv'
<1>1. DOMAIN fetches' = Fetches /\ fetches'[f] = fetch /\ \A g \in Fetches \ {f} : fetches'[g] = fetches[g]
  OBVIOUS
<1>2. /\ Waiters(k)' = Range(limiter.waiters) /\ Timers(k)' = limiter.timers
      /\ \A j \in Keys \ {k} : Waiters(j)' = Waiters(j) /\ Timers(j)' = Timers(j)
  BY DEF Waiters, Timers
<1>3. ASSUME NEW g \in Fetches
      PROVE  /\ GoodFetch(fetches'[g])
             /\ fetches'[g].phase = "waiting" <=> g \in Waiters(CompanyKey(g))'
             /\ g \in Timers(CompanyKey(g))' => fetches'[g].phase \in {"requesting", "sleeping", "done"}
             /\ fetches'[g].age < Second => g \in Timers(CompanyKey(g))'
  <2>1. CASE g = f BY <1>1, <1>2, <2>1
  <2>2. CASE g # f
    <3>1. PICK j \in Keys : j = CompanyKey(g) BY DEF Keys
    <3>2. g \in Waiters(j)' <=> g \in Waiters(j) BY <1>2, <2>2, <3>1
    <3>3. g \in Timers(j)' <=> g \in Timers(j) BY <1>2, <2>2, <3>1
    <3> QED BY <1>1, <2>2, <3>1, <3>2, <3>3 DEF LimiterInv
  <2> QED BY <2>1, <2>2
<1>4. DOMAIN limiters' \subseteq Keys /\ \A j \in DOMAIN limiters' : GoodLimiter(j, limiters'[j])
  BY DEF LimiterInv
<1> QED BY <1>1, <1>3, <1>4 DEF LimiterInv

\* A coroutine asks for a permit of its company.
LEMMA AskStep ==
  ASSUME LimiterInv, NEW f \in Fetches, Ask(f) PROVE LimiterInv'
<1>1. PICK k \in Keys : k = CompanyKey(f) BY DEF Keys
<1>2. PICK limiter : limiter = LimiterOf(k) OBVIOUS
<1>3. PICK new : new = [limiter EXCEPT !.waiters = Append(limiter.waiters, f)] OBVIOUS
<1>4. PICK fetch : fetch = [fetches[f] EXCEPT !.phase = "waiting"] OBVIOUS
<1>5. /\ fetches[f].phase = "started" /\ fetches' = [fetches EXCEPT ![f] = fetch]
      /\ limiters' = [j \in DOMAIN limiters \cup {k} |-> IF j = k THEN new ELSE limiters[j]]
  BY <1>1, <1>2, <1>3, <1>4 DEF Ask
<1>6. /\ GoodLimiter(k, limiter) /\ Range(limiter.waiters) = Waiters(k) /\ limiter.timers = Timers(k)
  BY <1>2, StartsFull DEF LimiterOf, LimiterInv, Waiters, Timers
<1>7. /\ GoodFetch(fetches[f]) /\ f \notin Waiters(k) /\ f \notin Timers(k) /\ ~ (fetches[f].age < Second)
  BY <1>1, <1>5 DEF LimiterInv
<1>8. /\ GoodLimiter(k, new) /\ new.timers = limiter.timers
      /\ Range(new.waiters) = Range(limiter.waiters) \cup {f}
  <2>1. Queued(limiter, f, new) /\ new.timers = limiter.timers
    BY <1>3, <1>6 DEF GoodLimiter, IsLimiter, Queued
  <2>2. CompanyKey(f) = k /\ f \notin Range(limiter.waiters) BY <1>1, <1>6, <1>7
  <2> QED BY <1>6, <2>1, <2>2, Enqueues
<1>9. GoodFetch(fetch) /\ fetch.phase = "waiting" /\ fetch.age = fetches[f].age
  BY <1>4, <1>7 DEF GoodFetch
<1>10. /\ DOMAIN limiters' = DOMAIN limiters \cup {k} /\ limiters'[k] = new
       /\ \A j \in DOMAIN limiters \ {k} : limiters'[j] = limiters[j]
  BY <1>5
<1>11. DOMAIN fetches' = Fetches /\ fetches'[f] = fetch /\ \A g \in Fetches \ {f} : fetches'[g] = fetches[g]
  BY <1>5 DEF LimiterInv
<1> QED BY <1>1, <1>6, <1>7, <1>8, <1>9, <1>10, <1>11, LimiterStep

\* The first waiter takes a permit.
LEMMA AcquireStep ==
  ASSUME LimiterInv, NEW k \in DOMAIN limiters, Acquire(k) PROVE LimiterInv'
<1>1. PICK limiter : limiter = limiters[k] OBVIOUS
<1>2. PICK f : f = Head(limiter.waiters) OBVIOUS
<1>3. PICK new : new = [limiter EXCEPT !.free = limiter.free - 1, !.waiters = Tail(limiter.waiters),
                                       !.timers = limiter.timers \cup {f}]
  OBVIOUS
<1>4. PICK fetch : fetch = Begun(f) OBVIOUS
<1>5. /\ limiter.free > 0 /\ limiter.waiters # <<>>
      /\ limiters' = [limiters EXCEPT ![k] = new] /\ fetches' = [fetches EXCEPT ![f] = fetch]
  BY <1>1, <1>2, <1>3, <1>4 DEF Acquire
<1>6. /\ k \in Keys /\ GoodLimiter(k, limiter)
      /\ Range(limiter.waiters) = Waiters(k) /\ limiter.timers = Timers(k)
  BY <1>1 DEF LimiterInv, Waiters, Timers
<1>7. /\ f \in Range(limiter.waiters) /\ f \in Fetches /\ CompanyKey(f) = k
  <2>1. /\ limiter.waiters \in Seq(Fetches)
        /\ \A g \in limiter.timers \cup Range(limiter.waiters) : CompanyKey(g) = k
    BY <1>6 DEF GoodLimiter
  <2>2. f \in Fetches /\ 1 \in DOMAIN limiter.waiters /\ f = limiter.waiters[1]
    BY <1>2, <1>5, <2>1
  <2>3. f \in Range(limiter.waiters) BY <2>2 DEF Range
  <2> QED BY <2>1, <2>2, <2>3
<1>8. GoodFetch(fetches[f]) /\ fetches[f].phase = "waiting" /\ f \notin limiter.timers
  BY <1>6, <1>7 DEF LimiterInv
<1>9. /\ GoodLimiter(k, new) /\ new.timers = limiter.timers \cup {f}
      /\ Range(new.waiters) = Range(limiter.waiters) \ {f}
  <2>1. Granted(limiter, f, new) /\ new.timers = limiter.timers \cup {f}
    BY <1>2, <1>3, <1>5, <1>6 DEF GoodLimiter, IsLimiter, Granted
  <2> QED BY <1>6, <1>8, <2>1, Dequeues
<1>10. GoodFetch(fetch) /\ fetch.phase \in {"requesting", "done"}
  <2>1. 0 \in 0..Second /\ 1 \in 0..MaxAttempts BY SecondAssumption DEF MaxAttempts
  <2> QED BY <1>4, <1>8, <2>1 DEF Begun, GoodFetch
<1>11. /\ DOMAIN limiters' = DOMAIN limiters \cup {k} /\ limiters'[k] = new
       /\ \A j \in DOMAIN limiters \ {k} : limiters'[j] = limiters[j]
  BY <1>5
<1>12. DOMAIN fetches' = Fetches /\ fetches'[f] = fetch /\ \A g \in Fetches \ {f} : fetches'[g] = fetches[g]
  BY <1>5, <1>7 DEF LimiterInv
<1> QED BY <1>6, <1>7, <1>9, <1>10, <1>11, <1>12, LimiterStep

\* A timer fires, for a fetch that began a second ago or more.
LEMMA ReleaseStep ==
  ASSUME LimiterInv, NEW k \in DOMAIN limiters, NEW f \in Fetches, Release(k, f) PROVE LimiterInv'
<1>1. PICK limiter : limiter = limiters[k] OBVIOUS
<1>2. PICK new : new = [limiter EXCEPT !.timers = limiter.timers \ {f}, !.free = limiter.free + 1] OBVIOUS
<1>3. PICK fetch : fetch = fetches[f] OBVIOUS
<1>4. /\ f \in limiter.timers /\ fetch.age = Second /\ UNCHANGED fetches
      /\ limiters' = [limiters EXCEPT ![k] = new]
  BY <1>1, <1>2, <1>3 DEF Release
<1>5. /\ k \in Keys /\ GoodLimiter(k, limiter)
      /\ Range(limiter.waiters) = Waiters(k) /\ limiter.timers = Timers(k)
  BY <1>1 DEF LimiterInv, Waiters, Timers
<1>6. CompanyKey(f) = k BY <1>4, <1>5 DEF GoodLimiter
<1>7. /\ GoodLimiter(k, new) /\ new.timers = limiter.timers \ {f} /\ new.waiters = limiter.waiters
  <2>1. /\ IsLimiter(new)
        /\ new.free = limiter.free + 1 /\ new.waiters = limiter.waiters
        /\ new.timers = limiter.timers \ {f}
    BY <1>2, <1>5 DEF GoodLimiter, IsLimiter
  <2> QED BY <1>4, <1>5, <2>1, TimerFires
<1>8. /\ GoodFetch(fetch)
      /\ fetch.phase = "waiting" <=> f \in Range(new.waiters)
  BY <1>3, <1>5, <1>6, <1>7 DEF LimiterInv
<1>9. DOMAIN fetches' = Fetches /\ fetches'[f] = fetch /\ \A g \in Fetches \ {f} : fetches'[g] = fetches[g]
  BY <1>3, <1>4 DEF LimiterInv
<1>10. /\ DOMAIN limiters' = DOMAIN limiters \cup {k} /\ limiters'[k] = new
       /\ \A j \in DOMAIN limiters \ {k} : limiters'[j] = limiters[j]
  BY <1>4
<1>11. ~ (fetch.age < Second) BY <1>4, SecondAssumption
<1>12. /\ Range(new.waiters) \ {f} = Waiters(k) \ {f} /\ new.timers \ {f} = Timers(k) \ {f}
       /\ f \notin new.timers
  BY <1>5, <1>7
<1> QED BY <1>5, <1>6, <1>7, <1>8, <1>9, <1>10, <1>11, <1>12, LimiterStep

-------------------------------------------------------------------------------

\* Each step preserves the invariant.
LEMMA LimiterInvStep == LimiterInv /\ [Next]_vars => LimiterInv'
<1> SUFFICES ASSUME LimiterInv, [Next]_vars PROVE LimiterInv' OBVIOUS
<1>1. ASSUME NEW m \in DOMAIN Messages, Read(m) PROVE LimiterInv' BY <1>1, ReadStep
<1>2. ASSUME NEW k \in DOMAIN limiters, Acquire(k) PROVE LimiterInv' BY <1>2, AcquireStep
<1>3. ASSUME NEW k \in DOMAIN limiters, NEW f \in Fetches, Release(k, f) PROVE LimiterInv'
  BY <1>3, ReleaseStep
<1>4. ASSUME NEW f \in Fetches, Ask(f) PROVE LimiterInv' BY <1>4, AskStep
<1>5. ASSUME NEW f \in Fetches, ReplyOk(f) PROVE LimiterInv' BY <1>5, ReplyOkStep
<1>6. ASSUME NEW f \in Fetches, ReplyFails(f) PROVE LimiterInv' BY <1>6, ReplyFailsStep
<1>7. ASSUME NEW f \in Fetches, Retry(f) PROVE LimiterInv' BY <1>7, RetryStep
<1>8. CASE Tick BY <1>8, TickStep
<1>9. CASE UNCHANGED vars
  <2>1. UNCHANGED limiters /\ UNCHANGED fetches BY <1>9 DEF vars
  <2>2. \A k : Waiters(k)' = Waiters(k) /\ Timers(k)' = Timers(k) BY <2>1 DEF Waiters, Timers
  <2> QED BY <2>1, <2>2 DEF LimiterInv
<1> QED BY <1>1, <1>2, <1>3, <1>4, <1>5, <1>6, <1>7, <1>8, <1>9 DEF Next

\* LimiterInv is inductive.
LEMMA LimiterInvariant == Spec => []LimiterInv
BY LimiterInvInit, LimiterInvStep, PTL DEF Spec

\* No permit of a company's semaphore is lost or made, and a fetch waits once,
\* in the queue of its company.
THEOREM LimiterTypeCorrect == Spec => []TypeOK
<1>1. LimiterInv => TypeOK BY DEF LimiterInv, TypeOK, GoodLimiter, GoodFetch
<1> QED BY <1>1, LimiterInvariant, PTL

\* A company sees no more than MaxRps fetches begin within a second.
THEOREM FetchesLimited == Spec => []FetchesAreLimited
<1>1. LimiterInv => FetchesAreLimited
  <2> SUFFICES ASSUME LimiterInv, NEW k \in Keys
               PROVE  Cardinality({f \in Fetches : CompanyKey(f) = k /\ fetches[f].age < Second}) <= MaxRps
    BY DEF FetchesAreLimited
  <2> DEFINE recent == {f \in Fetches : CompanyKey(f) = k /\ fetches[f].age < Second}
  <2>1. recent \subseteq Timers(k) BY DEF LimiterInv
  <2>2. /\ IsFiniteSet(Timers(k)) /\ Cardinality(Timers(k)) <= MaxRps /\ Cardinality(Timers(k)) \in Nat
    <3>1. CASE k \in DOMAIN limiters
      <4>1. GoodLimiter(k, limiters[k]) /\ Timers(k) = limiters[k].timers BY <3>1 DEF LimiterInv, Timers
      <4>2. Cardinality(Timers(k)) \in Nat BY <4>1, FS_CardinalityType DEF GoodLimiter
      <4> QED BY <4>1, <4>2, MaxRpsAssumption DEF GoodLimiter
    <3>2. CASE k \notin DOMAIN limiters
      <4>1. Timers(k) = {} BY <3>2 DEF Timers
      <4> QED BY <4>1, FS_EmptySet, MaxRpsAssumption
    <3> QED BY <3>1, <3>2
  <2> HIDE DEF recent
  <2>3. Cardinality(recent) <= Cardinality(Timers(k)) /\ Cardinality(recent) \in Nat
    BY <2>1, <2>2, FS_Subset, FS_CardinalityType
  <2>4. Cardinality(recent) <= MaxRps BY <2>2, <2>3, MaxRpsAssumption
  <2> QED BY <2>4 DEF recent
<1> QED BY <1>1, LimiterInvariant, PTL

===============================================================================
