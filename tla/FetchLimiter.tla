------------------------------ MODULE FetchLimiter ------------------------------
(***************************************************************************)
(* The pacing of the worker's fetches: a CompanyRateLimiter per company, a *)
(* semaphore whose permits come back one second after they were taken, and *)
(* the retries of the HTTP client, which wait but take no permit.          *)
(*                                                                         *)
(* Time is counted in ticks; timers and sleeps end at their time or later, *)
(* as the event loop gets to them.  How requests and results travel is the *)
(* subject of ScrapeWorker.                                                *)
(***************************************************************************)
EXTENDS Naturals, Sequences, FiniteSets, Functions

CONSTANTS
  Messages,   \* by message: the feeds it lists, [feed, company, fetchprotection]
  NoCompany,  \* company_id is null
  MaxRps,     \* WORKER_COMPANY_MAX_REQUESTS_PER_SECOND
  Second      \* ticks in a second

MaxAttempts == 3  \* DEFAULT_MAX_ATTEMPTS

ASSUME MaxRpsAssumption == MaxRps \in Nat \ {0}
ASSUME SecondAssumption == Second \in Nat \ {0}

\* One fetch for each feed of each message.
Fetches == UNION {{<<m, i>> : i \in DOMAIN Messages[m]} : m \in DOMAIN Messages}
Feed(f) == Messages[f[1]][f[2]]

\* _resolve_company_key: a feed without a company is paced by itself.
CompanyKey(f) ==
  IF Feed(f).company = NoCompany THEN <<"feed", Feed(f).feed>>
                                 ELSE <<"company", Feed(f).company>>
Keys == {CompanyKey(f) : f \in Fetches}

VARIABLES
  limiters,   \* company_rate_limiters: by key, its semaphore and its timers
  fetches     \* the coroutines of _process_feed

vars == <<limiters, fetches>>

\* The semaphore, and the fetches whose permits have yet to come back.
NewLimiter == [free |-> MaxRps, waiters |-> <<>>, timers |-> {}]
\* age: the ticks since the fetch took its permit, Second for more or for never.
NotRead == [phase |-> "not read", attempt |-> 0, wait |-> 0, age |-> Second]

Init ==
  /\ limiters = [k \in {} |-> NewLimiter]
  /\ fetches = [f \in Fetches |-> NotRead]

-------------------------------------------------------------------------------

\* _process_job_message starts the coroutines of the feeds of a message.
Read(m) ==
  /\ \A i \in DOMAIN Messages[m] : fetches[<<m, i>>] = NotRead
  /\ fetches' = [f \in Fetches |->
       IF f[1] = m THEN [fetches[f] EXCEPT !.phase = "started"] ELSE fetches[f]]
  /\ UNCHANGED limiters

\* Mutant: a message brings permits of its own.
LimiterOf_Fresh(k) ==
  IF k \in DOMAIN limiters THEN [limiters[k] EXCEPT !.free = MaxRps] ELSE NewLimiter

\* _get_or_create_company_rate_limiter.
LimiterOf(k) == IF k \in DOMAIN limiters THEN limiters[k] ELSE NewLimiter

\* _group_feeds_by_company: the feeds of the message with the same key that
\* come before.
Before(f) == {g \in Fetches : g[1] = f[1] /\ g[2] < f[2] /\ CompanyKey(g) = CompanyKey(f)}

\* _process_company_feed_pool: the coroutines of a company ask for permits in
\* the order of the message.
Ask(f) ==
  /\ fetches[f].phase = "started"
  /\ \A g \in Before(f) : fetches[g].phase # "started"
  /\ fetches' = [fetches EXCEPT ![f].phase = "waiting"]
  /\ LET asked == CompanyKey(f)
         limiter == LimiterOf(asked)
     IN  limiters' = [k \in DOMAIN limiters \cup {asked} |->
           IF k = asked THEN [limiter EXCEPT !.waiters = Append(@, f)] ELSE limiters[k]]

\* fetch_feed_result: a blocked feed is done without a request.
Begun(f) ==
  IF Feed(f).fetchprotection = 0 THEN [fetches[f] EXCEPT !.phase = "done", !.age = 0]
  ELSE [fetches[f] EXCEPT !.phase = "requesting", !.attempt = 1, !.age = 0]

\* Mutant: the permit of a blocked feed does not come back.
Acquire_NoTimer(k) ==
  /\ limiters[k].free > 0
  /\ limiters[k].waiters # <<>>
  /\ LET f == Head(limiters[k].waiters)
         blocked == Feed(f).fetchprotection = 0
     IN  /\ fetches' = [fetches EXCEPT ![f] = Begun(f)]
         /\ limiters' = [limiters EXCEPT ![k].free = @ - 1, ![k].waiters = Tail(@),
                                         ![k].timers = IF blocked THEN @ ELSE @ \cup {f}]

\* CompanyRateLimiter.acquire returns to the first waiter, which starts the
\* timer of its permit and calls fetch_feed_result.
Acquire(k) ==
  /\ limiters[k].free > 0
  /\ limiters[k].waiters # <<>>
  /\ LET f == Head(limiters[k].waiters)
     IN  /\ limiters' = [limiters EXCEPT ![k].free = @ - 1, ![k].waiters = Tail(@),
                                         ![k].timers = @ \cup {f}]
         /\ fetches' = [fetches EXCEPT ![f] = Begun(f)]

\* The timer of the permit that f took fires.
Release(k, f) ==
  /\ f \in limiters[k].timers
  /\ fetches[f].age = Second
  /\ limiters' = [limiters EXCEPT ![k].timers = @ \ {f}, ![k].free = @ + 1]
  /\ UNCHANGED fetches

\* The answer is 200 or 304: the fetch is over.
ReplyOk(f) ==
  /\ fetches[f].phase = "requesting"
  /\ fetches' = [fetches EXCEPT ![f].phase = "done"]
  /\ UNCHANGED limiters

\* Mutant: the attempts start over.
ReplyFails_Forever(f) ==
  /\ fetches[f].phase = "requesting"
  /\ fetches' = [fetches EXCEPT ![f].phase = "sleeping", ![f].attempt = 0, ![f].wait = Second]
  /\ UNCHANGED limiters

\* Another status, a timeout, no connection: back off, or give up.
ReplyFails(f) ==
  /\ fetches[f].phase = "requesting"
  /\ fetches' = [fetches EXCEPT ![f] =
       IF @.attempt >= MaxAttempts THEN [@ EXCEPT !.phase = "done"]
       ELSE [@ EXCEPT !.phase = "sleeping", !.wait = Second * fetches[f].attempt]]
  /\ UNCHANGED limiters

\* asyncio.sleep is over: the next attempt, without a permit.
Retry(f) ==
  /\ fetches[f].phase = "sleeping"
  /\ fetches[f].wait = 0
  /\ fetches' = [fetches EXCEPT ![f].phase = "requesting", ![f].attempt = @ + 1]
  /\ UNCHANGED limiters

\* Time passes.
Tick ==
  /\ fetches' = [f \in Fetches |->
       [fetches[f] EXCEPT !.wait = IF @ = 0 THEN 0 ELSE @ - 1,
                          !.age = IF @ = Second THEN Second ELSE @ + 1]]
  /\ UNCHANGED limiters

Next ==
  \/ \E m \in DOMAIN Messages : Read(m)
  \/ \E k \in DOMAIN limiters : Acquire(k) \/ \E f \in Fetches : Release(k, f)
  \/ \E f \in Fetches : Ask(f) \/ ReplyOk(f) \/ ReplyFails(f) \/ Retry(f)
  \/ Tick

\* The event loop runs what is ready, and time passes.  Nothing is assumed of
\* the servers that answer.
Fairness ==
  /\ WF_vars(Tick)
  /\ \A k \in Keys :
       WF_vars(k \in DOMAIN limiters /\ (Acquire(k) \/ \E f \in Fetches : Release(k, f)))
  /\ \A f \in Fetches : WF_vars(Ask(f)) /\ WF_vars(Retry(f))

Spec == Init /\ [][Next]_vars
FairSpec == Spec /\ Fairness

-------------------------------------------------------------------------------

Waiters(k) == IF k \in DOMAIN limiters THEN Range(limiters[k].waiters) ELSE {}

\* No permit is lost: those that are not free have a timer.  A fetch waits in
\* the queue of its company, once.
TypeOK ==
  /\ DOMAIN limiters \subseteq Keys
  /\ \A k \in DOMAIN limiters :
       /\ limiters[k].free \in Nat
       /\ limiters[k].free + Cardinality(limiters[k].timers) = MaxRps
       /\ IsInjective(limiters[k].waiters)
  /\ \A f \in Fetches :
       /\ fetches[f].phase \in {"not read", "started", "waiting", "requesting", "sleeping", "done"}
       /\ fetches[f].attempt \in 0..MaxAttempts
       /\ fetches[f].wait \in 0..(Second * MaxAttempts)
       /\ fetches[f].age \in 0..Second
       /\ fetches[f].phase = "waiting" <=> f \in Waiters(CompanyKey(f))

\* In no second does a company see more than MaxRps fetches begin, across
\* messages and jobs, however late the event loop runs its timers.
FetchesAreLimited ==
  \A k \in Keys :
    Cardinality({f \in Fetches : CompanyKey(f) = k /\ fetches[f].age < Second}) <= MaxRps

\* Waiting for a permit does not depend on the servers: every feed that was
\* read gets its turn although no request is ever answered.
Pending(f) == fetches[f].phase \in {"started", "waiting"}
EveryFetchBegins == \A f \in Fetches : Pending(f) ~> ~Pending(f)

\* A fetch whose own requests are answered ends, whatever becomes of others.
FetchesAreIndependent ==
  \A f \in Fetches :
    []<>(fetches[f].phase # "requesting") => (Pending(f) ~> fetches[f].phase = "done")
===============================================================================
