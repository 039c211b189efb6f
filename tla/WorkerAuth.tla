------------------------------- MODULE WorkerAuth -------------------------------
(***************************************************************************)
(* The token of the worker: POST /internal/workers/token of the backend,   *)
(* and ensure_worker_authenticated, which caches the answer and gates      *)
(* every turn of the worker's loop.                                        *)
(*                                                                         *)
(* Only differences of times matter: a token is kept with what is left of  *)
(* its life on the backend's clock, and the worker's clock is that of the  *)
(* backend plus skew.  exp, the time the token itself carries, is cut to   *)
(* whole seconds and may lie up to a tick before expires_at.               *)
(***************************************************************************)
EXTENDS Integers

CONSTANTS
  Buffer,   \* _TOKEN_REFRESH_BUFFER
  MinTtl,   \* the least lifetime the backend gives
  Ttls,     \* values of WORKER_TOKEN_TTL_SECONDS
  Timeout,  \* the timeout of the token request
  MaxSkew   \* bound: difference of the clocks

ASSUME TimesAssumption ==
  Buffer \in Nat /\ MinTtl \in Nat /\ Ttls \subseteq Int /\ Timeout \in Nat /\ MaxSkew \in Nat
ASSUME TimeoutAssumption == Timeout < MinTtl - 1

VARIABLES
  phase,        \* where run_scrape_worker is
  token,        \* _cached_token and _cached_expires_at
  answer,       \* the response on its way to the worker
  skew,         \* the worker's clock minus the backend's
  up,           \* the backend answers
  credentials   \* WORKER_ID and WORKER_SECRET: valid, invalid or missing

vars == <<phase, token, answer, skew, up, credentials>>

Phases == {"top", "asking", "answered", "reading", "sleeping"}
NoToken == [left |-> 0, exp |-> 0, age |-> 0, held |-> FALSE]

Init ==
  /\ phase = "top"
  /\ token = NoToken
  /\ answer = NoToken
  /\ skew \in -MaxSkew..MaxSkew
  /\ up \in BOOLEAN
  /\ credentials \in {"valid", "invalid", "missing"}

\* Mutant: the buffer is subtracted on the wrong side.
IsFresh_Late == token.held /\ skew < token.left + Buffer

\* The worker's clock plus the buffer is before _cached_expires_at.
IsFresh == token.held /\ skew + Buffer < token.left

UseCached ==
  /\ phase = "top"
  /\ IsFresh
  /\ phase' = "reading"
  /\ UNCHANGED <<token, answer, skew, up, credentials>>

\* Mutant: only a worker without a token asks for one.
AskForToken_Once ==
  /\ phase = "top"
  /\ ~token.held
  /\ phase' = IF credentials = "missing" THEN "sleeping" ELSE "asking"
  /\ UNCHANGED <<token, answer, skew, up, credentials>>

\* request_worker_token, or WorkerAuthenticationError for want of credentials.
AskForToken ==
  /\ phase = "top"
  /\ ~IsFresh
  /\ phase' = IF credentials = "missing" THEN "sleeping" ELSE "asking"
  /\ UNCHANGED <<token, answer, skew, up, credentials>>

\* _resolve_token_ttl_seconds.
Lifetime(ttl) == IF ttl < MinTtl THEN MinTtl ELSE ttl

\* issue_worker_access_token.
IssueToken ==
  /\ phase = "asking"
  /\ up
  /\ credentials = "valid"
  /\ \E ttl \in Ttls, cut \in {0, 1} :
       answer' = [left |-> Lifetime(ttl), exp |-> Lifetime(ttl) - cut, age |-> 0, held |-> TRUE]
  /\ phase' = "answered"
  /\ UNCHANGED <<token, skew, up, credentials>>

\* The response is read and cached, before the client's timeout.
ReceiveToken ==
  /\ phase = "answered"
  /\ token' = [answer EXCEPT !.age = 0]
  /\ answer' = NoToken
  /\ phase' = "reading"
  /\ UNCHANGED <<skew, up, credentials>>

\* 401, no connection, a timeout, a response that is not a token: the loop
\* catches the error.
RequestFails ==
  /\ phase \in {"asking", "answered"}
  /\ answer' = NoToken
  /\ phase' = "sleeping"
  /\ UNCHANGED <<token, skew, up, credentials>>

\* asyncio.sleep(1.0) is over.
Wake ==
  /\ phase = "sleeping"
  /\ phase' = "top"
  /\ UNCHANGED <<token, answer, skew, up, credentials>>

\* The read and the jobs it returned are done, or raised.
JobsDone ==
  /\ phase = "reading"
  /\ phase' \in {"top", "sleeping"}
  /\ UNCHANGED <<token, answer, skew, up, credentials>>

\* A token that has been dead for long is like any other dead one.
Older(t) ==
  IF ~t.held THEN t
  ELSE [t EXCEPT !.left = IF @ <= -MaxSkew THEN @ ELSE @ - 1,
                 !.exp = IF @ < -MaxSkew THEN @ ELSE @ - 1,
                 !.age = IF phase = "answered" THEN @ + 1 ELSE @]

Tick ==
  /\ answer.held => answer.age < Timeout
  /\ answer' = Older(answer)
  /\ token' = [Older(token) EXCEPT !.age = 0]
  /\ UNCHANGED <<phase, skew, up, credentials>>

\* A clock is set, the backend stops or starts, an operator sets credentials.
Environment ==
  /\ \/ skew' \in -MaxSkew..MaxSkew /\ UNCHANGED <<up, credentials>>
     \/ up' = ~up /\ UNCHANGED <<skew, credentials>>
     \/ credentials' \in {"valid", "invalid", "missing"} /\ UNCHANGED <<skew, up>>
  /\ UNCHANGED <<phase, token, answer>>

Next ==
  \/ UseCached
  \/ AskForToken
  \/ IssueToken
  \/ ReceiveToken
  \/ RequestFails
  \/ Wake
  \/ JobsDone
  \/ Tick
  \/ Environment

\* The loop goes on; a backend that is up and knows the worker answers, again
\* and again in time.
Fairness ==
  /\ WF_vars(UseCached \/ AskForToken)
  /\ WF_vars(Wake)
  /\ WF_vars(JobsDone)
  /\ WF_vars(RequestFails)
  /\ SF_vars(IssueToken)
  /\ SF_vars(ReceiveToken)

Spec == Init /\ [][Next]_vars
FairSpec == Spec /\ Fairness

-------------------------------------------------------------------------------

\* A turn of the loop begins only with a token that the backend's clock has not
\* outlived, also one cached long ago or delivered at the end of the timeout,
\* for as long as the worker's clock is not behind by the buffer or more.
GateIsCurrent ==
  [][ phase # "reading" /\ phase' = "reading" /\ skew > -Buffer => token'.exp > 0 ]_vars

\* The worker gets through authentication again and again once the backend is
\* up and knows it: whatever failed before, and although its cached token died
\* meanwhile or a clock was set.
AuthenticatesAgain ==
  <>[](up /\ credentials = "valid") => []<>(phase = "reading")
===============================================================================
