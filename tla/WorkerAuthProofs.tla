---------------------------- MODULE WorkerAuthProofs ----------------------------
(***************************************************************************)
(* The gate of the worker's loop, for any lifetimes, buffer, timeout and   *)
(* skew of the clocks.                                                     *)
(***************************************************************************)
EXTENDS WorkerAuth, TLAPS

\* exp lies at most one tick before expires_at, also while both run down and
\* when neither is counted any further.
GoodToken(t) ==
  /\ t = [left |-> t.left, exp |-> t.exp, age |-> t.age, held |-> t.held]
  /\ t.left \in Int /\ t.exp \in Int /\ t.age \in Nat /\ t.held \in BOOLEAN
  /\ t.exp >= t.left - 1

\* An answer on its way has lost no more of its life than it has travelled.
AnswerInv ==
  phase = "answered" =>
    answer.held /\ answer.age <= Timeout /\ answer.exp >= MinTtl - 1 - answer.age

AuthInv == GoodToken(token) /\ GoodToken(answer) /\ skew \in Int /\ AnswerInv

\* What a tick does to a token.
LEMMA OlderFacts ==
  ASSUME NEW t, GoodToken(t), NEW new, new = Older(t)
  PROVE  /\ GoodToken(new) /\ new.held = t.held /\ new.exp >= t.exp - 1
         /\ t.held /\ phase = "answered" => new.age = t.age + 1
<1>1. CASE ~t.held
  <2>1. new = t BY <1>1 DEF Older
  <2> QED BY <1>1, <2>1 DEF GoodToken
<1>2. CASE t.held
  <2>1. PICK left, exp, age :
          /\ left = IF t.left <= -MaxSkew THEN t.left ELSE t.left - 1
          /\ exp = IF t.exp < -MaxSkew THEN t.exp ELSE t.exp - 1
          /\ age = IF phase = "answered" THEN t.age + 1 ELSE t.age
    OBVIOUS
  <2>2. new = [t EXCEPT !.left = left, !.exp = exp, !.age = age] BY <1>2, <2>1 DEF Older
  <2>3. /\ new.left = left /\ new.exp = exp /\ new.age = age /\ new.held = t.held
        /\ new = [left |-> new.left, exp |-> new.exp, age |-> new.age, held |-> new.held]
    BY <2>2 DEF GoodToken
  <2>4. t.left \in Int /\ t.exp \in Int /\ t.age \in Nat /\ t.exp >= t.left - 1 /\ MaxSkew \in Nat
    BY TimesAssumption DEF GoodToken
  <2>5. left \in Int /\ exp \in Int /\ age \in Nat /\ exp >= left - 1 /\ exp >= t.exp - 1
    BY <2>1, <2>4
  <2>6. t.held \in BOOLEAN BY DEF GoodToken
  <2> QED BY <2>1, <2>3, <2>5, <2>6 DEF GoodToken
<1> QED BY <1>1, <1>2 DEF GoodToken

\* A token nobody has.
LEMMA NoTokenGood == GoodToken(NoToken)
BY DEF GoodToken, NoToken

\* A token the backend issues.
LEMMA IssuedGood ==
  ASSUME NEW life \in Int, NEW cut \in {0, 1}, NEW t,
         t = [left |-> life, exp |-> life - cut, age |-> 0, held |-> TRUE]
  PROVE  GoodToken(t) /\ t.exp = life - cut /\ t.age = 0 /\ t.held
BY DEF GoodToken

\* A token that only forgets how long it travelled.
LEMMA AgeCleared ==
  ASSUME NEW t, GoodToken(t), NEW new, new = [t EXCEPT !.age = 0]
  PROVE  GoodToken(new) /\ new.exp = t.exp
BY DEF GoodToken

\* No step gives a token more life than its expiry says.
LEMMA AuthInvStep == AuthInv /\ [Next]_vars => AuthInv'
<1> SUFFICES ASSUME AuthInv, [Next]_vars PROVE AuthInv' OBVIOUS
<1>1. GoodToken(token) /\ GoodToken(answer) /\ skew \in Int BY DEF AuthInv
<1>2. CASE IssueToken
  <2>1. PICK ttl \in Ttls, cut \in {0, 1} :
          answer' = [left |-> Lifetime(ttl), exp |-> Lifetime(ttl) - cut, age |-> 0, held |-> TRUE]
    BY <1>2 DEF IssueToken
  <2>2. Lifetime(ttl) \in Int /\ Lifetime(ttl) >= MinTtl /\ MinTtl \in Nat /\ Timeout \in Nat
    BY TimesAssumption DEF Lifetime
  <2>3. GoodToken(answer') /\ answer'.exp = Lifetime(ttl) - cut /\ answer'.age = 0 /\ answer'.held
    BY <2>1, <2>2, IssuedGood
  <2>4. AnswerInv' BY <2>2, <2>3 DEF AnswerInv
  <2> QED BY <1>1, <1>2, <2>3, <2>4 DEF IssueToken, AuthInv
<1>3. CASE ReceiveToken
  <2>1. token' = [answer EXCEPT !.age = 0] /\ answer' = NoToken /\ phase' = "reading" /\ skew' = skew
    BY <1>3 DEF ReceiveToken
  <2>2. GoodToken(token') BY <1>1, <2>1, AgeCleared
  <2> QED BY <1>1, <2>1, <2>2, NoTokenGood DEF AuthInv, AnswerInv
<1>4. CASE RequestFails
  BY <1>1, <1>4, NoTokenGood DEF RequestFails, AuthInv, AnswerInv
<1>5. CASE Tick
  <2>1. PICK older : older = Older(token) OBVIOUS
  <2>2. /\ answer.held => answer.age < Timeout
        /\ answer' = Older(answer) /\ token' = [older EXCEPT !.age = 0]
        /\ phase' = phase /\ skew' = skew
    BY <1>5, <2>1 DEF Tick
  <2>3. GoodToken(token') BY <1>1, <2>1, <2>2, OlderFacts, AgeCleared
  <2>4. /\ GoodToken(answer') /\ answer'.held = answer.held /\ answer'.exp >= answer.exp - 1
        /\ answer.held /\ phase = "answered" => answer'.age = answer.age + 1
    BY <1>1, <2>2, OlderFacts
  <2>5. AnswerInv'
    <3> SUFFICES ASSUME phase = "answered"
                 PROVE  answer'.held /\ answer'.age <= Timeout /\ answer'.exp >= MinTtl - 1 - answer'.age
      BY <2>2 DEF AnswerInv
    <3>1. answer.held /\ answer.exp >= MinTtl - 1 - answer.age BY DEF AuthInv, AnswerInv
    <3>2. /\ answer.exp \in Int /\ answer.age \in Nat /\ answer'.exp \in Int /\ MinTtl \in Nat
          /\ Timeout \in Nat
      BY <1>1, <2>4, TimesAssumption DEF GoodToken
    <3> QED BY <2>2, <2>4, <3>1, <3>2
  <2> QED BY <1>1, <2>2, <2>3, <2>4, <2>5 DEF AuthInv
<1>6. CASE Environment
  <2>1. skew' \in Int BY <1>1, <1>6, TimesAssumption DEF Environment
  <2> QED BY <1>1, <1>6, <2>1 DEF Environment, AuthInv, AnswerInv
<1>7. CASE UseCached \/ AskForToken \/ Wake \/ JobsDone
  <2>1. /\ UNCHANGED <<token, answer, skew>> /\ phase' # "answered"
    BY <1>7 DEF UseCached, AskForToken, Wake, JobsDone
  <2> QED BY <1>1, <2>1 DEF AuthInv, AnswerInv
<1>8. CASE UNCHANGED vars BY <1>8 DEF vars, AuthInv, AnswerInv
<1> QED BY <1>2, <1>3, <1>4, <1>5, <1>6, <1>7, <1>8 DEF Next

\* AuthInv is inductive.
LEMMA AuthInvariant == Spec => []AuthInv
<1>1. Init => AuthInv
  <2> SUFFICES ASSUME Init PROVE AuthInv OBVIOUS
  <2>1. skew \in Int BY TimesAssumption DEF Init
  <2> QED BY <2>1, NoTokenGood DEF Init, AuthInv, AnswerInv
<1> QED BY <1>1, AuthInvStep, PTL DEF Spec

\* The worker's loop passes ensure_worker_authenticated only with a token that
\* the backend still accepts, while its clock is not behind by the buffer.
THEOREM GateHolds == Spec => GateIsCurrent
<1>1. ASSUME AuthInv, [Next]_vars, phase # "reading", phase' = "reading", skew > -Buffer
      PROVE  token'.exp > 0
  <2>1. GoodToken(token) /\ GoodToken(answer) /\ skew \in Int /\ AnswerInv BY <1>1 DEF AuthInv
  <2>2. CASE UseCached
    <3>1. skew + Buffer < token.left /\ token' = token BY <2>2 DEF UseCached, IsFresh
    <3>2. token.left \in Int /\ token.exp \in Int /\ token.exp >= token.left - 1 /\ Buffer \in Nat
      BY <2>1, TimesAssumption DEF GoodToken
    <3> QED BY <1>1, <2>1, <3>1, <3>2
  <2>3. CASE ReceiveToken
    <3>1. phase = "answered" /\ token' = [answer EXCEPT !.age = 0] BY <2>3 DEF ReceiveToken
    <3>2. token'.exp = answer.exp BY <2>1, <3>1, AgeCleared
    <3>3. answer.age <= Timeout /\ answer.exp >= MinTtl - 1 - answer.age BY <2>1, <3>1 DEF AnswerInv
    <3>4. answer.exp \in Int /\ answer.age \in Nat /\ MinTtl \in Nat /\ Timeout \in Nat
      BY <2>1, TimesAssumption DEF GoodToken
    <3> QED BY <3>2, <3>3, <3>4, TimeoutAssumption
  <2>4. UseCached \/ ReceiveToken
    BY <1>1 DEF Next, vars, AskForToken, IssueToken, RequestFails, Wake, JobsDone, Tick, Environment
  <2> QED BY <2>2, <2>3, <2>4
<1>2. AuthInv /\ [Next]_vars =>
        (phase # "reading" /\ phase' = "reading" /\ skew > -Buffer => token'.exp > 0)
  BY <1>1
<1>3. Spec => [][Next]_vars BY DEF Spec
<1> QED BY <1>2, <1>3, AuthInvariant, PTL DEF GateIsCurrent
===============================================================================
