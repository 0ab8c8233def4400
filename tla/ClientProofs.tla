---------------------------- MODULE ClientProofs ----------------------------
(***************************************************************************)
(* Proofs about Client: its types, the time a request may take, the answer *)
(* a request ends at, and that a stop which comes while the rest of the    *)
(* cycle fits the patience of the supervisor never ends in a kill.         *)
(***************************************************************************)
EXTENDS Client, TLAPS

USE DEF Transient, Permanent, Good, Answers

LEMMA AttemptsPositive == Attempts \in Nat \ {0}
  BY ClientAssumption DEF Attempts

\* _retry_delay never exceeds the longest delay, whatever the header says.
LEMMA DelayBounded ==
  ASSUME NEW n \in 1 .. Attempts, NEW suggested \in Suggestions \union {NoHeader}
  PROVE  RetryDelay(n, suggested) \in 0 .. LongestDelay
<1> DEFINE b == Backoff(n)
<1>1. b \in 0 .. LongestDelay
  BY ClientAssumption
<1>2. /\ Suggestions \subseteq Int /\ MaxRetryAfter \in Nat /\ LongestDelay \in Nat
      /\ MaxRetryAfter <= LongestDelay
  BY ClientAssumption
<1>3. RetryDelay(n, suggested) = IF suggested # NoHeader /\ suggested \in b .. MaxRetryAfter
                                 THEN suggested ELSE b
  BY DEF RetryDelay
<1> HIDE DEF b
<1> QED BY <1>1, <1>2, <1>3
----------------------------------------------------------------------------
\* A sleep is followed by another attempt, and no step outlasts its limit.
AttemptInv ==
    /\ pc = "get" => attempt \in 1 .. Attempts
    /\ pc = "sleep" => attempt \in 1 .. Attempts - 1
    /\ pc # "killed" => spent <= Limit

StepInv == TypeOK /\ AttemptInv

LEMMA StepInit == Init => StepInv
<1> SUFFICES ASSUME Init PROVE StepInv
  OBVIOUS
<1>1. /\ Requests \in Nat /\ LongestDelay \in Nat /\ Attempts \in Nat \ {0}
  BY ClientAssumption, AttemptsPositive
<1>2. TypeOK
  <2>1. answers \in Seq(Answers)
    BY DEF Init
  <2>2. /\ left \in 0 .. Requests /\ attempt \in 0 .. Attempts /\ delay \in 0 .. LongestDelay
        /\ spent \in Nat /\ elapsed \in Nat /\ waited \in Nat
    BY <1>1 DEF Init
  <2> QED BY <2>1, <2>2 DEF Init, TypeOK
<1>3. AttemptInv
  BY DEF Init, AttemptInv, Limit
<1> QED BY <1>2, <1>3 DEF StepInv

LEMMA StepNext == StepInv /\ [Next]_vars => StepInv'
<1> SUFFICES ASSUME StepInv, [Next]_vars PROVE StepInv'
  OBVIOUS
<1> USE AttemptsPositive DEF StepInv, AttemptInv, Limit
<1>0. {AttemptTime, Requests, MaxWork, LongestDelay} \subseteq Nat
  BY ClientAssumption
<1>1. CASE Tick
  BY <1>1, <1>0 DEF Tick, TypeOK
<1>2. CASE BeginCycle
  BY <1>2, <1>0 DEF BeginCycle, TypeOK, stopVars
<1>3. CASE EndCycle
  BY <1>3, <1>0 DEF EndCycle, TypeOK, stopVars, requestVars
<1>4. CASE RequestStop
  BY <1>4, <1>0 DEF RequestStop, TypeOK, requestVars
<1>5. CASE KillStopped
  BY <1>5, <1>0 DEF KillStopped, TypeOK, stopVars, requestVars
<1>6. ASSUME NEW method \in {"quote", "list"}, BeginRequest(method) PROVE StepInv'
  BY <1>6, <1>0 DEF BeginRequest, TypeOK, stopVars
<1>7. ASSUME NEW answer \in Transient, GiveUp(answer) PROVE StepInv'
  BY <1>7, <1>0 DEF GiveUp, Ends, Answered, TypeOK, stopVars
<1>8. ASSUME NEW answer \in Transient, NEW suggested \in Suggestions \union {NoHeader},
             Retry(answer, suggested)
      PROVE  StepInv'
  <2>1. delay' \in 0 .. LongestDelay
    BY <1>8, DelayBounded DEF Retry, Answered
  <2> QED BY <1>8, <2>1, <1>0 DEF Retry, Answered, TypeOK, stopVars, LastAttempt
<1>9. ASSUME NEW answer \in Permanent, Refuse(answer) PROVE StepInv'
  BY <1>9, <1>0 DEF Refuse, Ends, Answered, TypeOK, stopVars
<1>10. ASSUME NEW answer \in Good, Deliver(answer) PROVE StepInv'
  BY <1>10, <1>0 DEF Deliver, Ends, Answered, TypeOK, stopVars
<1>11. CASE Wake
  BY <1>11, <1>0 DEF Wake, TypeOK, stopVars
<1>12. CASE UNCHANGED vars
  BY <1>12 DEF TypeOK, vars, stopVars, requestVars
<1> QED
  BY <1>1, <1>2, <1>3, <1>4, <1>5, <1>6, <1>7, <1>8, <1>9, <1>10, <1>11, <1>12
  DEF Next, Request, Over

\* The type invariant of the client, for every number of attempts and every delay.
THEOREM TypeCorrect == Spec => []TypeOK
<1>1. StepInv => TypeOK
  BY DEF StepInv
<1> QED BY <1>1, StepInit, StepNext, PTL DEF Spec
----------------------------------------------------------------------------
\* Multiplication by one less, which the solvers are spared below.
LEMMA OneLess ==
  ASSUME NEW n \in Int, NEW w \in Int
  PROVE  (n - 1) * w = n * w - w /\ n * w \in Int
  OBVIOUS

\* What the latest request has taken is covered by the attempts it has begun.
ElapsedInv ==
    /\ elapsed <= MaxRequest
    /\ pc = "get" => elapsed <= (attempt - 1) * Round + spent
    /\ pc = "sleep" => elapsed <= attempt * Round - LongestDelay + spent

LEMMA RoundFacts ==
  /\ Round \in Nat /\ MaxRequest \in Int /\ LongestDelay \in Nat /\ AttemptTime \in Nat
  /\ Round = AttemptTime + LongestDelay
  /\ MaxRequest = Attempts * Round - LongestDelay
  /\ 0 <= MaxRequest
  /\ \A n \in 1 .. Attempts : n * Round <= Attempts * Round
<1>1. /\ AttemptTime \in Nat /\ LongestDelay \in Nat /\ Attempts \in Nat \ {0}
  BY ClientAssumption, AttemptsPositive
<1>2. Round \in Nat /\ Round = AttemptTime + LongestDelay
  BY <1>1 DEF Round
<1>3. MaxRequest = Attempts * Round - LongestDelay
  BY DEF MaxRequest, Round
<1>4. ASSUME NEW n \in 1 .. Attempts PROVE n * Round <= Attempts * Round
  <2> HIDE DEF Round
  <2>1. n \in Nat /\ Attempts \in Nat /\ n <= Attempts
    BY <1>1
  <2> QED BY <1>2, <2>1, SMTT(30)
<1>5. 1 * Round <= Attempts * Round
  BY <1>1, <1>4
<1> QED BY <1>1, <1>2, <1>3, <1>4, <1>5

LEMMA ElapsedNext == StepInv /\ StepInv' /\ ElapsedInv /\ [Next]_vars => ElapsedInv'
<1> SUFFICES ASSUME StepInv, StepInv', ElapsedInv, [Next]_vars PROVE ElapsedInv'
  OBVIOUS
<1>0. /\ elapsed \in Nat /\ spent \in Nat /\ attempt \in Nat /\ delay \in 0 .. LongestDelay
      /\ Attempts \in Nat \ {0}
  BY AttemptsPositive DEF StepInv, TypeOK
<1>1. ASSUME NEW n \in 1 .. Attempts
      PROVE  /\ n * Round \in Int /\ (n - 1) * Round = n * Round - Round
             /\ n * Round <= Attempts * Round
  BY <1>0, RoundFacts, OneLess
<1>2. CASE Tick
  <2>1. CASE pc = "get"
    <3>1. /\ attempt \in 1 .. Attempts /\ spent + 1 <= AttemptTime
          /\ elapsed' = elapsed + 1 /\ spent' = spent + 1 /\ pc' = pc /\ attempt' = attempt
      BY <1>2, <2>1, <1>0, RoundFacts DEF Tick, Limit, StepInv, AttemptInv
    <3>2. elapsed <= (attempt - 1) * Round + spent
      BY <2>1 DEF ElapsedInv
    <3> QED BY <3>1, <3>2, <1>1, <1>0, <2>1, RoundFacts DEF ElapsedInv
  <2>2. CASE pc = "sleep"
    <3>1. /\ attempt \in 1 .. Attempts - 1 /\ spent + 1 <= delay
          /\ elapsed' = elapsed + 1 /\ spent' = spent + 1 /\ pc' = pc /\ attempt' = attempt
      BY <2>2, <1>2, <1>0 DEF Tick, Limit, StepInv, AttemptInv
    <3>2. elapsed <= attempt * Round - LongestDelay + spent
      BY <2>2 DEF ElapsedInv
    <3>3. /\ attempt + 1 \in 1 .. Attempts
          /\ attempt * Round = (attempt + 1) * Round - Round
          /\ (attempt + 1) * Round <= Attempts * Round
      BY <3>1, <1>0, <1>1, RoundFacts
    <3>4. attempt * Round <= MaxRequest
      BY <3>1, <3>3, <1>0, <1>1, RoundFacts
    <3> QED BY <3>1, <3>2, <3>4, <1>1, <1>0, <2>2, RoundFacts DEF ElapsedInv
  <2>3. CASE pc \notin {"get", "sleep"}
    BY <2>3, <1>2, <1>0, RoundFacts DEF Tick, Limit, ElapsedInv, MaxRequest
  <2> QED BY <2>1, <2>2, <2>3
<1>3. ASSUME pc' \notin {"get", "sleep"}, elapsed' = elapsed PROVE ElapsedInv'
  BY <1>3, RoundFacts DEF ElapsedInv, MaxRequest
<1>4. ASSUME NEW method \in {"quote", "list"}, BeginRequest(method) PROVE ElapsedInv'
  BY <1>4, RoundFacts DEF BeginRequest, ElapsedInv, MaxRequest
<1>5. ASSUME NEW answer \in Transient, NEW suggested \in Suggestions \union {NoHeader},
             Retry(answer, suggested)
      PROVE  ElapsedInv'
  <2>1. /\ attempt \in 1 .. Attempts /\ spent <= AttemptTime
        /\ elapsed <= (attempt - 1) * Round + spent
        /\ pc' = "sleep" /\ spent' = 0 /\ elapsed' = elapsed /\ attempt' = attempt
    BY <1>5 DEF Retry, Answered, ElapsedInv, StepInv, AttemptInv, Limit
  <2> QED BY <2>1, <1>0, <1>1, RoundFacts DEF ElapsedInv
<1>6. CASE Wake
  <2>1. /\ attempt \in 1 .. Attempts - 1 /\ spent <= LongestDelay
        /\ elapsed <= attempt * Round - LongestDelay + spent
        /\ pc' = "get" /\ spent' = 0 /\ elapsed' = elapsed /\ attempt' = attempt + 1
        /\ elapsed <= MaxRequest
    BY <1>6, <1>0 DEF Wake, ElapsedInv, StepInv, AttemptInv
  <2>2. attempt * Round = (attempt' - 1) * Round
    BY <2>1, <1>0
  <2> QED BY <2>1, <2>2, <1>0, <1>1, RoundFacts DEF ElapsedInv
<1>7. ASSUME pc' = pc, UNCHANGED <<elapsed, spent, attempt>> PROVE ElapsedInv'
  BY <1>7 DEF ElapsedInv
<1>8. CASE BeginCycle \/ EndCycle \/ KillStopped
  BY <1>8, <1>3 DEF BeginCycle, EndCycle, KillStopped, requestVars
<1>9. CASE RequestStop
  BY <1>9, <1>3, <1>7 DEF RequestStop, requestVars
<1>10. ASSUME NEW answer, NEW result, Ends(answer, result) PROVE ElapsedInv'
  BY <1>10, <1>3 DEF Ends, Answered
<1>11. CASE UNCHANGED vars
  BY <1>11, <1>7 DEF vars, requestVars
<1> QED
  BY <1>2, <1>4, <1>5, <1>6, <1>8, <1>9, <1>10, <1>11
  DEF Next, Request, Over, GiveUp, Refuse, Deliver

\* Retries are bounded: no server and no header makes one request take longer than
\* its attempts and the delays between them.
THEOREM RequestsAreBounded == Spec => []RequestTimeBounded
<1>1. Init => ElapsedInv
  BY RoundFacts DEF Init, ElapsedInv
<1>2. ElapsedInv => RequestTimeBounded
  BY DEF ElapsedInv, RequestTimeBounded
<1> QED BY <1>1, <1>2, StepInit, StepNext, ElapsedNext, PTL DEF Spec
----------------------------------------------------------------------------
\* The answers of the latest request: transient ones, then at most one that decides.
VerdictInv ==
    /\ pc \in {"get", "sleep"} => outcome = "none"
    /\ pc = "get" => Len(answers) = attempt - 1
    /\ pc = "sleep" => Len(answers) = attempt
    /\ pc \in {"get", "sleep"} => \A i \in 1 .. Len(answers) : answers[i] \in Transient
    /\ EndsAtTheVerdict

LEMMA VerdictNext == StepInv /\ VerdictInv /\ [Next]_vars => VerdictInv'
<1> SUFFICES ASSUME StepInv, VerdictInv, [Next]_vars PROVE VerdictInv'
  OBVIOUS
<1>0. /\ answers \in Seq(Answers) /\ Len(answers) \in Nat
      /\ Attempts \in Nat \ {0} /\ attempt \in 0 .. Attempts
      /\ outcome # "none" => pc \notin {"get", "sleep"}
  BY AttemptsPositive DEF StepInv, TypeOK, VerdictInv
<1>1. ASSUME NEW answer \in Answers, Answered(answer)
      PROVE  /\ Len(answers') = attempt /\ attempt \in 1 .. Attempts
             /\ answers'[attempt] = answer
             /\ \A i \in 1 .. attempt - 1 : answers'[i] \in Transient
  <2>1. /\ pc = "get" /\ answers' = Append(answers, answer)
        /\ attempt \in 1 .. Attempts /\ Len(answers) = attempt - 1
        /\ \A i \in 1 .. Len(answers) : answers[i] \in Transient
    BY <1>1 DEF Answered, VerdictInv, StepInv, AttemptInv
  <2> QED BY <2>1, <1>0
<1>2. ASSUME NEW answer \in Transient, NEW suggested, Retry(answer, suggested)
      PROVE  VerdictInv'
  <2>1. /\ pc = "get" /\ pc' = "sleep" /\ outcome = "none" /\ outcome' = "none"
        /\ attempt' = attempt /\ Answered(answer) /\ call' = call
    BY <1>2 DEF Retry, Answered, VerdictInv
  <2>2. /\ Len(answers') = attempt /\ attempt \in 1 .. Attempts
        /\ \A i \in 1 .. attempt : answers'[i] \in Transient
    BY <2>1, <1>1
  <2> QED BY <2>1, <2>2 DEF VerdictInv, EndsAtTheVerdict
<1>3. ASSUME NEW answer \in Answers, NEW result \in Good \union {"raised"},
             Ends(answer, result), answer \in Transient => attempt = Attempts,
             result = "raised" <=> (answer \notin Good \/ (answer = "empty" /\ call = "quote"))
      PROVE  VerdictInv'
  <2>1. /\ pc' = "between" /\ outcome' = result /\ Answered(answer) /\ call' = call
    BY <1>3 DEF Ends, Answered
  <2>2. /\ Len(answers') = attempt /\ attempt \in 1 .. Attempts
        /\ answers'[attempt] = answer
        /\ \A i \in 1 .. attempt - 1 : answers'[i] \in Transient
    BY <2>1, <1>1
  <2>3. \A i \in 1 .. Len(answers') - 1 : answers'[i] \in Transient
    BY <2>2
  <2>4. /\ Len(answers') \in 1 .. Attempts
        /\ answers'[Len(answers')] \in Transient => Len(answers') = Attempts
    BY <2>2, <1>3
  <2>5. answers'[Len(answers')] = answer
    BY <2>2
  <2>6. (outcome' = "raised") <=>
          \/ answers'[Len(answers')] \notin Good
          \/ answers'[Len(answers')] = "empty" /\ call' = "quote"
    BY <2>1, <2>5, <1>3
  <2>7. EndsAtTheVerdict'
    BY <2>3, <2>4, <2>6 DEF EndsAtTheVerdict
  <2> QED BY <2>1, <2>7 DEF VerdictInv
<1>4. ASSUME NEW answer \in Transient, GiveUp(answer) PROVE VerdictInv'
  <2>1. attempt = Attempts
    BY <1>4, <1>0 DEF GiveUp, LastAttempt
  <2>2. answer \in Answers /\ answer \notin Good /\ Ends(answer, "raised")
    BY <1>4 DEF GiveUp
  <2> QED BY <2>1, <2>2, <1>3
<1>5. ASSUME NEW answer \in Permanent, Refuse(answer) PROVE VerdictInv'
  <2>1. answer \in Answers \ (Transient \union Good) /\ Ends(answer, "raised")
    BY <1>5 DEF Refuse
  <2> QED BY <2>1, <1>3
<1>6. ASSUME NEW answer \in Good, Deliver(answer) PROVE VerdictInv'
  BY <1>6, <1>3 DEF Deliver
<1>7. CASE Wake
  BY <1>7, <1>0 DEF Wake, VerdictInv, EndsAtTheVerdict
<1>8. ASSUME NEW method, BeginRequest(method) PROVE VerdictInv'
  BY <1>8 DEF BeginRequest, VerdictInv, EndsAtTheVerdict
<1>9. ASSUME UNCHANGED <<call, attempt, outcome, answers>>,
             pc' = pc \/ pc' \notin {"get", "sleep"}
      PROVE  VerdictInv'
  BY <1>9 DEF VerdictInv, EndsAtTheVerdict
<1>10. CASE Tick
  BY <1>10, <1>9 DEF Tick
<1>11. CASE BeginCycle \/ EndCycle \/ RequestStop \/ KillStopped
  BY <1>11, <1>9 DEF BeginCycle, EndCycle, RequestStop, KillStopped, requestVars
<1>12. CASE UNCHANGED vars
  BY <1>12, <1>9 DEF vars, requestVars
<1> QED
  BY <1>2, <1>4, <1>5, <1>6, <1>7, <1>8, <1>10, <1>11, <1>12 DEF Next, Request, Over

\* Every request ends at the first answer that decides it, or at its last attempt.
THEOREM RequestsEndAtTheVerdict == Spec => []EndsAtTheVerdict
<1>1. Init => VerdictInv
  BY DEF Init, VerdictInv, EndsAtTheVerdict
<1>2. VerdictInv => EndsAtTheVerdict
  BY DEF VerdictInv
<1> QED BY <1>1, <1>2, StepInit, StepNext, VerdictNext, PTL DEF Spec
----------------------------------------------------------------------------
\* The longest rest of the cycle in flight, every answer being the slowest, fits what is
\* left of the patience of the supervisor.
RestFits == waited + left * Turn + OwnRest < StopTimeout

\* A stop request has come while the rest fits ...
StopInTime == stopping /\ InCycle /\ RestFits

\* ... and goes on to fit, until the process has left by itself.
Obeying ==
    /\ stopping
    /\ pc \notin {"idle", "killed"}
    /\ InCycle => RestFits

LEMMA TurnFacts ==
  /\ Turn \in Nat /\ MaxWork \in Nat /\ Requests \in Nat
  /\ Turn = MaxRequest + MaxWork
  /\ \A n \in Nat : n * Turn \in Nat /\ (n - 1) * Turn = n * Turn - Turn
<1>1. Turn \in Nat /\ MaxWork \in Nat /\ Requests \in Nat
  BY RoundFacts, ClientAssumption DEF Turn
<1>2. Turn = MaxRequest + MaxWork
  BY DEF Turn
<1> HIDE DEF Turn
<1>3. ASSUME NEW n \in Nat PROVE n * Turn \in Nat
  BY <1>1, <1>3, SMTT(30)
<1>4. ASSUME NEW n \in Nat PROVE (n - 1) * Turn = n * Turn - Turn
  BY <1>1, OneLess
<1> QED BY <1>1, <1>2, <1>3, <1>4

\* What is left of a request is never negative.
LEMMA OwnRestNat == StepInv /\ InCycle => OwnRest \in Nat /\ left * Turn \in Nat
<1> SUFFICES ASSUME StepInv, InCycle PROVE OwnRest \in Nat /\ left * Turn \in Nat
  OBVIOUS
<1>1. /\ left \in Nat /\ delay \in 0 .. LongestDelay /\ spent \in Nat
      /\ attempt \in Nat /\ Attempts \in Nat \ {0} /\ MaxWork \in Nat
  BY AttemptsPositive, TurnFacts DEF StepInv, TypeOK
<1>2. left * Turn \in Nat
  BY <1>1, TurnFacts
<1>3. CASE pc = "between"
  BY <1>1, <1>2, <1>3 DEF OwnRest, StepInv, AttemptInv, Limit
<1>4. CASE pc = "get"
  <2>1. attempt \in 1 .. Attempts /\ spent <= AttemptTime
    BY <1>4 DEF StepInv, AttemptInv, Limit
  <2>2. (Attempts - attempt) * Round \in Nat
    BY <1>1, <2>1, RoundFacts, SMTT(30)
  <2> QED BY <2>1, <2>2, <1>1, <1>2, <1>4, RoundFacts DEF OwnRest
<1>5. CASE pc = "sleep"
  <2>1. attempt \in 1 .. Attempts - 1 /\ spent <= delay
    BY <1>5 DEF StepInv, AttemptInv, Limit
  <2>2. (Attempts - attempt) * Round >= Round
    <3>1. Attempts - attempt \in Nat /\ Attempts - attempt >= 1
      BY <2>1, <1>1
    <3> QED BY <3>1, RoundFacts, SMTT(30)
  <2>3. (Attempts - attempt) * Round \in Int
    BY <2>1, <1>1, RoundFacts
  <2> QED BY <2>1, <2>2, <2>3, <1>1, <1>2, <1>5, RoundFacts DEF OwnRest
<1> QED BY <1>3, <1>4, <1>5 DEF InCycle

LEMMA ObeyingNext ==
  ASSUME StepInv, StepInv', Obeying, [Next]_vars
  PROVE  Obeying'
<1>0. /\ left \in Nat /\ delay \in 0 .. LongestDelay /\ spent \in Nat /\ waited \in Nat
      /\ attempt \in 0 .. Attempts /\ Attempts \in Nat \ {0} /\ MaxWork \in Nat
      /\ StopTimeout \in Nat /\ stopping \in BOOLEAN
  BY AttemptsPositive, TurnFacts, ClientAssumption DEF StepInv, TypeOK
<1>1. ASSUME NEW n \in Int PROVE n * Round \in Int /\ (n - 1) * Round = n * Round - Round
  BY RoundFacts, OneLess
<1>2. Attempts - attempt \in Int /\ (Attempts - attempt) * Round \in Int
  BY <1>0, <1>1
<1>3. CASE Tick
  <2>1. InCycle => OwnRest' = OwnRest - 1 /\ left' * Turn = left * Turn
    <3> DEFINE rounds == (Attempts - attempt) * Round
    <3>1. /\ pc' = pc /\ left' = left /\ attempt' = attempt /\ delay' = delay
          /\ spent' = spent + 1
      BY <1>3 DEF Tick
    <3>2. OwnRest = CASE pc = "between" -> MaxWork - spent
                      [] pc = "get"     -> MaxWork + rounds + AttemptTime - spent
                      [] pc = "sleep"   -> MaxWork + rounds - LongestDelay + delay - spent
                      [] OTHER          -> 0
      BY DEF OwnRest
    <3>3. OwnRest' = CASE pc = "between" -> MaxWork - (spent + 1)
                       [] pc = "get"     -> MaxWork + rounds + AttemptTime - (spent + 1)
                       [] pc = "sleep"   -> MaxWork + rounds - LongestDelay + delay - (spent + 1)
                       [] OTHER          -> 0
      BY <3>1 DEF OwnRest
    <3>4. rounds \in Int
      BY <1>2
    <3> HIDE DEF rounds
    <3>5. LongestDelay \in Nat /\ AttemptTime \in Nat
      BY ClientAssumption
    <3>6. InCycle => OwnRest' = OwnRest - 1
      BY <3>2, <3>3, <3>4, <3>5, <1>0 DEF InCycle
    <3> QED BY <3>1, <3>6
  <2>2. waited' = waited + 1
    BY <1>3 DEF Tick, Obeying
  <2>3. InCycle => OwnRest \in Nat /\ left * Turn \in Nat
    BY OwnRestNat
  <2>4. pc' = pc /\ stopping' = stopping
    BY <1>3 DEF Tick
  <2>5. InCycle => waited' + left' * Turn + OwnRest' < StopTimeout
    BY <2>1, <2>2, <2>3, <1>0 DEF Obeying, RestFits
  <2> QED BY <2>4, <2>5 DEF Obeying, InCycle, RestFits
<1>4. CASE BeginCycle \/ RequestStop
  BY <1>4 DEF BeginCycle, RequestStop, Obeying
<1>5. CASE EndCycle
  BY <1>5 DEF EndCycle, Obeying, InCycle, stopVars
<1>7. CASE KillStopped
  <2>1. InCycle /\ waited >= StopTimeout
    BY <1>7 DEF KillStopped, Obeying, InCycle, Gone, StepInv, TypeOK
  <2>2. OwnRest \in Nat /\ left * Turn \in Nat
    BY <2>1, OwnRestNat
  <2>3. waited < StopTimeout
    BY <2>1, <2>2, <1>0 DEF Obeying, RestFits
  <2> QED BY <2>1, <2>3, <1>0
<1>8. ASSUME InCycle, InCycle', UNCHANGED stopVars,
             left' * Turn + OwnRest' <= left * Turn + OwnRest,
             OwnRest \in Int, OwnRest' \in Int, left * Turn \in Int, left' * Turn \in Int
      PROVE  Obeying'
  <2>1. waited' = waited /\ stopping' = stopping /\ pc' # "killed" /\ pc' # "idle"
    BY <1>8 DEF stopVars, InCycle
  <2>2. waited + left * Turn + OwnRest < StopTimeout
    BY <1>8 DEF Obeying, RestFits
  <2>3. waited' + left' * Turn + OwnRest' < StopTimeout
    BY <1>8, <2>1, <2>2, <1>0
  <2> QED BY <2>1, <2>3 DEF Obeying, RestFits
<1>9. ASSUME NEW method, BeginRequest(method) PROVE Obeying'
  <2>1. /\ pc = "between" /\ pc' = "get" /\ spent' = 0 /\ attempt' = 1 /\ left' = left - 1
        /\ UNCHANGED stopVars
    BY <1>9 DEF BeginRequest
  <2>2. OwnRest = MaxWork - spent /\ spent <= MaxWork
    BY <2>1 DEF OwnRest, StepInv, AttemptInv, Limit
  <2>3. OwnRest' = MaxWork + (Attempts - 1) * Round + AttemptTime
    BY <2>1, <1>0, RoundFacts, <1>1 DEF OwnRest
  <2>4. (Attempts - 1) * Round = Attempts * Round - Round /\ Attempts * Round \in Int
    BY <1>0, <1>1
  <2>5. left' * Turn = left * Turn - Turn /\ left * Turn \in Nat
    BY <2>1, <1>0, TurnFacts
  <2>6. OwnRest' = Turn
    BY <2>3, <2>4, <1>0, RoundFacts, TurnFacts
  <2>7. OwnRest \in Nat
    BY <2>2, <1>0
  <2>8. OwnRest' \in Nat /\ left' * Turn + OwnRest' <= left * Turn + OwnRest
    BY <2>5, <2>6, <2>7, TurnFacts
  <2>9. left' * Turn \in Int
    BY <2>5, TurnFacts
  <2> QED BY <2>1, <2>5, <2>7, <2>8, <2>9, <1>8 DEF InCycle
<1>10. ASSUME NEW answer \in Transient, NEW suggested \in Suggestions \union {NoHeader},
              Retry(answer, suggested)
       PROVE  Obeying'
  <2>1. /\ pc = "get" /\ pc' = "sleep" /\ spent' = 0 /\ attempt' = attempt /\ left' = left
        /\ spent <= AttemptTime /\ delay' \in 0 .. LongestDelay /\ UNCHANGED stopVars
    BY <1>10 DEF Retry, Answered, StepInv, AttemptInv, Limit, TypeOK
  <2>2. OwnRest = MaxWork + (Attempts - attempt) * Round + AttemptTime - spent
    BY <2>1 DEF OwnRest
  <2>3. OwnRest' = MaxWork + (Attempts - attempt) * Round - LongestDelay + delay'
    BY <2>1, <1>0, <1>2, RoundFacts DEF OwnRest
  <2>4. OwnRest \in Int /\ OwnRest' \in Int /\ OwnRest' <= OwnRest
    <3> DEFINE rounds == (Attempts - attempt) * Round
    <3>1. rounds \in Int /\ OwnRest = MaxWork + rounds + AttemptTime - spent
          /\ OwnRest' = MaxWork + rounds - LongestDelay + delay'
      BY <2>2, <2>3, <1>2
    <3> HIDE DEF rounds
    <3>2. LongestDelay \in Nat /\ AttemptTime \in Nat
      BY ClientAssumption
    <3>3. /\ spent \in Nat /\ spent <= AttemptTime /\ MaxWork \in Nat
          /\ delay' \in Nat /\ delay' <= LongestDelay
      BY <2>1, <3>2, <1>0
    <3>4. OwnRest \in Int /\ OwnRest' \in Int
      BY <3>1, <3>2, <3>3
    <3>5. OwnRest' <= MaxWork + rounds
      <4>1. ASSUME NEW d \in 0 .. LongestDelay
            PROVE  MaxWork + rounds - LongestDelay + d <= MaxWork + rounds
        BY <3>1, <3>2, <3>3
      <4> QED BY <2>1, <3>1, <4>1
    <3>6. MaxWork + rounds <= OwnRest
      BY <3>1, <3>2, <3>3
    <3> QED BY <3>1, <3>3, <3>4, <3>5, <3>6
  <2>5. left * Turn \in Int /\ left' * Turn = left * Turn
    BY <2>1, <1>0, TurnFacts
  <2> QED BY <2>1, <2>4, <2>5, <1>8 DEF InCycle
<1>11. CASE Wake
  <2>1. /\ pc = "sleep" /\ pc' = "get" /\ spent = delay /\ spent' = 0 /\ left' = left
        /\ attempt' = attempt + 1 /\ UNCHANGED stopVars
    BY <1>11 DEF Wake
  <2>2. OwnRest = MaxWork + (Attempts - attempt) * Round - LongestDelay
    BY <2>1, <1>0, <1>2, RoundFacts DEF OwnRest
  <2>3. OwnRest' = MaxWork + (Attempts - attempt') * Round + AttemptTime
    <3>1. (Attempts - attempt') * Round \in Int
      BY <2>1, <1>0, <1>1
    <3> QED BY <2>1, <3>1, <1>0, RoundFacts DEF OwnRest
  <2>4. (Attempts - attempt') * Round = (Attempts - attempt) * Round - Round
    <3>1. Attempts - attempt' = (Attempts - attempt) - 1
      BY <2>1, <1>0
    <3> QED BY <3>1, <1>1, <1>2
  <2>5. OwnRest' = OwnRest /\ OwnRest \in Int
    BY <2>2, <2>3, <2>4, <1>0, <1>2, RoundFacts
  <2>6. left * Turn \in Int /\ left' * Turn = left * Turn
    BY <2>1, <1>0, TurnFacts
  <2> QED BY <2>1, <2>5, <2>6, <1>8 DEF InCycle
<1>12. ASSUME NEW answer, NEW result, Ends(answer, result) PROVE Obeying'
  <2>1. /\ pc = "get" /\ pc' = "between" /\ spent' = 0 /\ attempt' = attempt /\ left' = left
        /\ spent <= AttemptTime /\ attempt \in 1 .. Attempts /\ UNCHANGED stopVars
    BY <1>12 DEF Ends, Answered, StepInv, AttemptInv, Limit
  <2>2. OwnRest = MaxWork + (Attempts - attempt) * Round + AttemptTime - spent
    BY <2>1 DEF OwnRest
  <2>3. OwnRest' = MaxWork
    BY <2>1, <1>0 DEF OwnRest
  <2>4. (Attempts - attempt) * Round \in Nat
    <3>1. Attempts - attempt \in Nat
      BY <2>1, <1>0
    <3> QED BY <3>1, RoundFacts, SMTT(30)
  <2>5. OwnRest \in Int /\ OwnRest' \in Int /\ OwnRest' <= OwnRest
    BY <2>1, <2>2, <2>3, <2>4, <1>0, RoundFacts
  <2>6. left * Turn \in Int /\ left' * Turn = left * Turn
    BY <2>1, <1>0, TurnFacts
  <2> QED BY <2>1, <2>5, <2>6, <1>8 DEF InCycle
<1>13. CASE UNCHANGED vars
  BY <1>13 DEF vars, stopVars, requestVars, Obeying, RestFits, InCycle, OwnRest
<1> QED
  BY <1>3, <1>4, <1>5, <1>7, <1>9, <1>10, <1>11, <1>12, <1>13
  DEF Next, Request, Over, GiveUp, Refuse, Deliver

\* A stop that comes while the longest rest of the cycle in flight fits TimeoutStopSec
\* never ends in a kill, under any limits, the shipped ones included: what is true of the
\* comment of the service file (tradier-collector.service:36), which claims it of every stop.
THEOREM StopsInTimeArePolite == Spec => [](StopInTime => []StopIsPolite)
<1>1. StopInTime => Obeying
  BY DEF StopInTime, Obeying, InCycle
<1>2. Obeying => StopIsPolite
  BY DEF Obeying, StopIsPolite
<1>3. StepInv /\ StepInv' /\ Obeying /\ [Next]_vars => Obeying'
  BY ObeyingNext
<1> QED BY <1>1, <1>2, <1>3, StepInit, StepNext, PTL DEF Spec
=============================================================================
