------------------------------- MODULE Client -------------------------------
(***************************************************************************)
(* The API client of tradier_collector/tradier_client.py under a stop: the *)
(* retry loop of _request with its delays, the requests of one collection  *)
(* cycle after the other, the stop signal, which is seen only when the     *)
(* cycle in flight has ended, and the supervisor, which kills a process    *)
(* that takes longer to stop than TimeoutStopSec.  Time is in ticks.       *)
(***************************************************************************)
EXTENDS Integers, Sequences

CONSTANTS
    MaxAttempts,   \* http_max_attempts
    AttemptTime,   \* the longest session.get: connect and read timeout
    MaxRetryAfter, \* the largest Retry-After that is believed
    Suggestions,   \* what the Retry-After header of a response may say
    NoHeader,      \* there is no Retry-After header, or no response
    LongestDelay,  \* a bound of all delays between attempts
    Requests,      \* the most requests a cycle makes
    MaxWork,       \* the longest computation between two requests
    StopTimeout    \* TimeoutStopSec

\* max_attempts of the client: at least one.
Attempts == IF MaxAttempts < 1 THEN 1 ELSE MaxAttempts

\* The exponential part of _retry_delay.
Backoff(n) == 2 ^ (n - 1)

ASSUME ClientAssumption ==
    /\ MaxAttempts \in Int
    /\ {AttemptTime, MaxRetryAfter, LongestDelay, Requests, MaxWork, StopTimeout} \subseteq Nat
    /\ Suggestions \subseteq Int /\ NoHeader \notin Int
    /\ MaxRetryAfter <= LongestDelay
    /\ \A n \in 1 .. Attempts : Backoff(n) \in 0 .. LongestDelay

VARIABLES
    pc,       \* "idle", "between" (requests of a cycle), "get", "sleep", "exited", "killed"
    left,     \* the requests the cycle may still make
    call,     \* the method in progress: "quote" for get_quote, "list" for the others
    attempt,  \* attempt of _request
    delay,    \* the delay being slept
    spent,    \* ticks in the present step
    elapsed,  \* ticks of the request
    outcome,  \* of the latest request: "none", "data", "empty" or "raised"
    answers,  \* history: the answers to the attempts of the latest request
    stopping, \* a stop signal has arrived
    waited    \* ticks since the stop signal

requestVars == <<left, call, attempt, delay, elapsed, outcome, answers>>
stopVars == <<stopping, waited>>
vars == <<pc, spent, requestVars, stopVars>>

Transient == {"transport", "busy"}     \* RequestException; 429 and most of 5xx
Permanent == {"refused", "garbled"}    \* other statuses from 400; not a JSON object
Good      == {"data", "empty"}         \* an object, with or without what is asked for
----------------------------------------------------------------------------
Init ==
    /\ pc = "idle"
    /\ left = 0 /\ call = "list" /\ attempt = 0 /\ delay = 0
    /\ spent = 0 /\ elapsed = 0
    /\ outcome = "none" /\ answers = <<>>
    /\ stopping = FALSE /\ waited = 0

\* The longest the present step may take.
Limit == CASE pc = "between" -> MaxWork
           [] pc = "get"     -> AttemptTime
           [] pc = "sleep"   -> delay
           [] OTHER          -> 0

Gone == pc \in {"exited", "killed"}

\* Time passes; the supervisor does not wait longer than StopTimeout.
Tick ==
    /\ spent < Limit
    /\ stopping => waited < StopTimeout
    /\ spent' = spent + 1
    /\ elapsed' = IF pc = "between" THEN elapsed ELSE elapsed + 1
    /\ waited' = IF stopping THEN waited + 1 ELSE waited
    /\ UNCHANGED <<pc, left, call, attempt, delay, outcome, answers, stopping>>

\* A boundary has come: the cycle may make its requests.
BeginCycle ==
    /\ pc = "idle"
    /\ pc' = "between" /\ spent' = 0
    /\ left' = Requests
    /\ UNCHANGED <<call, attempt, delay, elapsed, outcome, answers, stopVars>>

\* Mutated form: the stop flag is not looked at.
EndCycleUnlooked ==
    /\ pc = "between"
    /\ pc' = "idle"
    /\ spent' = 0
    /\ UNCHANGED <<requestVars, stopVars>>

\* The cycle is over, maybe early; the loop of the scheduler looks at the stop flag.
EndCycle ==
    /\ pc = "between"
    /\ pc' = IF stopping THEN "exited" ELSE "idle"
    /\ spent' = 0
    /\ UNCHANGED <<requestVars, stopVars>>

\* SIGTERM sets a flag; only a process outside a cycle obeys at once.
RequestStop ==
    /\ ~stopping
    /\ stopping' = TRUE /\ waited' = 0
    /\ pc' = IF pc = "idle" THEN "exited" ELSE pc
    /\ UNCHANGED <<spent, requestVars>>

\* SIGKILL after TimeoutStopSec: no final health write.
KillStopped ==
    /\ stopping /\ waited >= StopTimeout /\ ~Gone
    /\ pc' = "killed"
    /\ UNCHANGED <<spent, requestVars, stopVars>>
----------------------------------------------------------------------------
BeginRequest(method) ==
    /\ pc = "between" /\ left > 0
    /\ pc' = "get" /\ spent' = 0 /\ elapsed' = 0
    /\ left' = left - 1 /\ call' = method /\ attempt' = 1
    /\ outcome' = "none" /\ answers' = <<>>
    /\ UNCHANGED <<delay, stopVars>>

Answered(answer) ==
    /\ pc = "get"
    /\ answers' = Append(answers, answer)
    /\ spent' = 0
    /\ UNCHANGED <<left, call, elapsed, stopVars>>

\* _request returns or raises.
Ends(answer, result) ==
    /\ Answered(answer)
    /\ pc' = "between" /\ outcome' = result
    /\ UNCHANGED <<attempt, delay>>

\* Mutated form: every sane or absurd header is believed.
RetryDelayAny(n, suggested) ==
    IF suggested # NoHeader /\ suggested > Backoff(n) THEN suggested ELSE Backoff(n)

\* _retry_delay: an absurd header is ignored, a sane one only lengthens the delay.
RetryDelay(n, suggested) ==
    IF suggested # NoHeader /\ suggested \in Backoff(n) .. MaxRetryAfter
    THEN suggested ELSE Backoff(n)

LastAttempt == attempt >= Attempts

\* Only a response has headers; a transport error has the plain backoff.
Retry(answer, suggested) ==
    /\ ~LastAttempt
    /\ suggested # NoHeader => answer = "busy"
    /\ Answered(answer)
    /\ pc' = "sleep" /\ delay' = RetryDelay(attempt, suggested)
    /\ UNCHANGED <<attempt, outcome>>

Wake ==
    /\ pc = "sleep" /\ spent = delay
    /\ pc' = "get" /\ spent' = 0
    /\ attempt' = attempt + 1
    /\ UNCHANGED <<left, call, delay, elapsed, outcome, answers, stopVars>>

\* Mutated form: the last attempt is not made.
GiveUpEarly(answer) == attempt + 1 >= Attempts /\ Ends(answer, "raised")

GiveUp(answer) == LastAttempt /\ Ends(answer, "raised")

Refuse(answer) == Ends(answer, "raised")

\* get_quote raises when there is no quote, the other methods return an empty list.
Deliver(answer) ==
    Ends(answer, IF answer = "empty" /\ call = "quote" THEN "raised" ELSE answer)

Request ==
    \/ \E method \in {"quote", "list"} : BeginRequest(method)
    \/ \E answer \in Transient :
         \/ GiveUp(answer)
         \/ \E suggested \in Suggestions \union {NoHeader} : Retry(answer, suggested)
    \/ \E answer \in Permanent : Refuse(answer)
    \/ \E answer \in Good : Deliver(answer)
    \/ Wake

\* The process is gone for good.
Over == Gone /\ UNCHANGED vars

Next == Tick \/ BeginCycle \/ EndCycle \/ RequestStop \/ KillStopped \/ Request \/ Over

Spec == Init /\ [][Next]_vars

\* Wall time passes, a request in flight is answered or times out, and a cycle goes on.
FairSpec == Spec /\ WF_vars(Tick) /\ WF_vars(Request \/ EndCycle)
----------------------------------------------------------------------------
(***************************************************************************)
(* Properties.                                                             *)
(***************************************************************************)
Answers == Transient \union Permanent \union Good

\* Every variable of the client and of the stop has its type.
TypeOK ==
    /\ pc \in {"idle", "between", "get", "sleep", "exited", "killed"}
    /\ left \in 0 .. Requests
    /\ call \in {"quote", "list"}
    /\ attempt \in 0 .. Attempts
    /\ delay \in 0 .. LongestDelay
    /\ spent \in Nat /\ elapsed \in Nat /\ waited \in Nat
    /\ outcome \in Good \union {"none", "raised"}
    /\ answers \in Seq(Answers)
    /\ stopping \in BOOLEAN

\* The longest one request may take: no delay follows the last attempt.
MaxRequest == Attempts * (AttemptTime + LongestDelay) - LongestDelay

\* Whatever the server answers and whatever it suggests, one request takes no longer
\* than its attempts and the delays between them: retries are bounded (I10), and a bad
\* Retry-After "cannot stall the session" (_retry_delay).
RequestTimeBounded == elapsed <= MaxRequest

\* A request ends at its first answer that is not transient, or at the last attempt,
\* and its outcome is what that answer says: nothing permanent is retried, nothing
\* transient is taken for an outcome while attempts are left (RETRY_STATUSES).
EndsAtTheVerdict ==
    LET n == Len(answers)
    IN  /\ \A i \in 1 .. n - 1 : answers[i] \in Transient
        /\ outcome # "none" =>
             /\ n \in 1 .. Attempts
             /\ answers[n] \in Transient => n = Attempts
             /\ outcome = "raised" <=> \/ answers[n] \notin Good
                                       \/ answers[n] = "empty" /\ call = "quote"

\* A stop is polite: the cycle in flight ends, and the health file is written, before
\* the supervisor loses patience (tradier-collector.service:36).
StopIsPolite == pc # "killed"

\* The longest an attempt and the delay after it may take.
Round == AttemptTime + LongestDelay

\* A request that may still be made, and the computation after it.
Turn == MaxRequest + MaxWork

\* The longest the present request may still take, with the computation after it.
OwnRest ==
    CASE pc = "between" -> MaxWork - spent
      [] pc = "get"     -> MaxWork + (Attempts - attempt) * Round + AttemptTime - spent
      [] pc = "sleep"   -> MaxWork + (Attempts - attempt) * Round - LongestDelay + delay - spent
      [] OTHER          -> 0

InCycle == pc \in {"between", "get", "sleep"}

\* A stop request is obeyed, by the end of the process and its final health write,
\* whenever the rest of the cycle in flight fits what is left of the supervisor's patience,
\* every later answer being the slowest: only a longer rest can make the stop a kill.
StopInTimeExits ==
    stopping /\ InCycle /\ waited + left * Turn + OwnRest < StopTimeout ~> pc = "exited"
=============================================================================
