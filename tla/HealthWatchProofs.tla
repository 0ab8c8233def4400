-------------------------- MODULE HealthWatchProofs -------------------------
(***************************************************************************)
(* What holds of HealthWatch.tla for every session, interval, set of       *)
(* tickers, write period and silence limit.                                *)
(***************************************************************************)
EXTENDS HealthWatch, MarketClockProofs, FiniteSetTheorems

Trackers == [Tickers -> TickerHealth]

LEMMA ConstantTypes ==
    /\ Start \in Nat /\ End \in Nat
    /\ Grace \in Nat /\ MaxSilence \in Nat /\ Horizon \in Nat
    /\ None \notin Trackers /\ None \notin Nat
<1>1. Day \in Days /\ Start \in Time /\ End \in Time
  BY HealthWatchAssumption, CalendarTypes, SessionsWithinTheirDay, ClockBounds
     DEF Start, End, HasWindow, WindowEnd, IsEarlyClose
<1> QED BY <1>1, HealthWatchAssumption, ClockBounds DEF Time, Trackers, TickerHealth

LEMMA TrackerTypes ==
    /\ Unobserved \in Trackers
    /\ NoFile \in Files /\ Damaged \in Files
    /\ \A tracker \in Trackers : \A finished \in BOOLEAN : Written(tracker, finished) \in Files
BY DEF Unobserved, Trackers, TickerHealth, NoFile, Damaged, Files, Written

----------------------------------------------------------------------------
(***************************************************************************)
(* Type correctness.                                                       *)
(***************************************************************************)
LEMMA InitType == Init => TypeOK
<1> SUFFICES ASSUME Init PROVE TypeOK
  OBVIOUS
<1>1. repeated \in BOOLEAN /\ beside \in BOOLEAN
  BY DEF Init
<1>2. file \in Files /\ now \in Time
  BY TrackerTypes, ConstantTypes DEF Init, Time
<1>3. /\ sampled = {} /\ observed = [t \in Tickers |-> {}]
      /\ mem = None /\ once = None /\ last = None /\ pc = "off"
      /\ boundary = 0 /\ unwritten = 0 /\ spent = 0 /\ onceAt = 0
      /\ boots = 0 /\ deaths = 0 /\ since = 0
  BY DEF Init
<1> QED BY <1>1, <1>2, <1>3 DEF TypeOK

LEMMA RestoredType ==
    ASSUME TypeOK
    PROVE  /\ Restored \in Trackers /\ Restored # None
           /\ Written(Restored, FALSE) \in Files
           /\ Finalised \in Files
BY TrackerTypes, ConstantTypes DEF TypeOK, Restored, Finalised, Files, Trackers

LEMMA EnsuredType ==
    ASSUME TypeOK, Ensured
    PROVE  mem' \in Trackers /\ mem' # None /\ file' \in Files /\ unwritten' \in Nat
<1>1. CASE mem = None
  <2>1. mem' = Restored /\ file' = Written(Restored, FALSE) /\ unwritten' = 0
    BY <1>1 DEF Ensured
  <2> QED BY <2>1, RestoredType
<1>2. CASE mem # None
  BY <1>2 DEF Ensured, TypeOK, Trackers
<1> QED BY <1>1, <1>2

LEMMA LoopType ==
    ASSUME TypeOK, Tick \/ Boot \/ Schedule \/ SkipStale
    PROVE  TypeOK'
<1> USE DEF TypeOK, onceVars, lifeVars, historyVars
<1>1. CASE Tick
  BY <1>1, ConstantTypes DEF Tick, Time
<1>2. CASE Boot
  BY <1>2 DEF Boot, MayBoot
<1>3. CASE Schedule
  <2>1. now \in Nat /\ NextBoundary(now) \in Nat
    BY NextBoundaryIsNext, ConstantTypes DEF Time
  <2>2. Chosen \in Nat
    BY <2>1, ConstantTypes DEF Chosen
  <2> QED BY <1>3, <2>2 DEF Schedule
<1>4. CASE SkipStale
  BY <1>4 DEF SkipStale
<1> QED BY <1>1, <1>2, <1>3, <1>4

LEMMA CycleBeginsType ==
    ASSUME TypeOK, BeginCycle
    PROVE  TypeOK'
<1>1. mem' \in Trackers /\ mem' # None /\ file' \in Files /\ unwritten' \in Nat
  BY EnsuredType DEF BeginCycle
<1> QED BY <1>1 DEF BeginCycle, TypeOK, Trackers, onceVars, lifeVars, historyVars

LEMMA RecordedType ==
    ASSUME NEW tracker \in Trackers, NEW at \in Nat, NEW good \in SUBSET Tickers
    PROVE  Recorded(tracker, at, good) \in Trackers
<1>1. \A t \in Tickers : tracker[t] \in TickerHealth
  BY DEF Trackers
<1>2. \A health \in TickerHealth : \A ok \in BOOLEAN : Counted(health, at, ok) \in TickerHealth
  <2> SUFFICES ASSUME NEW health \in TickerHealth, NEW ok \in BOOLEAN
               PROVE  Counted(health, at, ok) \in TickerHealth
    OBVIOUS
  <2>1. health.observed \in Nat /\ health.errors \in Nat
    BY DEF TickerHealth
  <2>2. CASE ok
    <3>1. Counted(health, at, ok) = [health EXCEPT !.observed = @ + 1, !.last = at]
      BY <2>2 DEF Counted
    <3>2. health.observed + 1 \in Nat /\ at \in Nat \union {None}
      BY <2>1
    <3> QED BY <3>1, <3>2 DEF TickerHealth
  <2>3. CASE ~ok
    BY <2>1, <2>3 DEF Counted, TickerHealth
  <2> QED BY <2>2, <2>3
<1>3. \A t \in Tickers : Counted(tracker[t], at, t \in good) \in TickerHealth
  <2> SUFFICES ASSUME NEW t \in Tickers
               PROVE  Counted(tracker[t], at, t \in good) \in TickerHealth
    OBVIOUS
  <2>1. (t \in good) \in BOOLEAN
    OBVIOUS
  <2> QED BY <1>1, <1>2, <2>1
<1> QED BY <1>3 DEF Recorded, Trackers

LEMMA NotedType ==
    ASSUME TypeOK, NEW at \in Nat, NEW good \in SUBSET Tickers, Noted(at, good)
    PROVE  /\ sampled' \in SUBSET Nat /\ observed' \in [Tickers -> SUBSET Nat]
           /\ repeated' \in BOOLEAN
BY DEF Noted, TypeOK

LEMMA EndCycleType ==
    ASSUME TypeOK, NEW good \in SUBSET Tickers, EndCycle(good)
    PROVE  TypeOK'
<1>1. mem \in Trackers /\ boundary \in Nat /\ unwritten \in Nat /\ file \in Files
  BY DEF EndCycle, TypeOK, Trackers
<1>2. mem' \in Trackers
  BY <1>1, RecordedType DEF EndCycle
<1>3. Written(mem', FALSE) \in Files
  BY <1>2, TrackerTypes
<1>4. file' \in {file, Written(mem', FALSE)} /\ unwritten' \in {0, unwritten + 1}
  BY DEF EndCycle
<1>5. Noted(boundary, good)
  BY DEF EndCycle
<1>6. /\ sampled' \in SUBSET Nat /\ observed' \in [Tickers -> SUBSET Nat]
      /\ repeated' \in BOOLEAN
  BY <1>1, <1>5, NotedType
<1>7. /\ pc' = "top" /\ last' = boundary
      /\ UNCHANGED <<now, boundary, once, onceAt, spent, boots, deaths, since>>
  BY DEF EndCycle, onceVars, lifeVars
<1>8. beside' \in BOOLEAN
  BY DEF EndCycle, TypeOK
<1>9. file' \in Files /\ unwritten' \in Nat
  <2>1. file' \in Files
    BY <1>1, <1>3, <1>4
  <2>2. unwritten' \in Nat
    BY <1>1, <1>4
  <2> QED BY <2>1, <2>2
<1> QED BY <1>1, <1>2, <1>6, <1>7, <1>8, <1>9 DEF TypeOK, Trackers

LEMMA OnceType ==
    ASSUME TypeOK, \/ RunOnce \/ InterruptOnce
                   \/ \E good \in SUBSET Tickers : EndOnce(good)
    PROVE  TypeOK'
<1>1. now \in Nat /\ onceAt \in Nat
  BY ConstantTypes DEF TypeOK, Time
<1>2. CASE RunOnce
  <2>1. once' \in Trackers /\ file' \in Files
    BY <1>2, RestoredType DEF RunOnce
  <2>2. onceAt' = now /\ boots' = boots + 1 /\ beside' \in BOOLEAN
    BY <1>2 DEF RunOnce, TypeOK
  <2>3. UNCHANGED <<now, processVars, deaths, since, historyVars>>
    BY <1>2 DEF RunOnce
  <2> QED BY <1>1, <2>1, <2>2, <2>3 DEF TypeOK, Trackers, processVars, historyVars
<1>3. CASE InterruptOnce
  <2>1. file' \in Files
    BY <1>3, TrackerTypes DEF InterruptOnce, TypeOK, Trackers
  <2> QED BY <1>3, <2>1 DEF InterruptOnce, TypeOK, processVars, lifeVars, historyVars
<1>4. ASSUME NEW good \in SUBSET Tickers, EndOnce(good) PROVE TypeOK'
  <2>1. once \in Trackers
    BY <1>4 DEF EndOnce, TypeOK, Trackers
  <2>2. Recorded(once, onceAt, good) \in Trackers
    BY <1>1, <2>1, RecordedType
  <2>3. file' \in Files
    BY <1>4, <2>2, TrackerTypes DEF EndOnce
  <2>4. /\ sampled' \in SUBSET Nat /\ observed' \in [Tickers -> SUBSET Nat]
        /\ repeated' \in BOOLEAN
    BY <1>1, <1>4, NotedType DEF EndOnce
  <2>5. /\ once' = None /\ onceAt' = 0
        /\ UNCHANGED <<now, processVars, lifeVars, beside>>
    BY <1>4 DEF EndOnce
  <2> QED BY <2>3, <2>4, <2>5 DEF TypeOK, processVars, lifeVars
<1> QED BY <1>2, <1>3, <1>4

LEMMA LeaveType ==
    ASSUME TypeOK, LeaveDay \/ GracefulStop \/ Kill \/ PowerFails
    PROVE  TypeOK'
<1>1. now \in Nat
  BY ConstantTypes DEF TypeOK, Time
<1>2. file' \in Files
  BY RestoredType, TrackerTypes DEF LeaveDay, GracefulStop, Kill, PowerFails, TypeOK
<1>3. CASE LeaveDay \/ GracefulStop
  <2>1. pc' \in {"over", "off"} /\ since' \in {since, now} /\ mem' = None /\ unwritten' = 0
    BY <1>3 DEF LeaveDay, GracefulStop, Forgotten, lifeVars
  <2>2. UNCHANGED <<now, boundary, last, spent, onceVars, boots, deaths, historyVars, beside>>
    BY <1>3 DEF LeaveDay, GracefulStop, lifeVars
  <2> QED BY <1>1, <1>2, <2>1, <2>2 DEF TypeOK, onceVars, historyVars
<1>4. CASE Kill \/ PowerFails
  <2>1. /\ pc' = "off" /\ deaths' = deaths + 1 /\ since' = now /\ mem' = None /\ unwritten' = 0
        /\ once' \in {once, None} /\ onceAt' \in {onceAt, 0}
    BY <1>4 DEF Kill, PowerFails, Forgotten, onceVars
  <2>2. UNCHANGED <<now, boundary, last, spent, boots, historyVars, beside>>
    BY <1>4 DEF Kill, PowerFails
  <2> QED BY <1>1, <1>2, <2>1, <2>2 DEF TypeOK, historyVars
<1> QED BY <1>3, <1>4

LEMMA NextType == TypeOK /\ [Next]_vars => TypeOK'
<1> SUFFICES ASSUME TypeOK, [Next]_vars PROVE TypeOK'
  OBVIOUS
<1>1. CASE UNCHANGED vars \/ TimeEnds
  BY <1>1 DEF TimeEnds, vars, processVars, onceVars, lifeVars, historyVars, TypeOK
<1> QED BY <1>1, LoopType, CycleBeginsType, EndCycleType, OnceType, LeaveType DEF Next

\* Every variable keeps its type: the tracker, the file and the process.
THEOREM TypeCorrect == Spec => []TypeOK
BY InitType, NextType, PTL DEF Spec
----------------------------------------------------------------------------
(***************************************************************************)
(* A silent ticker is always seen.  The watchdog reads a file that lags    *)
(* behind the process, was restored by a later process or was finalised by *)
(* a stop; what makes it safe is that the last cycle of a ticker, in the   *)
(* file as in the memory it is written from and restored to, is a cycle in *)
(* which that ticker really was collected.                                 *)
(***************************************************************************)
Seen(tracker) == \A t \in Tickers : tracker[t].last = None \/ tracker[t].last \in observed[t]

SilenceInv ==
    /\ file.kind = "good" => Seen(file.tickers)
    /\ mem # None => Seen(mem)
    /\ once # None => Seen(once)

LEMMA InitSilence == Init => SilenceInv
BY DEF Init, SilenceInv, NoFile

LEMMA RestoredSeen ==
    ASSUME TypeOK, SilenceInv
    PROVE  Seen(Restored)
BY DEF SilenceInv, Restored, Unobserved, Seen

LEMMA WrittenSeen ==
    ASSUME NEW tracker, NEW finished
    PROVE  Written(tracker, finished).tickers = tracker
BY DEF Written

LEMMA SeenStays ==
    ASSUME NEW tracker, Seen(tracker),
           \A t \in Tickers : observed[t] \subseteq observed'[t]
    PROVE  \A t \in Tickers : tracker[t].last = None \/ tracker[t].last \in observed'[t]
BY DEF Seen

LEMMA EnsuredSeen ==
    ASSUME TypeOK, SilenceInv, BeginCycle
    PROVE  SilenceInv'
<1>1. observed' = observed /\ once' = once
  BY DEF BeginCycle, onceVars, historyVars
<1>2. CASE mem = None
  <2>1. mem' = Restored /\ file' = Written(Restored, FALSE)
    BY <1>2 DEF BeginCycle, Ensured
  <2>2. file'.tickers = Restored
    BY <2>1, WrittenSeen
  <2>3. Seen(Restored)
    BY RestoredSeen
  <2> QED BY <1>1, <2>1, <2>2, <2>3 DEF SilenceInv, Seen
<1>3. CASE mem # None
  BY <1>1, <1>3 DEF BeginCycle, Ensured, SilenceInv, Seen
<1> QED BY <1>2, <1>3

LEMMA RecordedSeen ==
    ASSUME TypeOK, NEW tracker \in Trackers, Seen(tracker),
           NEW at \in Nat, NEW good \in SUBSET Tickers, Noted(at, good)
    PROVE  /\ \A t \in Tickers : observed[t] \subseteq observed'[t]
           /\ \A t \in Tickers : \/ Recorded(tracker, at, good)[t].last = None
                                 \/ Recorded(tracker, at, good)[t].last \in observed'[t]
<1>1. observed' = [t \in Tickers |-> IF t \in good THEN observed[t] \union {at} ELSE observed[t]]
  BY DEF Noted
<1>2. \A t \in Tickers : observed[t] \subseteq observed'[t]
  BY <1>1
<1>3. ASSUME NEW t \in Tickers
      PROVE  \/ Recorded(tracker, at, good)[t].last = None
             \/ Recorded(tracker, at, good)[t].last \in observed'[t]
  <2>1. Recorded(tracker, at, good)[t] = Counted(tracker[t], at, t \in good)
    BY DEF Recorded
  <2>2. tracker[t] \in TickerHealth
    BY DEF Trackers
  <2>3. CASE t \in good
    <3>1. Recorded(tracker, at, good)[t].last = at
      BY <2>1, <2>2, <2>3 DEF Counted, TickerHealth
    <3> QED BY <1>1, <2>3, <3>1
  <2>4. CASE t \notin good
    <3>1. Recorded(tracker, at, good)[t].last = tracker[t].last
      BY <2>1, <2>2, <2>4 DEF Counted, TickerHealth
    <3> QED BY <1>2, <3>1 DEF Seen
  <2> QED BY <2>3, <2>4
<1> QED BY <1>2, <1>3

LEMMA EndCycleSeen ==
    ASSUME TypeOK, SilenceInv, NEW good \in SUBSET Tickers, EndCycle(good)
    PROVE  SilenceInv'
<1>1. mem \in Trackers /\ mem # None /\ boundary \in Nat
  BY DEF EndCycle, TypeOK, Trackers
<1>2. /\ mem' = Recorded(mem, boundary, good) /\ Noted(boundary, good)
      /\ once' = once
      /\ file' = file \/ file' = Written(mem', FALSE)
  BY DEF EndCycle, onceVars
<1>3. Seen(mem)' /\ \A t \in Tickers : observed[t] \subseteq observed'[t]
  BY <1>1, <1>2, RecordedSeen DEF SilenceInv, Seen
<1>4. once' # None => Seen(once)'
  BY <1>2, <1>3, SeenStays DEF SilenceInv, Seen
<1>5. CASE file' = file
  BY <1>3, <1>4, <1>5, SeenStays DEF SilenceInv, Seen
<1>6. CASE file' = Written(mem', FALSE)
  <2>1. file'.tickers = mem'
    BY <1>6, WrittenSeen
  <2> QED BY <1>3, <1>4, <2>1 DEF SilenceInv, Seen
<1> QED BY <1>2, <1>5, <1>6

LEMMA OnceSeen ==
    ASSUME TypeOK, SilenceInv, \/ RunOnce \/ InterruptOnce
                               \/ \E good \in SUBSET Tickers : EndOnce(good)
    PROVE  SilenceInv'
<1>1. CASE RunOnce
  <2>1. /\ once' = Restored /\ file' = Written(Restored, FALSE)
        /\ mem' = mem /\ observed' = observed
    BY <1>1 DEF RunOnce, processVars, historyVars
  <2>2. file'.tickers = Restored
    BY <2>1, WrittenSeen
  <2>3. Seen(Restored)
    BY RestoredSeen
  <2> QED BY <2>1, <2>2, <2>3 DEF SilenceInv, Seen
<1>2. CASE InterruptOnce
  <2>1. /\ once # None /\ once' = None /\ file' = Written(once, TRUE)
        /\ mem' = mem /\ observed' = observed
    BY <1>2 DEF InterruptOnce, processVars, historyVars
  <2>2. file'.tickers = once
    BY <2>1, WrittenSeen
  <2> QED BY <2>1, <2>2 DEF SilenceInv, Seen
<1>3. ASSUME NEW good \in SUBSET Tickers, EndOnce(good) PROVE SilenceInv'
  <2>1. /\ once \in Trackers /\ once # None /\ onceAt \in Nat
    BY <1>3 DEF EndOnce, TypeOK, Trackers
  <2>2. /\ once' = None /\ Noted(onceAt, good) /\ mem' = mem
        /\ file' = Written(Recorded(once, onceAt, good), TRUE)
    BY <1>3 DEF EndOnce, processVars
  <2>3. file'.tickers = Recorded(once, onceAt, good)
    BY <2>2, WrittenSeen
  <2>4. /\ \A t \in Tickers : observed[t] \subseteq observed'[t]
        /\ \A t \in Tickers : \/ file'.tickers[t].last = None
                              \/ file'.tickers[t].last \in observed'[t]
    BY <2>1, <2>2, <2>3, RecordedSeen DEF SilenceInv
  <2>5. mem' # None => Seen(mem)'
    BY <2>2, <2>4, SeenStays DEF SilenceInv, Seen
  <2> QED BY <2>2, <2>4, <2>5 DEF SilenceInv, Seen
<1> QED BY <1>1, <1>2, <1>3

LEMMA LeaveSeen ==
    ASSUME TypeOK, SilenceInv, LeaveDay \/ GracefulStop \/ Kill \/ PowerFails
    PROVE  SilenceInv'
<1>1. mem' = None /\ observed' = observed /\ once' \in {once, None}
  BY DEF LeaveDay, GracefulStop, Kill, PowerFails, Forgotten, onceVars, historyVars
<1>2. file' \in {file, Finalised, Damaged}
  BY DEF LeaveDay, GracefulStop, Kill, PowerFails
<1>3. CASE file' = Finalised
  <2>1. mem # None => file'.tickers = mem
    BY <1>3, WrittenSeen DEF Finalised
  <2>2. mem = None => file' = file
    BY <1>3 DEF Finalised
  <2> QED BY <1>1, <2>1, <2>2 DEF SilenceInv, Seen
<1>4. CASE file' \in {file, Damaged}
  <2>1. Damaged.kind = "damaged"
    BY DEF Damaged, NoFile
  <2> QED BY <1>1, <1>4, <2>1 DEF SilenceInv, Seen
<1> QED BY <1>2, <1>3, <1>4

LEMMA NextSilence == TypeOK /\ SilenceInv /\ [Next]_vars => SilenceInv'
<1> SUFFICES ASSUME TypeOK, SilenceInv, [Next]_vars PROVE SilenceInv'
  OBVIOUS
<1>1. CASE UNCHANGED vars \/ TimeEnds
  BY <1>1 DEF TimeEnds, vars, processVars, onceVars, historyVars, SilenceInv, Seen
<1>2. CASE Tick \/ Boot \/ Schedule \/ SkipStale
  BY <1>2 DEF Tick, Boot, Schedule, SkipStale, onceVars, historyVars, SilenceInv, Seen
<1> QED BY <1>1, <1>2, EnsuredSeen, EndCycleSeen, OnceSeen, LeaveSeen DEF Next

LEMMA SilenceInvImplies == TypeOK /\ SilenceInv => SilenceIsSeen
<1> SUFFICES ASSUME TypeOK, SilenceInv, NEW t \in Tickers,
                    SessionRunning, file.kind = "good",
                    \A s \in observed[t] : now - s > MaxSilence
             PROVE  Silent(t)
  BY DEF SilenceIsSeen
<1>1. file.tickers[t].last = None \/ file.tickers[t].last \in observed[t]
  BY DEF SilenceInv, Seen
<1> QED BY <1>1 DEF Silent

\* The watchdog never takes a silent ticker for a live one: whatever stops, kills,
\* restarts, damaged files and single cycles happened, whichever process wrote the file
\* last and however old it is.
THEOREM SilenceIsAlwaysSeen == Spec => []SilenceIsSeen
BY InitType, NextType, InitSilence, NextSilence, SilenceInvImplies, PTL DEF Spec
----------------------------------------------------------------------------
(***************************************************************************)
(* The verdict after the close is never better than the day.  Every        *)
(* tracker, in the file or in a process, counts at most the timestamps at  *)
(* which its tickers really were collected, as long as no timestamp is     *)
(* sampled twice: whichever process restores from it or overwrites it can  *)
(* only make the count too low.                                            *)
(***************************************************************************)
Within(tracker) == \A t \in Tickers : tracker[t].observed <= Cardinality(observed[t])

HistoryInv ==
    \A t \in Tickers : IsFiniteSet(observed[t]) /\ observed[t] \subseteq sampled

CountInv ==
    ~repeated =>
        /\ file.kind = "good" => Within(file.tickers)
        /\ mem # None => Within(mem)
        /\ once # None => Within(once)

LEMMA InitCounts == Init => HistoryInv /\ CountInv
BY FS_EmptySet DEF Init, HistoryInv, CountInv, NoFile

LEMMA UnobservedWithin ==
    ASSUME HistoryInv
    PROVE  Within(Unobserved)
<1> SUFFICES ASSUME NEW t \in Tickers
             PROVE  Unobserved[t].observed <= Cardinality(observed[t])
  BY DEF Within
<1>1. Cardinality(observed[t]) \in Nat
  BY FS_CardinalityType DEF HistoryInv
<1> QED BY <1>1 DEF Unobserved

LEMMA RestoredWithin ==
    ASSUME HistoryInv, CountInv, ~repeated
    PROVE  Within(Restored)
BY UnobservedWithin DEF CountInv, Restored

LEMMA NotedHistory ==
    ASSUME HistoryInv, NEW at, NEW good \in SUBSET Tickers, Noted(at, good)
    PROVE  /\ HistoryInv'
           /\ ~repeated' => ~repeated /\ \A t \in Tickers : at \notin observed[t]
<1>1. /\ observed' = [t \in Tickers |-> IF t \in good THEN observed[t] \union {at}
                                                     ELSE observed[t]]
      /\ sampled' = sampled \union {at}
      /\ repeated' = (repeated \/ at \in sampled)
  BY DEF Noted
<1>2. ASSUME NEW t \in Tickers
      PROVE  IsFiniteSet(observed'[t]) /\ observed'[t] \subseteq sampled'
  <2>1. IsFiniteSet(observed[t] \union {at})
    BY FS_AddElement DEF HistoryInv
  <2> QED BY <1>1, <2>1 DEF HistoryInv
<1> QED BY <1>1, <1>2 DEF HistoryInv

LEMMA CardinalityGrows ==
    ASSUME HistoryInv, NEW at, NEW good \in SUBSET Tickers, Noted(at, good), NEW t \in Tickers,
           at \notin observed[t]
    PROVE  /\ Cardinality(observed[t]) \in Nat
           /\ Cardinality(observed'[t]) = Cardinality(observed[t]) + (IF t \in good THEN 1 ELSE 0)
<1>1. /\ Cardinality(observed[t]) \in Nat
      /\ Cardinality(observed[t] \union {at}) = Cardinality(observed[t]) + 1
  BY FS_CardinalityType, FS_AddElement DEF HistoryInv
<1>2. observed'[t] = IF t \in good THEN observed[t] \union {at} ELSE observed[t]
  BY DEF Noted
<1> QED BY <1>1, <1>2

LEMMA WithinStays ==
    ASSUME HistoryInv, NEW at, NEW good \in SUBSET Tickers, Noted(at, good), ~repeated',
           NEW tracker \in Trackers, Within(tracker)
    PROVE  \A t \in Tickers : tracker[t].observed <= Cardinality(observed'[t])
<1> SUFFICES ASSUME NEW t \in Tickers
             PROVE  tracker[t].observed <= Cardinality(observed'[t])
  OBVIOUS
<1>1. /\ Cardinality(observed[t]) \in Nat
      /\ Cardinality(observed'[t]) = Cardinality(observed[t]) + (IF t \in good THEN 1 ELSE 0)
  BY NotedHistory, CardinalityGrows
<1>2. tracker[t].observed \in Nat /\ tracker[t].observed <= Cardinality(observed[t])
  BY DEF Trackers, TickerHealth, Within
<1> QED BY <1>1, <1>2

LEMMA RecordedWithin ==
    ASSUME HistoryInv, NEW at, NEW good \in SUBSET Tickers, Noted(at, good), ~repeated',
           NEW tracker \in Trackers, Within(tracker)
    PROVE  \A t \in Tickers :
             Recorded(tracker, at, good)[t].observed <= Cardinality(observed'[t])
<1> SUFFICES ASSUME NEW t \in Tickers
             PROVE  Recorded(tracker, at, good)[t].observed <= Cardinality(observed'[t])
  OBVIOUS
<1>1. /\ Cardinality(observed[t]) \in Nat
      /\ Cardinality(observed'[t]) = Cardinality(observed[t]) + (IF t \in good THEN 1 ELSE 0)
  BY NotedHistory, CardinalityGrows
<1>2. tracker[t] \in TickerHealth /\ tracker[t].observed <= Cardinality(observed[t])
  BY DEF Trackers, Within
<1>3. Recorded(tracker, at, good)[t] = Counted(tracker[t], at, t \in good)
  BY DEF Recorded
<1>4. CASE t \in good
  <2>1. Counted(tracker[t], at, t \in good).observed = tracker[t].observed + 1
    BY <1>2, <1>4 DEF Counted, TickerHealth
  <2> QED BY <1>1, <1>2, <1>3, <1>4, <2>1 DEF TickerHealth
<1>5. CASE t \notin good
  <2>1. Counted(tracker[t], at, t \in good).observed = tracker[t].observed
    BY <1>2, <1>5 DEF Counted, TickerHealth
  <2> QED BY <1>1, <1>2, <1>3, <1>5, <2>1 DEF TickerHealth
<1> QED BY <1>4, <1>5

LEMMA BeginCounts ==
    ASSUME HistoryInv, CountInv, BeginCycle \/ RunOnce
    PROVE  HistoryInv' /\ CountInv'
<1>1. observed' = observed /\ sampled' = sampled /\ repeated' = repeated
  BY DEF BeginCycle, RunOnce, historyVars
<1>2. HistoryInv'
  BY <1>1 DEF HistoryInv
<1>3. ASSUME ~repeated PROVE CountInv'
  <2>1. Within(Restored) /\ Written(Restored, FALSE).tickers = Restored
    BY <1>3, RestoredWithin, WrittenSeen
  <2>2. CASE BeginCycle
    <3>1. once' = once /\ \/ mem' = mem /\ file' = file
                          \/ mem' = Restored /\ file' = Written(Restored, FALSE)
      BY <2>2 DEF BeginCycle, Ensured, onceVars
    <3> QED BY <1>1, <2>1, <3>1 DEF CountInv, Within
  <2>3. CASE RunOnce
    <3>1. mem' = mem /\ once' = Restored /\ file' = Written(Restored, FALSE)
      BY <2>3 DEF RunOnce, processVars
    <3> QED BY <1>1, <2>1, <3>1 DEF CountInv, Within
  <2> QED BY <2>2, <2>3
<1>4. ASSUME repeated PROVE CountInv'
  BY <1>1, <1>4 DEF CountInv
<1> QED BY <1>2, <1>3, <1>4

LEMMA EndCycleCounts ==
    ASSUME TypeOK, HistoryInv, CountInv, NEW good \in SUBSET Tickers, EndCycle(good)
    PROVE  HistoryInv' /\ CountInv'
<1>1. Noted(boundary, good)
  BY DEF EndCycle
<1>2. HistoryInv'
  BY <1>1, NotedHistory
<1>3. ASSUME ~repeated' PROVE CountInv'
  <2>1. ~repeated
    BY <1>1, <1>3, NotedHistory
  <2>2. /\ mem \in Trackers /\ mem # None /\ Within(mem)
        /\ mem' = Recorded(mem, boundary, good) /\ once' = once
        /\ file' = file \/ file' = Written(mem', FALSE)
    BY <2>1 DEF EndCycle, TypeOK, Trackers, CountInv, onceVars
  <2>3. Within(mem)'
    BY <1>1, <1>3, <2>2, RecordedWithin DEF Within
  <2>4. once' # None => Within(once)'
    BY <1>1, <1>3, <2>1, <2>2, WithinStays DEF CountInv, Within, TypeOK, Trackers
  <2>5. CASE file' = file
    BY <1>1, <1>3, <2>1, <2>3, <2>4, <2>5, WithinStays
       DEF CountInv, Within, TypeOK, Files, Trackers
  <2>6. CASE file' = Written(mem', FALSE)
    <3>1. file'.tickers = mem'
      BY <2>6, WrittenSeen
    <3> QED BY <2>3, <2>4, <3>1 DEF CountInv, Within
  <2> QED BY <2>2, <2>5, <2>6
<1> QED BY <1>2, <1>3 DEF CountInv

LEMMA OnceEndsCounts ==
    ASSUME TypeOK, HistoryInv, CountInv, \/ InterruptOnce
                                        \/ \E good \in SUBSET Tickers : EndOnce(good)
    PROVE  HistoryInv' /\ CountInv'
<1>1. CASE InterruptOnce
  <2>1. /\ once # None /\ once' = None /\ mem' = mem /\ file' = Written(once, TRUE)
        /\ observed' = observed /\ sampled' = sampled /\ repeated' = repeated
    BY <1>1 DEF InterruptOnce, processVars, historyVars
  <2>2. file'.tickers = once
    BY <2>1, WrittenSeen
  <2> QED BY <2>1, <2>2 DEF HistoryInv, CountInv, Within
<1>2. ASSUME NEW good \in SUBSET Tickers, EndOnce(good) PROVE HistoryInv' /\ CountInv'
  <2>1. /\ Noted(onceAt, good) /\ once \in Trackers /\ once # None
        /\ once' = None /\ mem' = mem
        /\ file' = Written(Recorded(once, onceAt, good), TRUE)
    BY <1>2 DEF EndOnce, TypeOK, Trackers, processVars
  <2>2. HistoryInv'
    BY <2>1, NotedHistory
  <2>3. ASSUME ~repeated' PROVE CountInv'
    <3>1. ~repeated
      BY <2>1, <2>3, NotedHistory
    <3>2. mem' # None => Within(mem)'
      BY <2>1, <2>3, <3>1, WithinStays DEF CountInv, Within, TypeOK, Trackers
    <3>3. file'.tickers = Recorded(once, onceAt, good)
      BY <2>1, WrittenSeen
    <3>4. Within(file.tickers)'
      BY <2>1, <2>3, <3>1, <3>3, RecordedWithin DEF CountInv, Within
    <3> QED BY <2>1, <3>2, <3>4 DEF CountInv
  <2> QED BY <2>2, <2>3 DEF CountInv
<1> QED BY <1>1, <1>2

LEMMA LeaveCounts ==
    ASSUME HistoryInv, CountInv, LeaveDay \/ GracefulStop \/ Kill \/ PowerFails
    PROVE  HistoryInv' /\ CountInv'
<1>1. /\ mem' = None /\ once' \in {once, None} /\ file' \in {file, Finalised, Damaged}
      /\ observed' = observed /\ sampled' = sampled /\ repeated' = repeated
  BY DEF LeaveDay, GracefulStop, Kill, PowerFails, Forgotten, onceVars, historyVars
<1>2. CASE file' = Finalised
  <2>1. mem # None => file'.tickers = mem
    BY <1>2, WrittenSeen DEF Finalised
  <2>2. mem = None => file' = file
    BY <1>2 DEF Finalised
  <2> QED BY <1>1, <2>1, <2>2 DEF HistoryInv, CountInv, Within
<1>3. CASE file' \in {file, Damaged}
  <2>1. Damaged.kind = "damaged"
    BY DEF Damaged, NoFile
  <2> QED BY <1>1, <1>3, <2>1 DEF HistoryInv, CountInv, Within
<1> QED BY <1>1, <1>2, <1>3

LEMMA NextCounts ==
    TypeOK /\ HistoryInv /\ CountInv /\ [Next]_vars => HistoryInv' /\ CountInv'
<1> SUFFICES ASSUME TypeOK, HistoryInv, CountInv, [Next]_vars
             PROVE  HistoryInv' /\ CountInv'
  OBVIOUS
<1>1. CASE UNCHANGED vars \/ TimeEnds
  BY <1>1 DEF TimeEnds, vars, processVars, onceVars, historyVars, HistoryInv, CountInv, Within
<1>2. CASE Tick \/ Boot \/ Schedule \/ SkipStale
  BY <1>2 DEF Tick, Boot, Schedule, SkipStale, onceVars, historyVars,
              HistoryInv, CountInv, Within
<1> QED BY <1>1, <1>2, BeginCounts, EndCycleCounts, OnceEndsCounts, LeaveCounts DEF Next

LEMMA ExpectedIsFinite == IsFiniteSet(Expected)
<1>1. Day \in Days /\ Start \in Nat /\ End \in Nat /\ SessionOpen[Day] = Start
  BY ConstantTypes, HealthWatchAssumption, CalendarTypes DEF HasWindow, Start
<1>2. FirstPoll(Day) \in Nat
  BY <1>1, NextBoundaryIsNext DEF FirstPoll
<1>3. IsFiniteSet(FirstPoll(Day) .. End)
  BY <1>1, <1>2, FS_Interval
<1>4. Expected \in SUBSET (FirstPoll(Day) .. End)
  BY DEF Expected, ExpectedPollTimestamps, End
<1> QED BY <1>3, <1>4, FS_Subset

LEMMA QuotientsAreOrdered ==
    ASSUME NEW a \in Nat, NEW b \in Nat, a <= b, NEW d \in Nat \ {0}
    PROVE  a \div d <= b \div d
<1> DEFINE q == a \div d
           r == b \div d
<1>1. /\ q \in Nat /\ q * d <= a
      /\ r \in Nat /\ b < r * d + d
  OBVIOUS
<1> HIDE DEF q, r
<1>2. ASSUME r + 1 <= q PROVE FALSE
  <2>1. (r + 1) * d <= q * d
    BY <1>1, <1>2
  <2>2. (r + 1) * d = r * d + d
    BY <1>1
  <2> QED BY <1>1, <2>1, <2>2
<1>3. q <= r
  BY <1>1, <1>2
<1> QED BY <1>3 DEF q, r

LEMMA CoverageIsMonotone ==
    ASSUME NEW a \in Nat, NEW b \in Nat, a <= b
    PROVE  Coverage(a) \in Nat /\ Coverage(b) \in Nat /\ Coverage(a) <= Coverage(b)
<1>1. CASE Expected = {}
  BY <1>1 DEF Coverage
<1>2. CASE Expected # {}
  <2> DEFINE n == Cardinality(Expected)
  <2>1. n \in Nat \ {0}
    BY <1>2, ExpectedIsFinite, FS_CardinalityType, FS_EmptySet
  <2>2. /\ Coverage(a) = (200000 * a + n) \div (2 * n)
        /\ Coverage(b) = (200000 * b + n) \div (2 * n)
    BY <1>2 DEF Coverage
  <2> HIDE DEF n
  <2>3. /\ 200000 * a + n \in Nat /\ 200000 * b + n \in Nat /\ 2 * n \in Nat \ {0}
        /\ 200000 * a + n <= 200000 * b + n
    BY <2>1
  <2>4. Coverage(a) <= Coverage(b)
    BY <2>2, <2>3, QuotientsAreOrdered
  <2>5. \A x \in Nat, d \in Nat \ {0} : x \div d \in Nat
    OBVIOUS
  <2> QED BY <2>2, <2>3, <2>4, <2>5
<1> QED BY <1>1, <1>2

LEMMA CountsAreReal ==
    ASSUME TypeOK, HistoryInv, CountInv, SampledOnGrid, file.kind = "good", NEW t \in Tickers
    PROVE  /\ Coverage(file.tickers[t].observed) \in Nat /\ RealCoverage(t) \in Nat
           /\ Coverage(file.tickers[t].observed) <= RealCoverage(t)
<1>1. observed[t] \intersect Expected = observed[t]
  BY DEF SampledOnGrid, HistoryInv
<1>2. Cardinality(observed[t]) \in Nat
  BY FS_CardinalityType DEF HistoryInv
<1>3. /\ file.tickers[t].observed \in Nat
      /\ file.tickers[t].observed <= Cardinality(observed[t])
  BY DEF TypeOK, Files, TickerHealth, CountInv, Within, SampledOnGrid
<1> QED BY <1>1, <1>2, <1>3, CoverageIsMonotone DEF RealCoverage

LEMMA CountInvImplies == TypeOK /\ HistoryInv /\ CountInv => VerdictIsSound
<1> SUFFICES ASSUME TypeOK, HistoryInv, CountInv, SessionFinished, SampledOnGrid
             PROVE  /\ ExitCode = 0 =>
                         file.finished /\ \A t \in Tickers : RealCoverage(t) >= HealthyPct
                    /\ ExitCode <= 1 =>
                         file.finished /\ \A t \in Tickers : RealCoverage(t) >= WarningPct
  BY DEF VerdictIsSound
<1>1. ~(now < Start)
  <2>1. Start < End /\ Start \in Nat /\ End \in Nat /\ now \in Nat
    BY HealthWatchAssumption, ConstantTypes DEF HasWindow, Start, End, TypeOK, Time
  <2> QED BY <2>1 DEF SessionFinished
<1>2. ExitCode = IF Fatal THEN 2 ELSE IF Warning THEN 1 ELSE 0
  BY <1>1 DEF ExitCode
<1>3. ASSUME ~Fatal
      PROVE  file.finished /\ \A t \in Tickers : RealCoverage(t) >= WarningPct
  <2>1. file.kind = "good" /\ file.finished
    BY <1>3 DEF Fatal
  <2>2. ASSUME NEW t \in Tickers PROVE RealCoverage(t) >= WarningPct
    <3>1. ~(Coverage(file.tickers[t].observed) < WarningPct)
      BY <1>3 DEF Fatal, Below
    <3> QED BY <2>1, <3>1, CountsAreReal, HealthWatchAssumption
  <2> QED BY <2>1, <2>2
<1>4. ASSUME ~Fatal, ~Warning, NEW t \in Tickers PROVE RealCoverage(t) >= HealthyPct
  <2>1. file.kind = "good" /\ ~(Coverage(file.tickers[t].observed) < HealthyPct)
    BY <1>4 DEF Fatal, Warning, Below
  <2> QED BY <2>1, CountsAreReal, HealthWatchAssumption
<1> QED BY <1>2, <1>3, <1>4

\* After the close the watchdog's verdict is never better than the day, for every session,
\* set of tickers and thresholds, whatever processes wrote the file, restored from it,
\* were killed or lost it.
THEOREM VerdictIsAlwaysSound == Spec => []VerdictIsSound
BY InitType, NextType, InitCounts, NextCounts, CountInvImplies, PTL DEF Spec
----------------------------------------------------------------------------
(***************************************************************************)
(* Without deaths and overlaps the verdict is exact.  One process at a     *)
(* time holds the tracker; between two processes the file is all there is  *)
(* of it, and it is final.                                                 *)
(***************************************************************************)
Exact(tracker) ==
    \A t \in Tickers : /\ tracker[t].observed = Cardinality(observed[t])
                       /\ tracker[t].errors > 0 <=> observed[t] # sampled

Undisturbed == deaths = 0 /\ ~beside /\ ~repeated

OneTracker ==
    /\ file.kind # "damaged"
    /\ once # None => pc = "off"
    /\ pc \in {"off", "over"} => mem = None
    /\ mem # None => Exact(mem)
    /\ once # None => Exact(once)
    /\ mem = None => Exact(Restored)
    /\ mem = None /\ once = None /\ file.kind = "good" => file.finished

ExactInv ==
    /\ pc = "over" => now > End
    /\ Undisturbed => OneTracker

LEMMA InitExact == Init => ExactInv
<1> SUFFICES ASSUME Init PROVE ExactInv
  OBVIOUS
<1>1. Restored = Unobserved /\ file.kind = "missing"
  BY DEF Init, Restored, NoFile
<1>2. Exact(Unobserved)
  <2> SUFFICES ASSUME NEW t \in Tickers
               PROVE  /\ Unobserved[t].observed = Cardinality(observed[t])
                      /\ Unobserved[t].errors > 0 <=> observed[t] # sampled
    BY DEF Exact
  <2>1. observed[t] = {} /\ sampled = {}
    BY DEF Init
  <2>2. Unobserved[t].observed = 0 /\ Unobserved[t].errors = 0
    BY DEF Unobserved
  <2> QED BY <2>1, <2>2, FS_EmptySet
<1> QED BY <1>1, <1>2 DEF Init, ExactInv, OneTracker

LEMMA RestoredIsFile ==
    ASSUME NEW tracker, NEW finished
    PROVE  /\ Written(tracker, finished).kind = "good"
           /\ Written(tracker, finished).finished = finished
           /\ file' = Written(tracker, finished) => Restored' = tracker
BY DEF Written, Restored

\* A cycle that is noted once keeps its tracker exact.
LEMMA RecordedExact ==
    ASSUME HistoryInv, NEW at, NEW good \in SUBSET Tickers, Noted(at, good), ~repeated',
           NEW tracker \in Trackers, Exact(tracker)
    PROVE  \A t \in Tickers :
             /\ Recorded(tracker, at, good)[t].observed = Cardinality(observed'[t])
             /\ Recorded(tracker, at, good)[t].errors > 0 <=> observed'[t] # sampled'
<1> SUFFICES ASSUME NEW t \in Tickers
             PROVE  /\ Recorded(tracker, at, good)[t].observed = Cardinality(observed'[t])
                    /\ Recorded(tracker, at, good)[t].errors > 0 <=> observed'[t] # sampled'
  OBVIOUS
<1>1. /\ at \notin observed[t]
      /\ Cardinality(observed'[t]) = Cardinality(observed[t]) + (IF t \in good THEN 1 ELSE 0)
  BY NotedHistory, CardinalityGrows
<1>2. /\ at \notin sampled /\ sampled' = sampled \union {at}
      /\ observed'[t] = IF t \in good THEN observed[t] \union {at} ELSE observed[t]
  BY DEF Noted
<1>3. /\ tracker[t] \in TickerHealth
      /\ tracker[t].observed = Cardinality(observed[t])
      /\ tracker[t].errors > 0 <=> observed[t] # sampled
  BY DEF Trackers, Exact
<1>4. Recorded(tracker, at, good)[t] = Counted(tracker[t], at, t \in good)
  BY DEF Recorded
<1>5. CASE t \in good
  <2>1. /\ Counted(tracker[t], at, t \in good).observed = tracker[t].observed + 1
        /\ Counted(tracker[t], at, t \in good).errors = tracker[t].errors
    BY <1>3, <1>5 DEF Counted, TickerHealth
  <2>2. observed'[t] # sampled' <=> observed[t] # sampled
    BY <1>1, <1>2, <1>5
  <2> QED BY <1>1, <1>3, <1>4, <1>5, <2>1, <2>2
<1>6. CASE t \notin good
  <2>1. /\ Counted(tracker[t], at, t \in good).observed = tracker[t].observed
        /\ Counted(tracker[t], at, t \in good).errors = tracker[t].errors + 1
    BY <1>3, <1>6 DEF Counted, TickerHealth
  <2>2. observed'[t] # sampled'
    BY <1>1, <1>2, <1>6
  <2>3. tracker[t].errors + 1 > 0 /\ tracker[t].observed + 0 = tracker[t].observed
    BY <1>3 DEF TickerHealth
  <2> QED BY <1>1, <1>3, <1>4, <1>6, <2>1, <2>2, <2>3
<1> QED BY <1>5, <1>6

LEMMA LoopExact ==
    ASSUME TypeOK, ExactInv, Tick \/ Boot \/ Schedule \/ SkipStale
    PROVE  ExactInv'
<1>1. /\ mem' = mem /\ once' = once /\ file' = file /\ deaths' = deaths
      /\ sampled' = sampled /\ observed' = observed /\ repeated' = repeated
  BY DEF Tick, Boot, Schedule, SkipStale, onceVars, lifeVars, historyVars
<1>2. Exact(mem)' <=> Exact(mem)
  BY <1>1 DEF Exact
<1>3. Exact(once)' <=> Exact(once)
  BY <1>1 DEF Exact
<1>4. Exact(Restored)' <=> Exact(Restored)
  BY <1>1 DEF Exact, Restored
<1>5. ASSUME Undisturbed' PROVE Undisturbed
  <2>1. beside => beside'
    BY DEF Tick, Boot, Schedule, SkipStale
  <2>2. deaths' = 0 /\ ~beside' /\ ~repeated'
    BY <1>5 DEF Undisturbed
  <2> QED BY <1>1, <2>1, <2>2 DEF Undisturbed
<1>6. CASE Tick
  <2>1. pc' = pc /\ now' = now + 1 /\ now \in Nat /\ End \in Nat
    BY <1>6, ConstantTypes DEF Tick, TypeOK, Time
  <2> QED BY <1>1, <1>2, <1>3, <1>4, <1>5, <2>1 DEF ExactInv, OneTracker
<1>7. CASE Boot
  <2>1. pc = "off" /\ pc' = "top" /\ (Undisturbed' => once = None)
    BY <1>7 DEF Boot, MayBoot, Undisturbed
  <2> QED BY <1>1, <1>2, <1>3, <1>4, <1>5, <2>1 DEF ExactInv, OneTracker
<1>8. CASE Schedule \/ SkipStale
  <2>1. pc \in {"top", "wait"} /\ pc' \in {"top", "wait"}
    BY <1>8 DEF Schedule, SkipStale, Inside
  <2> QED BY <1>1, <1>2, <1>3, <1>4, <1>5, <2>1 DEF ExactInv, OneTracker
<1> QED BY <1>6, <1>7, <1>8

LEMMA BeginExact ==
    ASSUME TypeOK, ExactInv, BeginCycle
    PROVE  ExactInv'
<1>1. /\ pc = "wait" /\ pc' = "cycle" /\ once' = once /\ deaths' = deaths /\ beside' = beside
      /\ sampled' = sampled /\ observed' = observed /\ repeated' = repeated
  BY DEF BeginCycle, onceVars, lifeVars, historyVars
<1> SUFFICES ASSUME Undisturbed' PROVE OneTracker'
  BY <1>1 DEF ExactInv
<1>2. OneTracker /\ once = None
  BY <1>1 DEF ExactInv, Undisturbed, OneTracker
<1>3. CASE mem = None
  <2>1. mem' = Restored /\ file' = Written(Restored, FALSE) /\ mem' # None
    BY <1>3, RestoredType DEF BeginCycle, Ensured
  <2>2. Exact(mem)'
    BY <1>1, <1>2, <1>3, <2>1 DEF OneTracker, Exact
  <2> QED BY <1>1, <1>2, <2>1, <2>2, RestoredIsFile DEF OneTracker
<1>4. CASE mem # None
  <2>1. mem' = mem /\ file' = file
    BY <1>4 DEF BeginCycle, Ensured
  <2> QED BY <1>1, <1>2, <1>4, <2>1 DEF OneTracker, Exact
<1> QED BY <1>3, <1>4

LEMMA EndCycleExact ==
    ASSUME TypeOK, HistoryInv, ExactInv, NEW good \in SUBSET Tickers, EndCycle(good)
    PROVE  ExactInv'
<1>1. /\ pc = "cycle" /\ pc' = "top" /\ once' = once /\ deaths' = deaths /\ beside' = beside
      /\ Noted(boundary, good) /\ boundary \in Nat
      /\ mem \in Trackers /\ mem # None /\ mem' = Recorded(mem, boundary, good)
      /\ file' = file \/ file' = Written(mem', FALSE)
  BY DEF EndCycle, onceVars, lifeVars, TypeOK, Trackers
<1> SUFFICES ASSUME Undisturbed' PROVE OneTracker'
  BY <1>1 DEF ExactInv
<1>2. ~repeated' /\ ~repeated
  BY <1>1, NotedHistory DEF Undisturbed
<1>3. OneTracker /\ once = None /\ Exact(mem)
  BY <1>1, <1>2 DEF ExactInv, Undisturbed, OneTracker
<1>4. mem' \in Trackers /\ mem' # None
  BY <1>1, RecordedType, ConstantTypes
<1>5. Exact(mem)'
  BY <1>1, <1>2, <1>3, RecordedExact DEF Exact
<1>6. file'.kind # "damaged"
  BY <1>1, <1>3, RestoredIsFile DEF OneTracker
<1> QED BY <1>1, <1>3, <1>4, <1>5, <1>6 DEF OneTracker

LEMMA OnceExact ==
    ASSUME TypeOK, HistoryInv, ExactInv,
           \/ RunOnce \/ InterruptOnce
           \/ \E good \in SUBSET Tickers : EndOnce(good)
    PROVE  ExactInv'
<1>1. CASE RunOnce
  <2>1. /\ pc' = pc /\ mem' = mem /\ now' = now /\ deaths' = deaths
        /\ beside' = (beside \/ pc # "off")
        /\ once' = Restored /\ file' = Written(Restored, FALSE)
        /\ sampled' = sampled /\ observed' = observed /\ repeated' = repeated
    BY <1>1 DEF RunOnce, processVars, historyVars
  <2> SUFFICES ASSUME Undisturbed' PROVE OneTracker'
    BY <2>1 DEF ExactInv
  <2>2. OneTracker /\ pc = "off" /\ mem = None
    BY <2>1 DEF ExactInv, Undisturbed, OneTracker
  <2>3. once' # None /\ Restored' = Restored
    BY <2>1, RestoredType, RestoredIsFile
  <2>4. Exact(once)' /\ Exact(Restored)'
    BY <2>1, <2>2, <2>3 DEF OneTracker, Exact
  <2> QED BY <2>1, <2>2, <2>3, <2>4, RestoredIsFile DEF OneTracker
<1>2. CASE InterruptOnce
  <2>1. /\ pc' = pc /\ mem' = mem /\ now' = now /\ deaths' = deaths /\ beside' = beside
        /\ once # None /\ once' = None /\ file' = Written(once, TRUE)
        /\ sampled' = sampled /\ observed' = observed /\ repeated' = repeated
    BY <1>2 DEF InterruptOnce, processVars, lifeVars, historyVars
  <2> SUFFICES ASSUME Undisturbed' PROVE OneTracker'
    BY <2>1 DEF ExactInv
  <2>2. OneTracker /\ pc = "off" /\ mem = None /\ Exact(once)
    BY <2>1 DEF ExactInv, Undisturbed, OneTracker
  <2>3. Restored' = once
    BY <2>1, RestoredIsFile
  <2>4. Exact(Restored)'
    BY <2>1, <2>2, <2>3 DEF Exact
  <2> QED BY <2>1, <2>2, <2>4, RestoredIsFile DEF OneTracker
<1>3. ASSUME NEW good \in SUBSET Tickers, EndOnce(good) PROVE ExactInv'
  <2>1. /\ pc' = pc /\ mem' = mem /\ now' = now /\ deaths' = deaths /\ beside' = beside
        /\ once # None /\ once \in Trackers /\ once' = None
        /\ Noted(onceAt, good) /\ file' = Written(Recorded(once, onceAt, good), TRUE)
    BY <1>3 DEF EndOnce, processVars, lifeVars, TypeOK, Trackers
  <2> SUFFICES ASSUME Undisturbed' PROVE OneTracker'
    BY <2>1 DEF ExactInv
  <2>2. ~repeated' /\ ~repeated
    BY <2>1, NotedHistory DEF Undisturbed
  <2>3. OneTracker /\ pc = "off" /\ mem = None /\ Exact(once)
    BY <2>1, <2>2 DEF ExactInv, Undisturbed, OneTracker
  <2>4. Restored' = Recorded(once, onceAt, good)
    BY <2>1, RestoredIsFile
  <2>5. Exact(Restored)'
    BY <2>1, <2>2, <2>3, <2>4, RecordedExact DEF Exact
  <2> QED BY <2>1, <2>3, <2>5, RestoredIsFile DEF OneTracker
<1> QED BY <1>1, <1>2, <1>3

LEMMA LeaveExact ==
    ASSUME TypeOK, ExactInv, LeaveDay \/ GracefulStop \/ Kill \/ PowerFails
    PROVE  ExactInv'
<1>1. CASE Kill \/ PowerFails
  <2>1. pc' = "off" /\ deaths' = deaths + 1 /\ deaths \in Nat
    BY <1>1 DEF Kill, PowerFails, TypeOK
  <2> QED BY <2>1 DEF ExactInv, Undisturbed
<1>2. CASE LeaveDay \/ GracefulStop
  <2>1. /\ pc \in {"top", "wait"} /\ pc' \in {"off", "over"} /\ now' = now
        /\ pc' = "over" => now > End
        /\ mem' = None /\ once' = once /\ deaths' = deaths /\ beside' = beside
        /\ file' = Finalised
        /\ sampled' = sampled /\ observed' = observed /\ repeated' = repeated
    BY <1>2 DEF LeaveDay, GracefulStop, Forgotten, onceVars, lifeVars, historyVars
  <2> SUFFICES ASSUME Undisturbed' PROVE OneTracker'
    BY <2>1 DEF ExactInv
  <2>2. OneTracker /\ once = None
    BY <2>1 DEF ExactInv, Undisturbed, OneTracker
  <2>3. CASE mem = None
    <3>1. file' = file /\ Restored' = Restored
      BY <2>1, <2>3 DEF Finalised, Restored
    <3> QED BY <2>1, <2>2, <2>3, <3>1 DEF OneTracker, Exact
  <2>4. CASE mem # None
    <3>1. file' = Written(mem, TRUE)
      BY <2>1, <2>4 DEF Finalised
    <3>2. Restored' = mem
      BY <3>1, RestoredIsFile
    <3>3. Exact(Restored)'
      BY <2>1, <2>2, <2>4, <3>2 DEF OneTracker, Exact
    <3> QED BY <2>1, <2>2, <3>1, <3>3, RestoredIsFile DEF OneTracker
  <2> QED BY <2>3, <2>4
<1> QED BY <1>1, <1>2

LEMMA NextExact == TypeOK /\ HistoryInv /\ ExactInv /\ [Next]_vars => ExactInv'
<1> SUFFICES ASSUME TypeOK, HistoryInv, ExactInv, [Next]_vars PROVE ExactInv'
  OBVIOUS
<1>1. CASE UNCHANGED vars \/ TimeEnds
  BY <1>1 DEF TimeEnds, vars, processVars, onceVars, lifeVars, historyVars,
              ExactInv, Undisturbed, OneTracker, Exact, Restored
<1> QED BY <1>1, LoopExact, BeginExact, EndCycleExact, OnceExact, LeaveExact DEF Next

LEMMA StatusIsOfTheWorst ==
    ASSUME \A t \in Tickers : Coverage(file.tickers[t].observed) \in Nat
    PROVE  /\ Status = "failed" =>
                \E t \in Tickers : Coverage(file.tickers[t].observed) < WarningPct
           /\ Status = "warning" =>
                \E t \in Tickers : Coverage(file.tickers[t].observed) < HealthyPct
<1> DEFINE S == {Coverage(file.tickers[t].observed) : t \in Tickers}
<1>1. S \in SUBSET Nat /\ S # {}
  BY HealthWatchAssumption
<1>2. PICK t \in Tickers : Min(S) = Coverage(file.tickers[t].observed)
  BY <1>1, MinIsLeast
<1>3. Status = Classified(Coverage(file.tickers[t].observed))
  BY <1>2 DEF Status
<1>4. /\ WarningPct \in Nat /\ HealthyPct \in Nat /\ WarningPct <= HealthyPct
      /\ Coverage(file.tickers[t].observed) \in Nat
  BY HealthWatchAssumption
<1> QED BY <1>3, <1>4 DEF Classified

LEMMA ExactInvImplies == TypeOK /\ HistoryInv /\ ExactInv => VerdictIsExact
<1> SUFFICES ASSUME TypeOK, HistoryInv, ExactInv,
                    pc = "over", deaths = 0, ~beside, sampled # {}, SampledOnGrid
             PROVE  ExitCode = Deserved
  BY DEF VerdictIsExact
<1>1. now > End /\ OneTracker /\ mem = None /\ once = None /\ Exact(Restored)
  BY DEF ExactInv, Undisturbed, OneTracker, SampledOnGrid
<1>2. file.kind # "missing"
  <2> SUFFICES ASSUME file.kind = "missing" PROVE FALSE
    OBVIOUS
  <2>1. Exact(Unobserved)
    BY <1>1 DEF Restored
  <2>2. PICK t \in Tickers : TRUE
    BY HealthWatchAssumption
  <2>3. Unobserved[t].observed = 0 /\ Unobserved[t].errors = 0
    BY DEF Unobserved
  <2>4. Cardinality(observed[t]) = 0 /\ observed[t] = sampled
    BY <2>1, <2>3 DEF Exact
  <2> QED BY <2>4, FS_EmptySet DEF HistoryInv
<1>3. file.kind = "good" /\ file.finished /\ Exact(file.tickers)
  BY <1>1, <1>2 DEF OneTracker, TypeOK, Files, Restored
<1>4. ASSUME NEW t \in Tickers
      PROVE  /\ Coverage(file.tickers[t].observed) = RealCoverage(t)
             /\ Coverage(file.tickers[t].observed) \in Nat
             /\ file.tickers[t].errors > 0 <=> observed[t] # sampled
  <2>1. observed[t] \intersect Expected = observed[t]
    BY DEF SampledOnGrid, HistoryInv
  <2>2. file.tickers[t].observed = Cardinality(observed[t])
    BY <1>3 DEF Exact
  <2>3. Cardinality(observed[t]) \in Nat
    BY FS_CardinalityType DEF HistoryInv
  <2>4. file.tickers[t].errors > 0 <=> observed[t] # sampled
    BY <1>3 DEF Exact
  <2>5. RealCoverage(t) = Coverage(file.tickers[t].observed)
    BY <2>1, <2>2 DEF RealCoverage
  <2>6. Coverage(file.tickers[t].observed) \in Nat
    BY <2>2, <2>3, CoverageIsMonotone
  <2> QED BY <2>4, <2>5, <2>6
<1>5. now \in Nat /\ Start \in Nat /\ End \in Nat /\ Start < End
  BY HealthWatchAssumption, ConstantTypes DEF HasWindow, Start, End, TypeOK, Time
<1>6. SessionFinished /\ ~SessionRunning /\ ~(now < Start)
  BY <1>1, <1>5 DEF SessionFinished, SessionRunning
<1>7. \A t \in Tickers : \A pct : Below(t, pct) <=> RealCoverage(t) < pct
  BY <1>4, <1>6 DEF Below
<1>8. Fatal <=> \E t \in Tickers : RealCoverage(t) < WarningPct
  <2>1. \A t \in Tickers : ~Silent(t)
    BY <1>6 DEF Silent
  <2>2. Status = "failed" => \E t \in Tickers : RealCoverage(t) < WarningPct
    BY <1>4, StatusIsOfTheWorst
  <2> QED BY <1>3, <1>7, <2>1, <2>2 DEF Fatal
<1>9. Warning <=> \E t \in Tickers : RealCoverage(t) < HealthyPct \/ observed[t] # sampled
  <2>1. Status = "warning" => \E t \in Tickers : RealCoverage(t) < HealthyPct
    BY <1>4, StatusIsOfTheWorst
  <2> QED BY <1>4, <1>7, <2>1 DEF Warning
<1> QED BY <1>6, <1>8, <1>9 DEF ExitCode, Deserved

\* Without kills and without a single cycle beside the service, the watchdog's verdict
\* after the close is the one the day deserves, for every session, set of tickers, write
\* period and thresholds: graceful stops, restarts and interrupted single cycles neither
\* lose a cycle or an error nor count one twice.
THEOREM VerdictIsAlwaysExact == Spec => []VerdictIsExact
BY InitType, NextType, InitCounts, NextCounts, InitExact, NextExact, ExactInvImplies, PTL
   DEF Spec
----------------------------------------------------------------------------
(***************************************************************************)
(* A silence complaint is never false.  The file of a service that was     *)
(* started once lacks at most the cycles since the last write, fewer than  *)
(* the write period; a complaint would need a whole period of them.        *)
(***************************************************************************)
OpeningOnGrid == OnGrid(Start)

OpeningApart == Start + Grace < NextBoundary(Start)

\* The watchdog waits for a write period, the grace and a cycle.
PatientEnough == HealthWriteEvery * Interval + Grace + MaxWork <= MaxSilence

OneLife == boots = 1 /\ deaths = 0 /\ pc # "off"

\* Before the first start there is nothing.
Fresh == boots = 0 => /\ pc = "off" /\ once = None /\ mem = None
                      /\ sampled = {} /\ unwritten = 0

FromOpening(b) == b = Start \/ NextBoundary(Start) <= b

SampledTo(b) == \A s \in sampled : s <= b

\* One life samples in ascending order.
OrderInv ==
    /\ Fresh
    /\ OneLife =>
         /\ once = None
         /\ last = None => sampled = {}
         /\ last # None => last <= now /\ FromOpening(last) /\ SampledTo(last)
         /\ pc \in {"wait", "cycle"} => FromOpening(boundary) /\ SampledTo(boundary)
         /\ pc = "cycle" => boundary <= now

\* A tracker that knows the latest cycle of every ticker.
Latest(tracker) ==
    \A t \in Tickers : \A s \in observed[t] : tracker[t].last # None /\ s <= tracker[t].last

\* The cycles of a ticker that are newer than its last one in the file.
Newer(t) == {s \in observed[t] : file.tickers[t].last = None \/ file.tickers[t].last < s}

LagInv ==
    /\ unwritten < HealthWriteEvery
    /\ OneLife =>
         /\ mem = None /\ pc # "over" => sampled = {}
         /\ mem # None => Latest(mem)
         /\ \A t \in Tickers : Cardinality(Newer(t)) <= unwritten

LEMMA InitOrder == Init => OrderInv /\ LagInv
BY HealthWatchAssumption DEF Init, OrderInv, LagInv, Fresh, OneLife

LEMMA OrderTypes ==
    ASSUME TypeOK
    PROVE  /\ now \in Nat /\ boundary \in Nat /\ last \in Nat \union {None} /\ None \notin Nat
           /\ boots \in Nat /\ deaths \in Nat /\ unwritten \in Nat /\ sampled \subseteq Nat
           /\ Start \in Nat /\ Grace \in Nat
BY ConstantTypes DEF TypeOK, Time

\* The chosen boundary is no earlier than any that was sampled.
LEMMA ChosenIsNext ==
    ASSUME OpeningApart, TypeOK, OrderInv, OneLife, pc = "top"
    PROVE  FromOpening(Chosen) /\ SampledTo(Chosen)
<1>1. /\ now \in Nat /\ last \in Nat \union {None} /\ Start \in Nat /\ Grace \in Nat
      /\ sampled \subseteq Nat
  BY OrderTypes
<1>2. /\ NextBoundary(now) \in Nat /\ now < NextBoundary(now) /\ OnGrid(NextBoundary(now))
      /\ NextBoundary(Start) \in Nat
      /\ Start < NextBoundary(now) => NextBoundary(Start) <= NextBoundary(now)
  BY <1>1, NextBoundaryIsNext
<1>3. /\ last = None => sampled = {}
      /\ last # None => last <= now /\ FromOpening(last) /\ SampledTo(last)
  BY DEF OrderInv
<1>4. CASE now <= Start + Grace /\ last # Start
  <2>1. Chosen = Start
    BY <1>4 DEF Chosen
  <2>2. last = None
    <3> SUFFICES ASSUME last # None PROVE FALSE
      OBVIOUS
    <3>1. last \in Nat /\ last <= now /\ NextBoundary(Start) <= last
      BY <1>1, <1>3, <1>4 DEF FromOpening
    <3> QED BY <1>1, <1>2, <1>4, <3>1 DEF OpeningApart
  <2> QED BY <1>3, <2>1, <2>2 DEF FromOpening, SampledTo
<1>5. CASE ~(now <= Start + Grace /\ last # Start)
  <2>1. Chosen = NextBoundary(now)
    BY <1>5 DEF Chosen
  <2>2. Start <= now
    <3>1. CASE last = Start
      <4>1. last # None
        BY <1>1, <3>1, ConstantTypes
      <4> QED BY <1>3, <3>1, <4>1
    <3>2. CASE last # Start
      BY <1>1, <1>5, <3>2
    <3> QED BY <3>1, <3>2
  <2>3. FromOpening(Chosen)
    BY <1>1, <1>2, <2>1, <2>2 DEF FromOpening
  <2>4. SampledTo(Chosen)
    <3>1. CASE last = None
      BY <1>3, <3>1 DEF SampledTo
    <3>2. CASE last # None
      BY <1>1, <1>2, <1>3, <2>1, <3>2 DEF SampledTo
    <3> QED BY <3>1, <3>2
  <2> QED BY <2>3, <2>4
<1> QED BY <1>4, <1>5

LEMMA OrderStep ==
    ASSUME OpeningApart, TypeOK, OrderInv, [Next]_vars
    PROVE  OrderInv'
<1> USE OrderTypes
<1>1. CASE Tick
  <2>1. /\ now' = now + 1
        /\ UNCHANGED <<pc, boundary, last, mem, unwritten, onceVars, boots, deaths, sampled>>
    BY <1>1 DEF Tick, lifeVars, historyVars
  <2> QED BY <2>1 DEF OrderInv, Fresh, OneLife, FromOpening, SampledTo, onceVars
<1>2. CASE Boot
  <2>1. /\ pc' = "top" /\ boots' = boots + 1 /\ last' = None
        /\ sampled' = sampled /\ once' = once
    BY <1>2 DEF Boot, onceVars, historyVars
  <2>2. OneLife' => boots = 0
    BY <2>1 DEF OneLife
  <2> QED BY <2>1, <2>2 DEF OrderInv, Fresh, OneLife
<1>3. CASE Schedule
  <2>1. /\ pc = "top" /\ pc' = "wait" /\ boundary' = Chosen
        /\ UNCHANGED <<now, last, mem, unwritten, once, boots, deaths, sampled>>
    BY <1>3 DEF Schedule, Inside, onceVars, lifeVars, historyVars
  <2>2. OneLife => FromOpening(Chosen) /\ SampledTo(Chosen)
    BY <2>1, ChosenIsNext
  <2> QED BY <2>1, <2>2 DEF OrderInv, Fresh, OneLife, FromOpening, SampledTo
<1>4. CASE SkipStale
  <2>1. /\ pc = "wait" /\ pc' = "top"
        /\ UNCHANGED <<now, boundary, last, mem, unwritten, once, boots, deaths, sampled>>
    BY <1>4 DEF SkipStale, onceVars, lifeVars, historyVars
  <2> QED BY <2>1 DEF OrderInv, Fresh, OneLife, FromOpening, SampledTo
<1>5. CASE BeginCycle
  <2>1. /\ pc = "wait" /\ pc' = "cycle" /\ boundary <= now
        /\ UNCHANGED <<now, boundary, last, once, boots, deaths, sampled>>
    BY <1>5 DEF BeginCycle, onceVars, lifeVars, historyVars
  <2> QED BY <2>1 DEF OrderInv, Fresh, OneLife, FromOpening, SampledTo
<1>6. ASSUME NEW good \in SUBSET Tickers, EndCycle(good) PROVE OrderInv'
  <2>1. /\ pc = "cycle" /\ pc' = "top" /\ last' = boundary
        /\ sampled' = sampled \union {boundary}
        /\ UNCHANGED <<now, boundary, once, boots, deaths>>
    BY <1>6 DEF EndCycle, Noted, onceVars, lifeVars
  <2> QED BY <2>1 DEF OrderInv, Fresh, OneLife, FromOpening, SampledTo
<1>7. CASE LeaveDay
  <2>1. /\ pc = "top" /\ pc' = "over" /\ mem' = None /\ unwritten' = 0
        /\ UNCHANGED <<now, boundary, last, once, boots, deaths, sampled>>
    BY <1>7 DEF LeaveDay, Forgotten, onceVars, lifeVars, historyVars
  <2> QED BY <2>1 DEF OrderInv, Fresh, OneLife, FromOpening, SampledTo
<1>8. CASE GracefulStop \/ Kill \/ PowerFails
  <2>1. /\ pc' = "off" /\ mem' = None /\ unwritten' = 0 /\ once' \in {once, None}
        /\ UNCHANGED <<boots, sampled>>
    BY <1>8 DEF GracefulStop, Kill, PowerFails, Forgotten, onceVars, historyVars
  <2> QED BY <2>1 DEF OrderInv, Fresh, OneLife
<1>9. CASE RunOnce
  <2>1. pc' = pc /\ boots' = boots + 1 /\ deaths' = deaths
    BY <1>9 DEF RunOnce, processVars
  <2> QED BY <2>1 DEF OrderInv, Fresh, OneLife
<1>10. ASSUME \/ InterruptOnce
              \/ \E good \in SUBSET Tickers : EndOnce(good)
       PROVE  OrderInv'
  <2>1. once # None /\ UNCHANGED <<pc, boots, deaths>>
    BY <1>10 DEF InterruptOnce, EndOnce, processVars, lifeVars
  <2> QED BY <2>1 DEF OrderInv, Fresh, OneLife
<1>11. CASE UNCHANGED vars \/ TimeEnds
  BY <1>11 DEF TimeEnds, vars, processVars, onceVars, lifeVars, historyVars,
               OrderInv, Fresh, OneLife, FromOpening, SampledTo
<1> QED
  BY <1>1, <1>2, <1>3, <1>4, <1>5, <1>6, <1>7, <1>8, <1>9, <1>10, <1>11 DEF Next

LEMMA NothingNewer ==
    ASSUME NEW t \in Tickers, HistoryInv, sampled = {}
    PROVE  observed[t] = {} /\ Newer(t) = {} /\ Cardinality(Newer(t)) = 0
BY FS_EmptySet DEF HistoryInv, Newer

\* After a cycle the tracker that recorded it still knows the latest of every ticker.
LEMMA RecordedLatest ==
    ASSUME NEW tracker \in Trackers, Latest(tracker), NEW at \in Nat, SampledTo(at), HistoryInv,
           NEW good \in SUBSET Tickers, Noted(at, good), TypeOK
    PROVE  \A t \in Tickers : \A s \in observed'[t] :
             /\ Recorded(tracker, at, good)[t].last # None
             /\ s <= Recorded(tracker, at, good)[t].last
<1> SUFFICES ASSUME NEW t \in Tickers, NEW s \in observed'[t]
             PROVE  /\ Recorded(tracker, at, good)[t].last # None
                    /\ s <= Recorded(tracker, at, good)[t].last
  OBVIOUS
<1>1. observed'[t] = IF t \in good THEN observed[t] \union {at} ELSE observed[t]
  BY DEF Noted
<1>2. Recorded(tracker, at, good)[t] = Counted(tracker[t], at, t \in good)
  BY DEF Recorded
<1>3. tracker[t] \in TickerHealth
  BY DEF Trackers
<1>4. CASE t \in good
  <2>1. Recorded(tracker, at, good)[t].last = at
    BY <1>2, <1>3, <1>4 DEF Counted, TickerHealth
  <2>2. s \in sampled \/ s = at
    BY <1>1, <1>4 DEF HistoryInv
  <2>3. s <= at
    BY <2>2 DEF SampledTo
  <2> QED BY <2>1, <2>3, ConstantTypes
<1>5. CASE t \notin good
  <2>1. Recorded(tracker, at, good)[t].last = tracker[t].last
    BY <1>2, <1>3, <1>5 DEF Counted, TickerHealth
  <2> QED BY <1>1, <1>5, <2>1 DEF Latest
<1> QED BY <1>4, <1>5

LEMMA OneMore ==
    ASSUME NEW S, NEW x, IsFiniteSet(S)
    PROVE  /\ IsFiniteSet(S \union {x})
           /\ Cardinality(S \union {x}) <= Cardinality(S) + 1
           /\ Cardinality(S \union {x}) \in Nat
<1>1. /\ IsFiniteSet(S \union {x})
      /\ Cardinality(S \union {x}) = IF x \in S THEN Cardinality(S) ELSE Cardinality(S) + 1
  BY FS_AddElement
<1>2. Cardinality(S) \in Nat
  BY FS_CardinalityType
<1> QED BY <1>1, <1>2

LEMMA EndCycleLag ==
    ASSUME TypeOK, HistoryInv, OrderInv, LagInv, NEW good \in SUBSET Tickers, EndCycle(good)
    PROVE  LagInv'
<1>1. /\ pc = "cycle" /\ pc' = "top" /\ boots' = boots /\ deaths' = deaths
      /\ Noted(boundary, good) /\ boundary \in Nat /\ unwritten \in Nat
      /\ HealthWriteEvery \in Nat \ {0}
      /\ mem \in Trackers /\ mem # None /\ mem' = Recorded(mem, boundary, good)
  BY HealthWatchAssumption DEF EndCycle, lifeVars, TypeOK, Trackers
<1>2. mem' # None
  BY <1>1, RecordedType, ConstantTypes
<1>3. unwritten' < HealthWriteEvery
  <2>1. CASE WriteDue
    BY <1>1, <2>1 DEF EndCycle
  <2>2. CASE ~WriteDue
    <3>1. unwritten' = unwritten + 1
      BY <2>2 DEF EndCycle
    <3> QED BY <1>1, <2>2, <3>1 DEF WriteDue
  <2> QED BY <2>1, <2>2
<1> SUFFICES ASSUME OneLife' PROVE LagInv'
  BY <1>3 DEF LagInv
<1>4. OneLife
  BY <1>1 DEF OneLife
<1>5. \A t \in Tickers : \A s \in observed'[t] : mem'[t].last # None /\ s <= mem'[t].last
  BY <1>1, <1>4, RecordedLatest DEF OrderInv, LagInv
<1>6. ASSUME NEW t \in Tickers PROVE Cardinality(Newer(t))' <= unwritten'
  <2>1. CASE WriteDue
    <3>1. unwritten' = 0 /\ file' = Written(mem', FALSE)
      BY <2>1 DEF EndCycle
    <3>2. file'.tickers = mem'
      BY <3>1, WrittenSeen
    <3>3. \A s \in observed'[t] : s \in Nat /\ mem'[t].last \in Nat
      <4>1. mem' \in Trackers /\ observed' \in [Tickers -> SUBSET Nat]
        BY <1>1, RecordedType, NotedType
      <4> QED BY <1>5, <4>1 DEF Trackers, TickerHealth
    <3>4. Newer(t)' = {}
      BY <1>5, <3>2, <3>3 DEF Newer
    <3> QED BY <3>1, <3>4, FS_EmptySet
  <2>2. CASE ~WriteDue
    <3>1. unwritten' = unwritten + 1 /\ file' = file
      BY <2>2 DEF EndCycle
    <3>2. IsFiniteSet(Newer(t)) /\ Cardinality(Newer(t)) \in Nat
      BY FS_Subset, FS_CardinalityType DEF HistoryInv, Newer
    <3>3. observed'[t] \subseteq observed[t] \union {boundary}
      BY <1>1 DEF Noted
    <3>4. Newer(t)' \in SUBSET (Newer(t) \union {boundary})
      BY <3>1, <3>3 DEF Newer
    <3>5. /\ IsFiniteSet(Newer(t) \union {boundary})
          /\ Cardinality(Newer(t) \union {boundary}) <= Cardinality(Newer(t)) + 1
          /\ Cardinality(Newer(t) \union {boundary}) \in Nat
      BY <3>2, OneMore
    <3>6. /\ Cardinality(Newer(t)') <= Cardinality(Newer(t) \union {boundary})
          /\ Cardinality(Newer(t)') \in Nat
      BY <3>4, <3>5, FS_Subset, FS_CardinalityType
    <3>7. Cardinality(Newer(t)) <= unwritten
      BY <1>4 DEF LagInv
    <3> QED BY <1>1, <3>1, <3>2, <3>5, <3>6, <3>7
  <2> QED BY <2>1, <2>2
<1> QED BY <1>2, <1>3, <1>5, <1>6 DEF LagInv, Latest

LEMMA LagStep ==
    ASSUME TypeOK, HistoryInv, OrderInv, LagInv, [Next]_vars
    PROVE  LagInv'
<1>0. 0 < HealthWriteEvery /\ unwritten \in Nat /\ boots \in Nat
  BY OrderTypes, HealthWatchAssumption
<1> USE <1>0
<1>1. CASE Tick \/ Schedule \/ SkipStale
  <2>1. /\ (pc # "over" /\ pc' # "over") \/ pc' = pc
        /\ (pc = "off") <=> (pc' = "off")
        /\ UNCHANGED <<mem, unwritten, file, boots, deaths, sampled, observed>>
    BY <1>1 DEF Tick, Schedule, SkipStale, Inside, onceVars, lifeVars, historyVars
  <2> QED BY <2>1 DEF LagInv, OneLife, Latest, Newer
<1>2. CASE Boot
  <2>1. /\ pc' = "top" /\ boots' = boots + 1
        /\ UNCHANGED <<mem, unwritten, file, sampled, observed>>
    BY <1>2 DEF Boot, historyVars
  <2> SUFFICES ASSUME OneLife' PROVE LagInv'
    BY <2>1 DEF LagInv
  <2>2. mem = None /\ sampled = {} /\ unwritten = 0
    BY <2>1 DEF OneLife, OrderInv, Fresh
  <2>3. \A t \in Tickers : Newer(t)' = Newer(t)
    BY <2>1 DEF Newer
  <2> QED BY <2>1, <2>2, <2>3, NothingNewer DEF LagInv
<1>3. CASE BeginCycle
  <2>1. /\ pc = "wait" /\ pc' = "cycle"
        /\ UNCHANGED <<boots, deaths, sampled, observed>> /\ Ensured
    BY <1>3 DEF BeginCycle, lifeVars, historyVars
  <2>2. CASE mem = None
    <3>1. mem' = Restored /\ mem' # None /\ unwritten' = 0
      BY <2>1, <2>2, RestoredType DEF Ensured
    <3> SUFFICES ASSUME OneLife' PROVE LagInv'
      BY <3>1 DEF LagInv
    <3>2. sampled = {}
      BY <2>1, <2>2 DEF OneLife, LagInv
    <3>3. \A t \in Tickers : observed'[t] = {}
      BY <2>1, <3>2, NothingNewer
    <3>4. \A t \in Tickers : Newer(t)' = {}
      BY <3>3 DEF Newer
    <3> QED BY <3>1, <3>3, <3>4, FS_EmptySet DEF LagInv, Latest
  <2>3. CASE mem # None
    <3>1. UNCHANGED <<mem, unwritten, file>>
      BY <2>1, <2>3 DEF Ensured
    <3> QED BY <2>1, <2>3, <3>1 DEF LagInv, OneLife, Latest, Newer
  <2> QED BY <2>2, <2>3
<1>4. CASE LeaveDay
  <2>1. /\ pc = "top" /\ pc' = "over" /\ mem' = None /\ unwritten' = 0 /\ file' = Finalised
        /\ UNCHANGED <<boots, deaths, sampled, observed>>
    BY <1>4 DEF LeaveDay, Forgotten, lifeVars, historyVars
  <2> SUFFICES ASSUME OneLife', NEW t \in Tickers PROVE Cardinality(Newer(t)') = 0
    BY <2>1 DEF LagInv
  <2>2. OneLife
    BY <2>1 DEF OneLife
  <2>3. CASE mem = None
    <3>1. sampled = {} /\ file' = file
      BY <2>1, <2>2, <2>3 DEF LagInv, Finalised
    <3>2. Newer(t)' = Newer(t)
      BY <2>1, <3>1 DEF Newer
    <3> QED BY <3>1, <3>2, NothingNewer
  <2>4. CASE mem # None
    <3>0. file' = Written(mem, TRUE)
      BY <2>1, <2>4 DEF Finalised
    <3>1. file'.tickers = mem
      BY <3>0, WrittenSeen
    <3>2. \A s \in observed[t] : mem[t].last # None /\ s <= mem[t].last
      BY <2>2, <2>4 DEF LagInv, Latest
    <3>3. \A s \in observed[t] : s \in Nat /\ mem[t].last \in Nat
      BY <2>4, <3>2 DEF TypeOK, TickerHealth
    <3>4. Newer(t)' = {}
      BY <2>1, <3>1, <3>2, <3>3 DEF Newer
    <3> QED BY <3>4, FS_EmptySet
  <2> QED BY <2>3, <2>4
<1>5. CASE GracefulStop \/ Kill \/ PowerFails
  <2>1. pc' = "off" /\ unwritten' = 0
    BY <1>5 DEF GracefulStop, Kill, PowerFails, Forgotten
  <2> QED BY <2>1 DEF LagInv, OneLife
<1>6. CASE RunOnce
  <2>1. pc' = pc /\ boots' = boots + 1 /\ unwritten' = unwritten
    BY <1>6 DEF RunOnce, processVars
  <2> QED BY <2>1 DEF LagInv, OrderInv, Fresh, OneLife
<1>7. ASSUME \/ InterruptOnce
             \/ \E good \in SUBSET Tickers : EndOnce(good)
      PROVE  LagInv'
  <2>1. once # None /\ UNCHANGED <<pc, boots, deaths, unwritten>>
    <3>1. CASE InterruptOnce
      BY <3>1 DEF InterruptOnce, processVars, lifeVars
    <3>2. CASE \E good \in SUBSET Tickers : EndOnce(good)
      BY <3>2 DEF EndOnce, processVars, lifeVars
    <3> QED BY <1>7, <3>1, <3>2
  <2> QED BY <2>1 DEF LagInv, OrderInv, OneLife
<1>8. CASE UNCHANGED vars \/ TimeEnds
  BY <1>8 DEF TimeEnds, vars, processVars, onceVars, lifeVars, historyVars,
              LagInv, OneLife, Latest, Newer
<1> QED BY <1>1, <1>2, <1>3, <1>4, <1>5, <1>6, <1>7, <1>8, EndCycleLag DEF Next

LEMMA SameProduct ==
    ASSUME NEW p \in Nat, NEW q \in Nat, p * Interval = q * Interval
    PROVE  p <= q /\ q <= p
<1>1. ASSUME NEW a \in Nat, NEW b \in Nat, a * Interval = b * Interval, a < b PROVE FALSE
  <2>1. (a + 1) * Interval <= b * Interval
    BY <1>1, Product
  <2>2. (a + 1) * Interval = a * Interval + Interval /\ a * Interval \in Nat
    BY Product
  <2> QED BY <1>1, <2>1, <2>2, ClockBounds
<1> QED BY <1>1

\* A write period before a moment well within the session has that many expected polls.
LEMMA PollsOfAPeriod ==
    ASSUME OpeningOnGrid, NEW c \in Nat, c <= End,
           Start + (HealthWriteEvery - 1) * Interval < c
    PROVE  \E m \in Nat :
             /\ HealthWriteEvery <= m + 1
             /\ \A p \in (m - HealthWriteEvery + 1) .. m :
                  /\ p * Interval \in Expected /\ p * Interval < c
                  /\ c <= p * Interval + HealthWriteEvery * Interval
<1> DEFINE W == HealthWriteEvery
<1>1. W \in Nat \ {0} /\ Interval \in Nat \ {0} /\ Start \in Nat /\ End \in Nat
  BY HealthWatchAssumption, ClockBounds, ConstantTypes
<1>2. PICK k \in Nat : Start = k * Interval
  BY DEF OpeningOnGrid, OnGrid
<1> DEFINE m == (c - 1) \div Interval
<1> HIDE DEF W
<1>3. W - 1 \in Nat /\ (W - 1) * Interval \in Nat
  BY <1>1, Product
<1>4. c - 1 \in Nat
  BY <1>1, <1>3 DEF W
<1>5. m \in Nat /\ m * Interval <= c - 1 /\ c - 1 < (m + 1) * Interval
  <2>1. m \in Nat /\ m * Interval <= c - 1 /\ c - 1 < m * Interval + Interval
    BY <1>1, <1>4
  <2> HIDE DEF m
  <2> QED BY <2>1, Product
<1> HIDE DEF m
<1>6. k + W - 1 \in Nat /\ (k + W - 1) * Interval = Start + (W - 1) * Interval
  BY <1>1, <1>2, <1>3
<1>7. k + W - 1 <= m
  <2> SUFFICES ASSUME m + 1 <= k + W - 1 PROVE FALSE
    BY <1>1, <1>5, <1>6
  <2>1. (m + 1) * Interval <= (k + W - 1) * Interval
    BY <1>5, <1>6, Product
  <2>2. (m + 1) * Interval \in Nat
    BY <1>5, Product
  <2> QED BY <1>1, <1>3, <1>4, <1>5, <1>6, <2>1, <2>2 DEF W
<1>8. ASSUME NEW p \in (m - W + 1) .. m
      PROVE  /\ p * Interval \in Expected /\ p * Interval < c
             /\ c <= p * Interval + W * Interval
  <2>1. p \in Nat /\ k <= p /\ p <= m /\ m + 1 <= p + W
    BY <1>1, <1>5, <1>7
  <2>2. /\ k * Interval <= p * Interval /\ p * Interval <= m * Interval
        /\ p * Interval \in Nat /\ m * Interval \in Nat
    BY <1>5, <2>1, Product
  <2>3. p * Interval < c /\ p * Interval <= End
    BY <1>1, <1>5, <2>2
  <2>4. c <= p * Interval + W * Interval
    <3>1. (m + 1) * Interval <= (p + W) * Interval
      BY <1>1, <1>5, <2>1, Product
    <3>2. (p + W) * Interval = p * Interval + W * Interval
      BY <1>1, <2>1
    <3>3. (m + 1) * Interval \in Nat /\ (p + W) * Interval \in Nat
      BY <1>1, <1>5, <2>1, Product
    <3> QED BY <1>4, <1>5, <3>1, <3>2, <3>3
  <2>5. FirstPoll(Day) = Start
    <3>1. (k * Interval) % Interval = 0
      <4>1. k * Interval <= k * Interval
        BY <1>1, <1>2
      <4> QED BY <4>1, GridSteps
    <3> QED BY <1>2, <3>1 DEF FirstPoll, Start
  <2>6. (p * Interval - k * Interval) % Interval = 0
    BY <2>1, <2>2, GridSteps
  <2>7. p * Interval \in Expected
    BY <1>1, <1>2, <2>2, <2>3, <2>5, <2>6, HealthWatchAssumption
       DEF Expected, ExpectedPollTimestamps, End
  <2> QED BY <2>3, <2>4, <2>7
<1>9. W <= m + 1
  BY <1>1, <1>5, <1>7
<1> QED BY <1>5, <1>8, <1>9 DEF W

LEMMA LagInvImplies ==
    ASSUME OpeningOnGrid, PatientEnough, TypeOK, HistoryInv, LagInv
    PROVE  SilenceAlarmIsReal
<1> SUFFICES ASSUME NEW t \in Tickers, OneLife,
                    now > Start + (HealthWriteEvery - 1) * Interval + Grace + MaxWork,
                    \A s \in Expected : s + Grace + MaxWork < now => s \in observed[t],
                    Silent(t)
             PROVE  FALSE
  BY DEF SilenceAlarmIsReal, OneLife
<1> DEFINE c == now - Grace - MaxWork
           W == HealthWriteEvery
<1>1. /\ now \in Nat /\ Start \in Nat /\ End \in Nat /\ Grace \in Nat /\ MaxWork \in Nat
      /\ MaxSilence \in Nat /\ W \in Nat \ {0} /\ Interval \in Nat \ {0}
      /\ W * Interval \in Nat /\ (W - 1) * Interval \in Nat
  BY OrderTypes, ConstantTypes, HealthWatchAssumption, ClockBounds, Product
<1>2. c \in Nat /\ c <= End /\ Start + (W - 1) * Interval < c
  BY <1>1 DEF Silent, SessionRunning
<1>3. PICK m \in Nat :
        /\ W <= m + 1
        /\ \A p \in (m - W + 1) .. m :
             /\ p * Interval \in Expected /\ p * Interval < c
             /\ c <= p * Interval + W * Interval
  BY <1>2, PollsOfAPeriod
<1> DEFINE f == [p \in (m - W + 1) .. m |-> p * Interval]
<1>4. ASSUME NEW p \in (m - W + 1) .. m PROVE p * Interval \in Newer(t)
  <2>1. p \in Nat /\ p * Interval \in Nat
    BY <1>1, <1>3, Product
  <2>2. p * Interval \in observed[t]
    <3>1. p * Interval \in Expected /\ p * Interval < c
      BY <1>3
    <3>2. p * Interval + Grace + MaxWork < now
      BY <1>1, <2>1, <3>1
    <3> QED BY <3>1, <3>2
  <2>3. file.tickers[t].last \in Nat \union {None}
    BY DEF TypeOK, Files, TickerHealth
  <2>4. CASE file.tickers[t].last = None
    BY <2>2, <2>4 DEF Newer
  <2>5. CASE file.tickers[t].last # None
    <3>1. MaxSilence < now - file.tickers[t].last
      BY <1>1, <2>3, <2>5 DEF Silent
    <3>2. now <= p * Interval + W * Interval + Grace + MaxWork
      BY <1>1, <1>3, <2>1
    <3>3. file.tickers[t].last < p * Interval
      BY <1>1, <2>1, <2>3, <2>5, <3>1, <3>2 DEF PatientEnough
    <3> QED BY <2>2, <3>3 DEF Newer
  <2> QED BY <2>4, <2>5
<1>5. f \in [(m - W + 1) .. m -> Newer(t)]
  BY <1>4
<1>6. /\ IsFiniteSet((m - W + 1) .. m) /\ Cardinality((m - W + 1) .. m) = W
  BY <1>1, <1>3, FS_Interval
<1>7. /\ IsFiniteSet(Newer(t)) /\ Cardinality(Newer(t)) \in Nat
      /\ Cardinality(Newer(t)) < W
  <2>1. IsFiniteSet(Newer(t)) /\ Cardinality(Newer(t)) \in Nat
    BY FS_Subset, FS_CardinalityType DEF HistoryInv, Newer
  <2>2. Cardinality(Newer(t)) <= unwritten /\ unwritten < W /\ unwritten \in Nat
    BY OrderTypes DEF LagInv
  <2> QED BY <1>1, <2>1, <2>2
<1>8. PICK p \in (m - W + 1) .. m, q \in (m - W + 1) .. m : p # q /\ f[p] = f[q]
  <2> DEFINE S == (m - W + 1) .. m
             T == Newer(t)
  <2>1. /\ IsFiniteSet(S) /\ IsFiniteSet(T) /\ f \in [S -> T]
        /\ Cardinality(T) < Cardinality(S)
    BY <1>5, <1>6, <1>7
  <2> HIDE DEF S, T, f
  <2>2. \E x, y \in S : x # y /\ f[x] = f[y]
    BY <2>1, FS_PigeonHole
  <2> QED BY <2>2 DEF S
<1>9. p \in Nat /\ q \in Nat /\ p * Interval = q * Interval
  BY <1>1, <1>3, <1>8
<1>10. p <= q /\ q <= p
  BY <1>1, <1>9, SameProduct
<1> QED BY <1>8, <1>9, <1>10

\* Whenever the opening is on the grid and the next boundary outside its grace, and the
\* watchdog waits at least a write period, the grace and a cycle, it never complains of a
\* ticker that was collected at every boundary so far.
THEOREM SilenceAlarmsAreReal ==
    ASSUME OpeningOnGrid, OpeningApart, PatientEnough
    PROVE  Spec => []SilenceAlarmIsReal
<1>1. TypeOK /\ HistoryInv /\ OrderInv /\ LagInv /\ [Next]_vars => OrderInv' /\ LagInv'
  BY OrderStep, LagStep
<1>2. TypeOK /\ HistoryInv /\ LagInv => SilenceAlarmIsReal
  BY LagInvImplies
<1> QED BY InitType, NextType, InitCounts, NextCounts, InitOrder, <1>1, <1>2, PTL DEF Spec
=============================================================================
