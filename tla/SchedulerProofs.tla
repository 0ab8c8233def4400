--------------------------- MODULE SchedulerProofs ---------------------------
(***************************************************************************)
(* What holds of Scheduler.tla for every calendar, interval and bound.     *)
(***************************************************************************)
EXTENDS Scheduler, MarketClockProofs, FiniteSetTheorems

----------------------------------------------------------------------------
(***************************************************************************)
(* Type correctness.                                                       *)
(***************************************************************************)
LEMMA ConstantTypes ==
    /\ Grace \in Nat /\ Minute \in Nat /\ RestartDelay \in Nat
    /\ SleepSlice \in Nat /\ Second \in Nat
    /\ HealthWriteEvery \in Nat /\ HealthWriteEvery > 0
    /\ LastInstant \in Nat /\ LastInstant + Minute = Horizon
<1>1. Grace \in Nat /\ Minute \in Nat /\ RestartDelay \in Nat /\ Horizon \in Nat
  BY ClockBounds, SchedulerAssumption
<1>2. SleepSlice \in Nat /\ Second \in Nat /\ HealthWriteEvery \in Nat \ {0}
  BY SchedulerAssumption
<1>3. Minute <= Horizon
  BY SchedulerAssumption
<1> QED BY <1>1, <1>2, <1>3 DEF LastInstant

LEMMA CounterTypes ==
    /\ Empty \in Counters /\ NoFile \in Files
    /\ \A counters \in Counters : \A finished \in BOOLEAN :
         FileOf(counters, finished) \in Files
BY DEF Empty, NoFile, FileOf, Counters, Files

\* The loop keeps to the modelled time, so the calendar knows about now + Minute.
InTime == TypeOK /\ now <= LastInstant

LEMMA NowTypes ==
    ASSUME InTime
    PROVE  /\ now \in Nat /\ Today(now) \in Days
           /\ now + Minute \in Time
           /\ \A d \in Days : d \in Nat /\ d # None
<1>1. now \in Nat /\ now + Minute \in Time
  BY ClockBounds, ConstantTypes DEF InTime, TypeOK, Time
<1>2. now \in Time
  BY DEF InTime, TypeOK
<1>3. \A d \in Days : d \in Nat /\ d # None
  BY ClockBounds DEF Days
<1> QED BY <1>1, <1>2, <1>3, CalendarTypes DEF Today

LEMMA FinalisedType ==
    ASSUME TypeOK, healthDate # None
    PROVE  Finalised \in [Days -> Files]
BY CounterTypes DEF Finalised, TypeOK, Counters, Files

LEMMA InitType == Init => InTime
<1> SUFFICES ASSUME Init PROVE InTime
  OBVIOUS
<1>1. 0 \in Time /\ 0 \in Days /\ 0 <= LastInstant
  BY ClockBounds, SchedulerAssumption DEF Time, Days, LastInstant
<1>2. file \in [Days -> Files] /\ mem \in Counters
  BY CounterTypes DEF Init
<1> QED BY <1>1, <1>2 DEF Init, InTime, TypeOK, Steps, Counters, Files

LEMMA EnvironmentType ==
    ASSUME InTime, Tick \/ CalendarEnds \/ BootService \/ BootOnce \/ RequestStop \/ Kill
    PROVE  InTime'
<1> USE DEF InTime, TypeOK, Steps
<1>1. now \in Nat /\ Today(now) \in Days /\ Empty \in Counters
  BY NowTypes, CounterTypes
<1>2. CASE Tick
  <2>1. now' = now + 1 /\ now' \in Time /\ now' <= LastInstant
    BY <1>1, <1>2, ClockBounds, ConstantTypes DEF Tick, Time
  <2>2. spent' \in Nat
    BY <1>2 DEF Tick
  <2> QED BY <1>2, <2>1, <2>2 DEF Tick, processVars, historyVars, LastInstant
<1>3. CASE CalendarEnds
  BY <1>3 DEF CalendarEnds, vars, processVars, envVars, historyVars
<1>4. CASE BootService
  <2>1. stop' \in BOOLEAN /\ pc' \in Steps /\ mode' \in {"service", "once"}
    BY <1>4 DEF BootService, Fresh
  <2> QED BY <1>1, <1>4, <2>1 DEF BootService, Fresh, historyVars
<1>7. CASE BootOnce
  <2>1. stop' \in BOOLEAN /\ pc' \in Steps /\ mode' \in {"service", "once"}
    BY <1>7 DEF BootOnce, Fresh
  <2> QED BY <1>1, <1>7, <2>1 DEF BootOnce, Fresh, historyVars
<1>5. CASE RequestStop
  BY <1>1, <1>5 DEF RequestStop, sleepVars, healthVars, historyVars
<1>6. CASE Kill
  BY <1>1, <1>6 DEF Kill, loopVars, sleepVars, historyVars
<1> QED BY <1>2, <1>3, <1>4, <1>5, <1>6, <1>7

LEMMA ResumeType ==
    ASSUME InTime, NEW p \in Steps, ResumeAt(p)
    PROVE  InTime'
BY DEF ResumeAt, SleepDone, SliceOver, InTime, TypeOK, Steps, loopVars, healthVars, lifeVars,
       historyVars

LEMMA SleepType == InTime /\ Sleeping => InTime'
<1> SUFFICES ASSUME InTime, Sleeping PROVE InTime'
  OBVIOUS
<1>1. CASE SleepOn
  <2>1. {SleepSlice, target - now} \in SUBSET Nat
    BY <1>1, NowTypes, ConstantTypes DEF SleepOn, InTime, TypeOK
  <2>2. sliceEnd' \in Nat
    BY <1>1, <2>1, MinIsLeast, NowTypes DEF SleepOn
  <2> QED BY <1>1, <2>2 DEF SleepOn, SliceOver, InTime, TypeOK, Steps, loopVars, healthVars,
             envVars, historyVars
<1>2. CASE WakeAtSession \/ WakeAfterClose \/ WakeStopped \/ WakeStale \/ WakeInTime
  BY <1>2, ResumeType DEF WakeAtSession, WakeAfterClose, WakeStopped, WakeStale, WakeInTime, Steps
<1> QED BY <1>1, <1>2 DEF Sleeping

LEMMA BoundaryType ==
    ASSUME InTime, ~Outside
    PROVE  /\ ChosenBoundary \in Nat
           /\ Window.end \in Nat
BY NowTypes, WindowTypes, NextBoundaryIsNext, ClockBounds
   DEF Outside, Window, ChosenBoundary, Time

LEMMA LoopType ==
    ASSUME InTime, LoopStopped \/ LoopOutside \/ LoopOutsideFails \/ LoopInside
    PROVE  InTime'
<1> USE DEF InTime, TypeOK, Steps
<1>1. now \in Nat /\ Today(now) \in Days /\ now + Minute \in Time
  BY NowTypes
<1>2. CASE LoopStopped
  BY <1>2 DEF LoopStopped, loopVars, sleepVars, healthVars, envVars, historyVars
<1>3. CASE LoopOutside
  <2>1. file' \in [Days -> Files]
    BY <1>3, FinalisedType DEF LoopOutside
  <2> DEFINE next == NextSessionStart(now + Minute)
  <2>3. next \in Nat \union {None}
    BY <1>1, NextSessionStartType
  <2>4. \/ pc' = "finally" /\ UNCHANGED sleepVars
        \/ next \in Nat /\ StartSleep("session", next)
    BY <1>3, <2>3 DEF LoopOutside, AwaitSession
  <2> HIDE DEF next
  <2>2. pc' \in Steps /\ purpose' \in {"boundary", "close", "session"} /\ target' \in Nat
        /\ sliceEnd' \in Nat
    BY <2>4 DEF StartSleep, sleepVars
  <2> QED BY <1>1, <1>3, <2>1, <2>2, CounterTypes
          DEF LoopOutside, envVars, historyVars
<1>4. CASE LoopOutsideFails
  BY <1>1, <1>4 DEF LoopOutsideFails, sleepVars, healthVars, envVars, historyVars
<1>5. CASE LoopInside
  <2>1. pc' = "sleep" /\ purpose' \in {"boundary", "close"} /\ target' \in Nat
        /\ sliceEnd' = 0 /\ boundary' \in Nat
    BY <1>5, BoundaryType, ConstantTypes DEF LoopInside, StartSleep
  <2> QED BY <1>1, <1>5, <2>1 DEF LoopInside, healthVars, envVars, historyVars
<1> QED BY <1>2, <1>3, <1>4, <1>5

LEMMA CycleType == InTime /\ Cycling => InTime'
<1> SUFFICES ASSUME InTime, Cycling PROVE InTime'
  OBVIOUS
<1> USE DEF InTime, TypeOK, Steps
<1>1. CASE EnsureReuses
  BY <1>1 DEF EnsureReuses, StartCycle, loopVars, sleepVars, healthVars, envVars
<1>2. OldDayClosed \in [Days -> Files]
  BY FinalisedType DEF OldDayClosed
<1>3. CASE EnsureCreates
  <2>1. mem' \in Counters
    <3>1. mem' = Restored(tradingDate) /\ file[tradingDate] \in Files
      BY <1>3 DEF EnsureCreates
    <3> QED BY <3>1 DEF Restored, Counters, Files
  <2>2. file' \in [Days -> Files]
    BY <1>2, <1>3, <2>1, CounterTypes DEF EnsureCreates
  <2>3. samples' \in Seq(Nat) /\ pc' \in Steps /\ healthDate' \in Days
    BY <1>3 DEF EnsureCreates, StartCycle
  <2> QED BY <1>3, <2>1, <2>2, <2>3
          DEF EnsureCreates, StartCycle, loopVars, sleepVars, envVars
<1>4. CASE EnsureFails
  <2>1. file' \in [Days -> Files]
    BY <1>2, <1>4 DEF EnsureFails
  <2> QED BY <1>4, <2>1
          DEF EnsureFails, loopVars, sleepVars, healthVars, envVars, historyVars
<1>5. ASSUME NEW ok \in BOOLEAN, CycleEnds(ok) \/ CycleWriteFails(ok) PROVE InTime'
  <2>6. CycleRecorded(ok)
    BY <1>5 DEF CycleEnds, CycleWriteFails
  <2>1. mem' \in Counters
    BY <2>6 DEF CycleRecorded, Recorded, Counters
  <2>2. recorded' \in [Days -> Nat]
    BY <2>6 DEF CycleRecorded
  <2>3. FileOf(mem', FALSE) \in Files
    BY <2>1, CounterTypes
  <2>4. file' \in [Days -> Files] /\ unwritten' \in Nat
    <3>1. CASE CycleEnds(ok)
      <4> DEFINE entry == FileOf(mem', FALSE)
      <4>1. unwritten' = 0 \/ unwritten' = unwritten + 1
        BY <3>1 DEF CycleEnds
      <4>2. file' = [file EXCEPT ![healthDate] = entry] \/ file' = file
        BY <3>1 DEF CycleEnds
      <4>3. entry \in Files
        BY <2>3
      <4> HIDE DEF entry
      <4> QED BY <4>1, <4>2, <4>3
    <3>2. CASE CycleWriteFails(ok)
      BY <3>2 DEF CycleWriteFails
    <3> QED BY <1>5, <3>1, <3>2
  <2>5. pc' \in Steps /\ lastBoundary' \in Nat \union {None}
    BY <1>5 DEF CycleEnds, CycleWriteFails, loopVars
  <2> QED BY <1>5, <2>1, <2>2, <2>4, <2>5
          DEF CycleEnds, CycleWriteFails, loopVars, sleepVars, envVars
<1> QED BY <1>1, <1>3, <1>4, <1>5 DEF Cycling

LEMMA ExitType == InTime /\ (Exit \/ ExitWriteFails) => InTime'
<1> SUFFICES ASSUME InTime, Exit \/ ExitWriteFails PROVE InTime'
  OBVIOUS
<1>1. file' \in [Days -> Files] /\ deaths' \in Nat
  BY FinalisedType DEF Exit, ExitWriteFails, InTime, TypeOK
<1>2. Empty \in Counters /\ now \in Nat
  BY CounterTypes, NowTypes
<1> QED BY <1>1, <1>2 DEF Exit, ExitWriteFails, Ended, InTime, TypeOK, Steps, loopVars, sleepVars,
           historyVars

LEMMA StepType == InTime /\ [Next]_vars => InTime'
<1>1. InTime /\ UNCHANGED vars => InTime'
  BY DEF InTime, TypeOK, vars, processVars, envVars, historyVars
<1> QED BY <1>1, EnvironmentType, SleepType, LoopType, CycleType, ExitType DEF Next, Step

LEMMA TimeHolds == Spec => []InTime
BY InitType, StepType, PTL DEF Spec

\* The type invariant holds for every calendar and every bound.
THEOREM TypeCorrect == Spec => []TypeOK
<1>1. InTime => TypeOK
  BY DEF InTime
<1> QED BY <1>1, TimeHolds, PTL

----------------------------------------------------------------------------
(***************************************************************************)
(* Boundaries advance, over all lives of the process.  Two things are      *)
(* needed of the configuration: the first boundary after an opening lies   *)
(* beyond the opening's grace, and a restart takes longer than the grace.  *)
(***************************************************************************)
OpeningsApart ==
    \A d \in TradingDays : SessionOpen[d] + Grace < NextBoundary(SessionOpen[d])

RestartsApart == Grace < RestartDelay

SampledUpTo(t)   == \A i \in DOMAIN samples : samples[i] <= t
SampledBefore(t) == \A i \in DOMAIN samples : samples[i] < t

OnCalendar(t) == OnGrid(t) \/ \E d \in TradingDays : t = SessionOpen[d]

AwaitsBoundary == pc = "sleep" /\ purpose = "boundary"

BeforeCycle == {"top", "sleep", "ensure"}

AdvanceInv ==
    /\ BoundariesAdvance
    /\ boots = 0 => samples = <<>> /\ pc = "off"
    /\ pc = "off" => SampledUpTo(since) /\ since <= now
    /\ pc # "off" => SampledUpTo(now)
    /\ pc \in {"top", "sleep"} => mode = "service"
    /\ pc \in BeforeCycle /\ lastBoundary = None => SampledBefore(now - Grace)
    /\ pc \in BeforeCycle /\ lastBoundary # None =>
         SampledUpTo(lastBoundary) /\ lastBoundary <= now /\ OnCalendar(lastBoundary)
    /\ AwaitsBoundary => target = boundary
    /\ AwaitsBoundary \/ pc = "ensure" => SampledBefore(boundary)
    /\ pc = "cycle" => SampledUpTo(boundary)
    /\ pc \in {"ensure", "cycle"} => boundary <= now
    /\ mode = "service" /\ (AwaitsBoundary \/ pc \in {"ensure", "cycle"}) => OnCalendar(boundary)

LEMMA SampleTypes == InTime => \A i \in DOMAIN samples : samples[i] \in Nat
BY DEF InTime, TypeOK

\* At the opening: everything sampled so far lies before it.
LEMMA OpeningIsNew ==
    ASSUME OpeningsApart, InTime, AdvanceInv, Looping, ~Outside, AtOpening
    PROVE  SampledBefore(Window.start) /\ OnCalendar(Window.start)
<1> DEFINE d == Today(now)
           start == SessionOpen[d]
<1>1. d \in Days /\ now \in Time
  BY NowTypes DEF InTime, TypeOK
<1>2. /\ Window.start = start /\ start \in Time /\ d \in TradingDays
      /\ DateOf[start] = d
  BY <1>1, WindowTypes DEF Outside, Window
<1>3. /\ now \in Nat /\ start \in Nat /\ Grace \in Nat
      /\ now <= start + Grace /\ lastBoundary # start
  BY <1>1, <1>2, ClockBounds, ConstantTypes DEF AtOpening, Time
<1>4. DateOf[now] = d /\ Days \subseteq Nat
  BY ClockBounds DEF Today, Days
<1> HIDE DEF d, start
<1>5. CASE lastBoundary = None
  <2>1. SampledBefore(now - Grace)
    BY <1>5 DEF AdvanceInv, Looping, BeforeCycle
  <2> QED BY <1>2, <1>3, <2>1, SampleTypes DEF SampledBefore, OnCalendar, start
<1>6. CASE lastBoundary # None
  <2>1. SampledUpTo(lastBoundary) /\ lastBoundary <= now /\ OnCalendar(lastBoundary)
    BY <1>6 DEF AdvanceInv, Looping, BeforeCycle
  <2>2. lastBoundary \in Nat
    BY <1>6 DEF InTime, TypeOK
  <2>3. lastBoundary <= start
    <3>1. CASE OnGrid(lastBoundary)
      <4>1. start < lastBoundary => NextBoundary(start) <= lastBoundary
        BY <1>3, <3>1, NextBoundaryIsNext
      <4>2. start + Grace < NextBoundary(start) /\ NextBoundary(start) \in Nat
        BY <1>2, <1>3, NextBoundaryIsNext DEF OpeningsApart, start
      <4> QED BY <1>3, <2>1, <2>2, <4>1, <4>2
    <3>2. ASSUME NEW c \in TradingDays, lastBoundary = SessionOpen[c] PROVE lastBoundary <= start
      <4>1. c \in Days /\ SessionOpen[c] \in Time /\ DateOf[SessionOpen[c]] = c
        BY CalendarTypes, SessionsWithinTheirDay
      <4>2. c <= d
        BY <1>1, <1>4, <2>1, <3>2, <4>1, DatesAdvance
      <4>3. CASE c < d
        BY <1>2, <1>3, <2>2, <3>2, <4>3, OpeningsAdvance DEF start
      <4>4. CASE c = d
        BY <3>2, <4>4, <1>3 DEF start
      <4> QED BY <1>1, <1>4, <4>1, <4>2, <4>3, <4>4
    <3> QED BY <2>1, <3>1, <3>2 DEF OnCalendar
  <2>4. lastBoundary < start
    BY <1>3, <2>2, <2>3
  <2> QED BY <1>2, <1>3, <2>1, <2>2, <2>4, SampleTypes
          DEF SampledBefore, SampledUpTo, OnCalendar, start
<1> QED BY <1>5, <1>6

\* The boundary that the loop chooses is later than all samples, and on the calendar.
LEMMA ChoiceIsNew ==
    ASSUME OpeningsApart, InTime, AdvanceInv, Looping, ~Outside
    PROVE  SampledBefore(ChosenBoundary) /\ OnCalendar(ChosenBoundary)
<1>1. CASE AtOpening
  BY <1>1, OpeningIsNew DEF ChosenBoundary
<1>2. CASE ~AtOpening
  <2>1. ChosenBoundary = NextBoundary(now) /\ now \in Nat
    BY <1>2, NowTypes DEF ChosenBoundary
  <2>2. now < NextBoundary(now) /\ OnGrid(NextBoundary(now)) /\ NextBoundary(now) \in Nat
    BY <2>1, NextBoundaryIsNext
  <2>3. SampledUpTo(now)
    BY DEF AdvanceInv, Looping
  <2> QED BY <2>1, <2>2, <2>3, SampleTypes DEF SampledUpTo, SampledBefore, OnCalendar
<1> QED BY <1>1, <1>2

LEMMA AdvanceInit == Init => AdvanceInv
BY ClockBounds DEF Init, AdvanceInv, BoundariesAdvance, SampledUpTo, SampledBefore, AwaitsBoundary,
   BeforeCycle

LEMMA AdvanceTick ==
    ASSUME InTime, AdvanceInv, Tick \/ CalendarEnds
    PROVE  AdvanceInv'
<1>1. CASE CalendarEnds
  BY <1>1 DEF CalendarEnds, vars, processVars, envVars, historyVars, AdvanceInv, BoundariesAdvance,
     SampledUpTo, SampledBefore, AwaitsBoundary, BeforeCycle
<1>2. CASE Tick
  <2>1. /\ UNCHANGED <<pc, mode, purpose, target, boundary, lastBoundary, boots, since, samples>>
        /\ now' = now + 1
    BY <1>2 DEF Tick, processVars, historyVars
  <2>2. now \in Nat /\ Grace \in Nat /\ since \in Nat /\ boundary \in Nat
        /\ (lastBoundary # None => lastBoundary \in Nat)
    BY NowTypes, ConstantTypes DEF InTime, TypeOK
  <2>3. SampledUpTo(now) => SampledUpTo(now + 1)
    BY <2>2, SampleTypes DEF SampledUpTo
  <2>4. SampledBefore(now - Grace) => SampledBefore(now + 1 - Grace)
    BY <2>2, SampleTypes DEF SampledBefore
  <2> QED BY <2>1, <2>2, <2>3, <2>4
          DEF AdvanceInv, BoundariesAdvance, SampledUpTo, SampledBefore, AwaitsBoundary, BeforeCycle
<1> QED BY <1>1, <1>2

\* A new process: the delay of the restart has put the samples behind the grace.
LEMMA AdvanceBoot ==
    ASSUME RestartsApart, InTime, AdvanceInv, BootService \/ BootOnce
    PROVE  AdvanceInv'
<1>1. /\ pc = "off" /\ UNCHANGED <<now, samples, purpose, target>>
      /\ lastBoundary' = None /\ boots' = boots + 1
      /\ boots > 0 => now >= since + RestartDelay
  BY DEF BootService, BootOnce, MayBoot, Fresh, historyVars
<1>2. now \in Nat /\ since \in Nat /\ boots \in Nat /\ Grace \in Nat /\ RestartDelay \in Nat
  BY NowTypes, ConstantTypes DEF InTime, TypeOK
<1>3. SampledBefore(now - Grace) /\ SampledUpTo(now)
  <2>1. CASE boots = 0
    BY <1>1, <2>1 DEF AdvanceInv, SampledBefore, SampledUpTo
  <2>2. CASE boots # 0
    BY <1>1, <1>2, <2>2, SampleTypes DEF AdvanceInv, SampledBefore, SampledUpTo, RestartsApart
  <2> QED BY <2>1, <2>2
<1>4. CASE BootService
  <2>1. pc' = "top" /\ mode' = "service"
    BY <1>4 DEF BootService
  <2> QED BY <1>1, <1>2, <1>3, <2>1
          DEF AdvanceInv, BoundariesAdvance, SampledUpTo, SampledBefore, AwaitsBoundary, BeforeCycle
<1>5. CASE BootOnce
  <2>1. pc' = "ensure" /\ mode' = "once" /\ boundary' = now
    BY <1>5 DEF BootOnce
  <2>2. SampledBefore(now)
    BY <1>2, <1>3, SampleTypes DEF SampledBefore
  <2> QED BY <1>1, <1>2, <1>3, <2>1, <2>2
          DEF AdvanceInv, BoundariesAdvance, SampledUpTo, SampledBefore, AwaitsBoundary, BeforeCycle
<1> QED BY <1>4, <1>5

\* The process stops, is killed, or is told to stop.
LEMMA AdvanceEnd ==
    ASSUME InTime, AdvanceInv, RequestStop \/ Kill \/ Exit \/ ExitWriteFails
    PROVE  AdvanceInv'
<1>1. CASE RequestStop
  BY <1>1 DEF RequestStop, sleepVars, historyVars, AdvanceInv, BoundariesAdvance, SampledUpTo,
     SampledBefore, AwaitsBoundary, BeforeCycle
<1>2. CASE Kill \/ Exit \/ ExitWriteFails
  <2>1. pc # "off" /\ pc' = "off" /\ since' = now /\ UNCHANGED <<now, samples, boots>>
    BY <1>2 DEF Kill, Exit, ExitWriteFails, Ended, historyVars
  <2>2. SampledUpTo(now) /\ now \in Nat
    BY <2>1, NowTypes DEF AdvanceInv
  <2>3. boots = 0 => samples = <<>>
    BY DEF AdvanceInv
  <2> QED BY <2>1, <2>2, <2>3
          DEF AdvanceInv, BoundariesAdvance, SampledUpTo, SampledBefore, AwaitsBoundary, BeforeCycle
<1> QED BY <1>1, <1>2

LEMMA AdvanceSleep ==
    ASSUME InTime, AdvanceInv, Sleeping
    PROVE  AdvanceInv'
<1> USE DEF AdvanceInv, BoundariesAdvance, SampledUpTo, SampledBefore, AwaitsBoundary, BeforeCycle
<1>1. CASE SleepOn
  BY <1>1 DEF SleepOn, SliceOver, loopVars, envVars, historyVars
<1>2. ASSUME NEW p \in {"top", "finally"}, ResumeAt(p) PROVE AdvanceInv'
  BY <1>2 DEF ResumeAt, SleepDone, SliceOver, loopVars, lifeVars, historyVars
<1>3. CASE WakeInTime
  <2>1. /\ pc = "sleep" /\ purpose = "boundary" /\ pc' = "ensure" /\ target <= now
        /\ UNCHANGED <<now, mode, lastBoundary, boundary, samples, boots, since, purpose>>
    BY <1>3, NowTypes DEF WakeInTime, ResumeAt, SleepDone, SliceOver, loopVars, lifeVars,
       historyVars, InTime, TypeOK
  <2> QED BY <2>1
<1> QED BY <1>1, <1>2, <1>3
        DEF Sleeping, WakeAtSession, WakeAfterClose, WakeStopped, WakeStale

LEMMA AdvanceLoop ==
    ASSUME OpeningsApart, InTime, AdvanceInv,
           LoopStopped \/ LoopOutside \/ LoopOutsideFails \/ LoopInside
    PROVE  AdvanceInv'
<1> USE DEF BoundariesAdvance, SampledUpTo, SampledBefore, AwaitsBoundary, BeforeCycle
<1>1. CASE LoopStopped \/ LoopOutsideFails
  BY <1>1 DEF LoopStopped, LoopOutsideFails, Looping, loopVars, sleepVars, envVars, historyVars,
     AdvanceInv
<1>2. CASE LoopOutside
  <2>1. pc = "top" /\ UNCHANGED <<now, mode, lastBoundary, boundary, samples, boots, since>>
    BY <1>2 DEF LoopOutside, Looping, envVars, historyVars
  <2>2. pc' = "finally" \/ (pc' = "sleep" /\ purpose' = "session")
    BY <1>2 DEF LoopOutside, AwaitSession, StartSleep
  <2> QED BY <2>1, <2>2 DEF AdvanceInv
<1>3. CASE LoopInside
  <2>1. /\ pc = "top" /\ pc' = "sleep" /\ boundary' = ChosenBoundary
        /\ UNCHANGED <<now, mode, lastBoundary, samples, boots, since>>
        /\ purpose' = "close" \/ (purpose' = "boundary" /\ target' = ChosenBoundary)
    BY <1>3 DEF LoopInside, Looping, StartSleep, envVars, historyVars
  <2> DEFINE chosen == ChosenBoundary
  <2>2. SampledBefore(chosen) /\ OnCalendar(chosen)
    BY <1>3, ChoiceIsNew DEF LoopInside
  <2>3. boundary' = chosen /\ (purpose' = "boundary" => target' = chosen)
    BY <2>1
  <2> HIDE DEF chosen
  <2> QED BY <2>1, <2>2, <2>3 DEF AdvanceInv
<1> QED BY <1>1, <1>2, <1>3

\* The sample is taken: it is later than all before it.
LEMMA AdvanceSample ==
    ASSUME InTime, AdvanceInv, EnsureReuses \/ EnsureCreates
    PROVE  AdvanceInv'
<1>1. /\ pc = "ensure" /\ pc' = "cycle" /\ samples' = Append(samples, boundary)
      /\ UNCHANGED <<now, mode, lastBoundary, boundary, purpose, target, boots, since>>
  BY DEF EnsureReuses, EnsureCreates, StartCycle, loopVars, sleepVars, envVars
<1>2. samples \in Seq(Nat) /\ boundary \in Nat /\ now \in Nat
  BY NowTypes DEF InTime, TypeOK
<1>3. SampledBefore(boundary) /\ boundary <= now /\ SampledUpTo(now) /\ boots # 0
  BY <1>1 DEF AdvanceInv
<1>4. BoundariesAdvance'
  BY <1>1, <1>2, <1>3 DEF AdvanceInv, BoundariesAdvance, SampledBefore
<1>5. \A i \in DOMAIN samples' : samples'[i] <= boundary /\ samples'[i] <= now
  BY <1>1, <1>2, <1>3 DEF SampledBefore, SampledUpTo
<1> QED BY <1>1, <1>2, <1>3, <1>4, <1>5
        DEF AdvanceInv, SampledUpTo, SampledBefore, AwaitsBoundary, BeforeCycle

LEMMA AdvanceCycle ==
    ASSUME InTime, AdvanceInv, Cycling
    PROVE  AdvanceInv'
<1> USE DEF AdvanceInv, BoundariesAdvance, SampledUpTo, SampledBefore, AwaitsBoundary, BeforeCycle
<1>1. CASE EnsureFails
  BY <1>1 DEF EnsureFails, loopVars, sleepVars, envVars, historyVars
<1>2. ASSUME NEW ok, CycleWriteFails(ok) PROVE AdvanceInv'
  <2>1. pc = "cycle" /\ pc' = "finally" /\ UNCHANGED <<now, mode, boots, since, samples>>
    BY <1>2 DEF CycleWriteFails, CycleRecorded, loopVars, envVars
  <2> QED BY <2>1
<1>3. ASSUME NEW ok, CycleEnds(ok) PROVE AdvanceInv'
  <2>1. /\ pc = "cycle" /\ UNCHANGED <<now, mode, boots, since, samples, boundary>>
        /\ \/ mode = "service" /\ pc' = "top" /\ lastBoundary' = boundary
           \/ pc' = "finally"
    BY <1>3 DEF CycleEnds, CycleRecorded, envVars
  <2>2. boundary # None
    BY ClockBounds DEF InTime, TypeOK
  <2> QED BY <2>1, <2>2
<1> QED BY <1>1, <1>2, <1>3, AdvanceSample DEF Cycling

LEMMA AdvanceStep ==
    ASSUME OpeningsApart, RestartsApart
    PROVE  InTime /\ AdvanceInv /\ [Next]_vars => AdvanceInv'
<1>1. InTime /\ AdvanceInv /\ UNCHANGED vars => AdvanceInv'
  BY DEF vars, processVars, envVars, historyVars, AdvanceInv, BoundariesAdvance, SampledUpTo,
     SampledBefore, AwaitsBoundary, BeforeCycle
<1> QED BY <1>1, AdvanceTick, AdvanceBoot, AdvanceEnd, AdvanceSleep, AdvanceLoop, AdvanceCycle
        DEF Next, Step

\* No boundary is sampled twice, whenever the process dies or is restarted, provided
\* that the grace is shorter than the way from an opening to the next boundary and
\* than the delay of a restart.
THEOREM BoundariesAlwaysAdvance ==
    ASSUME OpeningsApart, RestartsApart
    PROVE  Spec => []BoundariesAdvance
<1>1. InTime /\ AdvanceInv /\ [Next]_vars => AdvanceInv'
  BY AdvanceStep
<1>2. AdvanceInv => BoundariesAdvance
  BY DEF AdvanceInv
<1> QED BY <1>1, <1>2, TimeHolds, AdvanceInit, PTL DEF Spec

----------------------------------------------------------------------------
(***************************************************************************)
(* The health file never drops what it counted, and a death costs at most  *)
(* the cycles since the last periodic write.  The live tracker is ahead of *)
(* its file by at most `unwritten` cycles.                                 *)
(***************************************************************************)
Lost == LossPerDeath * deaths

HealthInv ==
    /\ pc = "off" => healthDate = None
    /\ pc = "cycle" => healthDate = tradingDate
    /\ healthDate # None =>
         /\ file[healthDate].cycles <= mem.cycles
         /\ mem.cycles <= file[healthDate].cycles + unwritten
         /\ file[healthDate].stamps \subseteq mem.stamps
         /\ recorded[healthDate] <= mem.cycles + Lost
         /\ unwritten <= LossPerDeath
         /\ pc # "finally" => unwritten < HealthWriteEvery
    /\ \A d \in Days : healthDate # d => recorded[d] <= file[d].cycles + Lost

NothingDropped ==
    \A d \in Days : file[d].cycles <= file'[d].cycles /\ file[d].stamps \subseteq file'[d].stamps

LEMMA LossTypes ==
    ASSUME InTime
    PROVE  /\ LossPerDeath \in Nat /\ Lost \in Nat
           /\ HealthWriteEvery <= LossPerDeath + 1
           /\ MayFailWrite => HealthWriteEvery = LossPerDeath
           /\ LossPerDeath * (deaths + 1) = Lost + LossPerDeath
<1>1. HealthWriteEvery \in Nat /\ HealthWriteEvery > 0 /\ deaths \in Nat
  BY ConstantTypes DEF InTime, TypeOK
<1>2. /\ LossPerDeath \in Nat /\ HealthWriteEvery <= LossPerDeath + 1
      /\ MayFailWrite => HealthWriteEvery = LossPerDeath
  BY <1>1 DEF LossPerDeath
<1>3. \A l, n \in Nat : l * n \in Nat /\ l * (n + 1) = l * n + l
  OBVIOUS
<1> QED BY <1>1, <1>2, <1>3 DEF Lost

LEMMA HealthTypes ==
    ASSUME InTime
    PROVE  /\ mem.cycles \in Nat /\ unwritten \in Nat
           /\ \A d \in Days : file[d].cycles \in Nat /\ recorded[d] \in Nat /\ d # None
           /\ healthDate # None => healthDate \in Days
           /\ tradingDate \in Days
BY NowTypes DEF InTime, TypeOK, Counters, Files

LEMMA HealthInit == Init => HealthInv
<1> SUFFICES ASSUME Init PROVE HealthInv
  OBVIOUS
<1>1. InTime
  BY InitType
<1>2. \A d \in Days : recorded[d] = 0 /\ file[d].cycles = 0
  BY DEF Init, NoFile
<1>3. Lost \in Nat
  BY <1>1, LossTypes
<1> QED BY <1>2, <1>3 DEF Init, HealthInv

\* The files once the live tracker is closed, where its final write succeeds.
LEMMA ClosedFiles ==
    ASSUME InTime, HealthInv,
           NEW closed, closed = IF healthDate = None THEN file ELSE Finalised,
           NEW d \in Days
    PROVE  /\ d # healthDate => closed[d] = file[d]
           /\ d = healthDate => closed[d].cycles = mem.cycles /\ closed[d].stamps = mem.stamps
           /\ file[d].cycles <= closed[d].cycles
           /\ file[d].stamps \subseteq closed[d].stamps
           /\ recorded[d] <= closed[d].cycles + Lost
<1>1. CASE d # healthDate
  <2>1. closed[d] = file[d]
    BY <1>1 DEF Finalised, InTime, TypeOK
  <2> QED BY <1>1, <2>1, HealthTypes, LossTypes DEF HealthInv
<1>2. CASE d = healthDate
  <2>1. healthDate # None
    BY <1>2, HealthTypes
  <2>2. closed[d] = FileOf(mem, TRUE)
    BY <1>2, <2>1 DEF Finalised, InTime, TypeOK
  <2>3. closed[d].cycles = mem.cycles /\ closed[d].stamps = mem.stamps
    BY <2>2 DEF FileOf
  <2> QED BY <1>2, <2>1, <2>3 DEF HealthInv
<1> QED BY <1>1, <1>2

\* Steps that touch neither the counters nor the files.
LEMMA HealthKept ==
    ASSUME InTime, HealthInv,
           UNCHANGED <<healthDate, mem, unwritten, file, deaths, recorded>>,
           pc # "off", pc # "finally",
           pc' # "off", pc' = "cycle" => healthDate = tradingDate'
    PROVE  HealthInv' /\ NothingDropped
BY HealthTypes DEF HealthInv, NothingDropped, Lost, LossPerDeath

LEMMA HealthSleep ==
    ASSUME InTime, HealthInv, Sleeping
    PROVE  HealthInv' /\ NothingDropped
<1>1. /\ UNCHANGED <<healthDate, mem, unwritten, file, deaths, recorded, tradingDate>>
      /\ pc = "sleep" /\ pc' \in {"sleep", "top", "ensure", "finally"}
  BY DEF Sleeping, SleepOn, WakeAtSession, WakeAfterClose, WakeStopped, WakeStale, WakeInTime,
     ResumeAt, SleepDone, SliceOver, loopVars, healthVars, envVars, lifeVars, historyVars
<1> QED BY <1>1, HealthKept

LEMMA HealthEnvironment ==
    ASSUME InTime, HealthInv, Tick \/ CalendarEnds \/ BootService \/ BootOnce \/ RequestStop
    PROVE  HealthInv' /\ NothingDropped
<1>1. CASE Tick \/ CalendarEnds \/ RequestStop
  <2>1. UNCHANGED <<healthDate, mem, unwritten, file, deaths, recorded, tradingDate, pc>>
    BY <1>1 DEF Tick, CalendarEnds, RequestStop, vars, processVars, envVars, healthVars, historyVars
  <2> QED BY <2>1, HealthTypes DEF HealthInv, NothingDropped, Lost, LossPerDeath
<1>2. CASE BootService \/ BootOnce
  <2>1. /\ UNCHANGED <<file, deaths, recorded>> /\ healthDate = None /\ healthDate' = None
        /\ pc' \in {"top", "ensure"}
    BY <1>2 DEF BootService, BootOnce, MayBoot, Fresh, historyVars, HealthInv
  <2> QED BY <2>1, HealthTypes DEF HealthInv, NothingDropped, Lost, LossPerDeath
<1> QED BY <1>1, <1>2

\* A kill, or an exit whose final write fails: one death pays for what was unwritten.
LEMMA HealthDeath ==
    ASSUME InTime, HealthInv, Kill \/ ExitWriteFails
    PROVE  HealthInv' /\ NothingDropped
<1>1. /\ pc' = "off" /\ healthDate' = None /\ UNCHANGED <<file, recorded>>
      /\ deaths' = deaths + 1
  BY DEF Kill, ExitWriteFails, Ended, historyVars
<1>2. Lost' = Lost + LossPerDeath
  BY <1>1, LossTypes DEF Lost, LossPerDeath
<1>3. ASSUME NEW d \in Days PROVE recorded[d] <= file[d].cycles + Lost + LossPerDeath
  <2>1. CASE healthDate = d
    <3>1. healthDate # None
      BY <2>1, HealthTypes
    <3>2. /\ recorded[d] <= mem.cycles + Lost /\ mem.cycles <= file[d].cycles + unwritten
          /\ unwritten <= LossPerDeath
      BY <2>1, <3>1 DEF HealthInv
    <3> QED BY <3>2, HealthTypes, LossTypes
  <2>2. CASE healthDate # d
    BY <2>2, HealthTypes, LossTypes DEF HealthInv
  <2> QED BY <2>1, <2>2
<1>4. \A d \in Days : recorded[d] <= file[d].cycles + Lost'
  BY <1>2, <1>3, HealthTypes, LossTypes
<1> QED BY <1>1, <1>4, HealthTypes DEF HealthInv, NothingDropped

\* The tracker is closed and none is live.
LEMMA HealthClosed ==
    ASSUME InTime, HealthInv, Exit \/ LoopOutside
    PROVE  HealthInv' /\ NothingDropped
<1>1. /\ pc' # "cycle" /\ healthDate' = None /\ UNCHANGED <<deaths, recorded>>
      /\ file' = IF healthDate = None THEN file ELSE Finalised
  BY DEF Exit, Ended, LoopOutside, AwaitSession, StartSleep, envVars, historyVars
<1>2. \A d \in Days :
          /\ file[d].cycles <= file'[d].cycles
          /\ file[d].stamps \subseteq file'[d].stamps
          /\ recorded[d] <= file'[d].cycles + Lost
  BY <1>1, ClosedFiles
<1> QED BY <1>1, <1>2, HealthTypes DEF HealthInv, NothingDropped, Lost, LossPerDeath

LEMMA HealthLoop ==
    ASSUME InTime, HealthInv, LoopStopped \/ LoopOutsideFails \/ LoopInside
    PROVE  HealthInv' /\ NothingDropped
<1>1. /\ UNCHANGED <<healthDate, mem, unwritten, file, deaths, recorded>>
      /\ pc = "top" /\ pc' \in {"sleep", "finally"}
  BY DEF LoopStopped, LoopOutsideFails, LoopInside, Looping, StartSleep, loopVars, healthVars,
     envVars, historyVars
<1> QED BY <1>1, HealthKept

\* The tracker of the day is there, or is created from its file.
LEMMA HealthEnsure ==
    ASSUME InTime, HealthInv, EnsureReuses \/ EnsureCreates \/ EnsureFails
    PROVE  HealthInv' /\ NothingDropped
<1>1. CASE EnsureReuses
  <2>1. /\ UNCHANGED <<healthDate, mem, unwritten, file, deaths, recorded, tradingDate>>
        /\ pc = "ensure" /\ pc' = "cycle" /\ healthDate = tradingDate
    BY <1>1 DEF EnsureReuses, StartCycle, loopVars, healthVars, envVars
  <2> QED BY <2>1, HealthKept
<1>2. CASE EnsureCreates
  <2> DEFINE entry == FileOf(mem', FALSE)
  <2>1. /\ healthDate # tradingDate /\ pc' = "cycle" /\ healthDate' = tradingDate
        /\ tradingDate' = tradingDate /\ unwritten' = 0 /\ UNCHANGED <<deaths, recorded>>
        /\ mem' = Restored(tradingDate)
        /\ file' = [OldDayClosed EXCEPT ![tradingDate] = entry]
    BY <1>2 DEF EnsureCreates, StartCycle, loopVars, envVars
  <2>2. /\ mem'.cycles = file[tradingDate].cycles /\ mem'.stamps = file[tradingDate].stamps
        /\ entry.cycles = mem'.cycles /\ entry.stamps = mem'.stamps
    BY <2>1 DEF Restored, FileOf
  <2>3. DOMAIN OldDayClosed = Days
    BY FinalisedType DEF OldDayClosed, InTime, TypeOK
  <2>4. file'[tradingDate] = entry /\ \A d \in Days \ {tradingDate} : file'[d] = OldDayClosed[d]
    <3> HIDE DEF entry
    <3> QED BY <2>1, <2>3, HealthTypes
  <2>5. ASSUME NEW d \in Days
        PROVE  /\ file[d].cycles <= file'[d].cycles
               /\ file[d].stamps \subseteq file'[d].stamps
               /\ recorded[d] <= file'[d].cycles + Lost
    <3>1. CASE d = tradingDate
      <4>1. file'[d].cycles = file[d].cycles /\ file'[d].stamps = file[d].stamps
        BY <2>2, <2>4, <3>1
      <4>2. recorded[d] <= file[d].cycles + Lost
        BY <2>1, <3>1 DEF HealthInv
      <4> QED BY <4>1, <4>2, HealthTypes
    <3>2. CASE d # tradingDate
      BY <2>4, <3>2, ClosedFiles DEF OldDayClosed
    <3> QED BY <3>1, <3>2
  <2>6. /\ file'[tradingDate].cycles = mem'.cycles /\ file'[tradingDate].stamps = mem'.stamps
        /\ mem'.cycles \in Nat
    BY <2>2, <2>4, HealthTypes
  <2> HIDE DEF entry
  <2>7. /\ recorded[tradingDate] <= mem'.cycles + Lost
        /\ 0 <= LossPerDeath /\ 0 < HealthWriteEvery
    BY <2>5, <2>6, HealthTypes, LossTypes, ConstantTypes
  <2> QED BY <2>1, <2>5, <2>6, <2>7 DEF HealthInv, NothingDropped, Lost, LossPerDeath
<1>3. CASE EnsureFails
  <2>1. /\ pc = "ensure" /\ pc' = "finally" /\ file' \in {file, OldDayClosed}
        /\ UNCHANGED <<healthDate, mem, unwritten, deaths, recorded, tradingDate>>
    BY <1>3 DEF EnsureFails, loopVars, healthVars, envVars, historyVars
  <2>2. CASE file' = file
    BY <2>1, <2>2, HealthKept
  <2>3. CASE file' = OldDayClosed
    <3>1. \A d \in Days :
              /\ d = healthDate => file'[d].cycles = mem.cycles /\ file'[d].stamps = mem.stamps
              /\ file[d].cycles <= file'[d].cycles
              /\ file[d].stamps \subseteq file'[d].stamps
              /\ recorded[d] <= file'[d].cycles + Lost
      BY <2>3, ClosedFiles DEF OldDayClosed
    <3> QED BY <2>1, <3>1, HealthTypes DEF HealthInv, NothingDropped, Lost, LossPerDeath
  <2> QED BY <2>1, <2>2, <2>3
<1> QED BY <1>1, <1>2, <1>3

\* The accounting of a cycle, its periodic write included.
LEMMA HealthCycle ==
    ASSUME InTime, HealthInv, NEW ok \in BOOLEAN, CycleEnds(ok) \/ CycleWriteFails(ok)
    PROVE  HealthInv' /\ NothingDropped
<1> DEFINE d == healthDate
           entry == FileOf(mem', FALSE)
<1>1. /\ pc = "cycle" /\ pc' \in {"top", "finally"}
      /\ UNCHANGED <<healthDate, tradingDate, deaths>> /\ mem' = Recorded(ok)
      /\ recorded' = IF ok THEN [recorded EXCEPT ![tradingDate] = @ + 1] ELSE recorded
  BY DEF CycleEnds, CycleWriteFails, CycleRecorded, loopVars, envVars
<1>2. d = tradingDate /\ d \in Days /\ d # None
  BY <1>1, HealthTypes DEF HealthInv
<1>3. /\ file[d].cycles <= mem.cycles /\ mem.cycles <= file[d].cycles + unwritten
      /\ file[d].stamps \subseteq mem.stamps
      /\ recorded[d] <= mem.cycles + Lost
      /\ unwritten < HealthWriteEvery
  BY <1>1, <1>2 DEF HealthInv
<1>4. \/ mem'.cycles = mem.cycles + 1 /\ recorded'[d] = recorded[d] + 1
      \/ mem'.cycles = mem.cycles /\ recorded'[d] = recorded[d]
  BY <1>1, <1>2 DEF Recorded, InTime, TypeOK
<1>5. mem.stamps \subseteq mem'.stamps
  BY <1>1 DEF Recorded
<1>6. \A e \in Days \ {d} : recorded'[e] = recorded[e]
  BY <1>1, <1>2 DEF InTime, TypeOK
<1>7. entry.cycles = mem'.cycles /\ entry.stamps = mem'.stamps
  BY DEF FileOf
<1>8. \/ /\ file' = [file EXCEPT ![d] = entry] /\ unwritten' = 0
      \/ /\ file' = file /\ unwritten' = unwritten + 1
         /\ \/ unwritten + 1 < HealthWriteEvery
            \/ MayFailWrite /\ pc' = "finally"
  <2>1. CASE CycleEnds(ok)
    <3>1. \/ file' = [file EXCEPT ![d] = entry] /\ unwritten' = 0
          \/ ~WriteDue /\ file' = file /\ unwritten' = unwritten + 1
      BY <2>1 DEF CycleEnds
    <3>2. ~WriteDue => unwritten + 1 < HealthWriteEvery
      BY HealthTypes, ConstantTypes DEF WriteDue
    <3> HIDE DEF entry, d
    <3> QED BY <3>1, <3>2
  <2>2. CASE CycleWriteFails(ok)
    BY <2>2 DEF CycleWriteFails
  <2> QED BY <2>1, <2>2
<1>9. mem'.cycles \in Nat /\ mem'.cycles >= mem.cycles /\ recorded'[d] <= mem'.cycles + Lost
  BY <1>2, <1>3, <1>4, HealthTypes, LossTypes
<1> HIDE DEF entry
<1>10. CASE file' = [file EXCEPT ![d] = entry] /\ unwritten' = 0
  <2>1. file'[d].cycles = mem'.cycles /\ file'[d].stamps = mem'.stamps
        /\ \A e \in Days \ {d} : file'[e] = file[e]
    BY <1>2, <1>7, <1>10 DEF InTime, TypeOK
  <2>2. 0 <= LossPerDeath /\ 0 < HealthWriteEvery /\ unwritten' = 0
    BY <1>10, LossTypes, ConstantTypes
  <2>3. NothingDropped
    BY <1>2, <1>3, <1>5, <1>9, <2>1, HealthTypes DEF NothingDropped
  <2>4. HealthInv'
    BY <1>1, <1>2, <1>6, <1>9, <2>1, <2>2, HealthTypes DEF HealthInv, Lost, LossPerDeath
  <2> QED BY <2>3, <2>4
<1>11. CASE /\ file' = file /\ unwritten' = unwritten + 1
            /\ \/ unwritten + 1 < HealthWriteEvery
               \/ MayFailWrite /\ pc' = "finally"
  <2>1. /\ file'[d].cycles <= mem'.cycles /\ mem'.cycles <= file'[d].cycles + unwritten'
        /\ file'[d].stamps \subseteq mem'.stamps
    BY <1>2, <1>3, <1>4, <1>5, <1>9, <1>11, HealthTypes
  <2>2. /\ unwritten' <= LossPerDeath
        /\ pc' # "finally" => unwritten' < HealthWriteEvery
    BY <1>3, <1>11, HealthTypes, LossTypes, ConstantTypes
  <2>3. NothingDropped
    BY <1>11, HealthTypes DEF NothingDropped
  <2>4. HealthInv'
    BY <1>1, <1>2, <1>6, <1>9, <1>11, <2>1, <2>2 DEF HealthInv, Lost, LossPerDeath
  <2> QED BY <2>3, <2>4
<1> QED BY <1>8, <1>10, <1>11

LEMMA HealthStep == InTime /\ HealthInv /\ [Next]_vars => HealthInv' /\ (NothingDropped \/ UNCHANGED vars)
<1>1. InTime /\ HealthInv /\ UNCHANGED vars => HealthInv'
  BY DEF vars, processVars, envVars, historyVars, HealthInv, Lost, LossPerDeath
<1> QED BY <1>1, HealthEnvironment, HealthDeath, HealthClosed, HealthLoop, HealthSleep,
           HealthEnsure, HealthCycle DEF Next, Step, Cycling

LEMMA HealthHolds == Spec => []HealthInv
BY TimeHolds, HealthInit, HealthStep, PTL DEF Spec

\* A death costs at most the cycles since the last periodic health write.
THEOREM LossIsBounded == Spec => []LossBounded
<1>1. InTime /\ HealthInv => LossBounded
  <2> SUFFICES ASSUME InTime, HealthInv, NEW d \in Days
               PROVE  recorded[d] <= file[d].cycles + Lost
                                     + (IF healthDate = d THEN unwritten ELSE 0)
    BY DEF LossBounded, Lost
  <2>1. CASE healthDate = d
    <3>1. recorded[d] <= mem.cycles + Lost /\ mem.cycles <= file[d].cycles + unwritten
      BY <2>1, HealthTypes DEF HealthInv
    <3> QED BY <2>1, <3>1, HealthTypes, LossTypes
  <2>2. CASE healthDate # d
    BY <2>2, HealthTypes, LossTypes DEF HealthInv
  <2> QED BY <2>1, <2>2
<1> QED BY <1>1, TimeHolds, HealthHolds, PTL

\* No restart, rollover or failed write makes a health file forget a counted cycle.
THEOREM CountersAreKept == Spec => CountersNeverDrop
<1>1. InTime /\ HealthInv /\ [Next]_vars
          => [\A d \in Days : file[d].cycles <= file'[d].cycles
                               /\ file[d].stamps \subseteq file'[d].stamps]_vars
  BY HealthStep DEF NothingDropped
<1> QED BY <1>1, TimeHolds, HealthHolds, PTL DEF Spec, CountersNeverDrop

----------------------------------------------------------------------------
(***************************************************************************)
(* A stop is prompt.  What a stopping process may still do is measured by  *)
(* `spent`, which only the end of a slice resets; a slice that runs when   *)
(* the stop arrives began before it.                                       *)
(***************************************************************************)
StopInv ==
    /\ spent <= MaxWork
    /\ Asleep => sliceEnd <= now + SleepSlice /\ now <= sliceEnd + MaxLag
    /\ stop /\ pc # "off" =>
         IF Asleep THEN sliceEnd <= stopAt + SleepSlice
                   ELSE now <= stopAt + SleepSlice + MaxLag + spent

LEMMA StopTypes ==
    ASSUME InTime
    PROVE  /\ now \in Nat /\ spent \in Nat /\ sliceEnd \in Nat /\ stopAt \in Nat /\ target \in Nat
           /\ SleepSlice \in Nat /\ SleepSlice > 0
           /\ MaxLag \in Nat /\ MaxWork \in Nat /\ MaxStep \in Nat /\ MaxStep <= MaxWork
<1>1. MaxLag \in Nat /\ MaxWork \in Nat /\ MaxStep \in Nat /\ MaxStep <= MaxWork
  BY SchedulerAssumption
<1>2. SleepSlice \in Nat /\ SleepSlice > 0
  BY SchedulerAssumption
<1> QED BY <1>1, <1>2, NowTypes DEF InTime, TypeOK

LEMMA StopInit == Init => StopInv
BY SchedulerAssumption DEF Init, StopInv, Asleep

\* Steps of a process that is awake before and after, or ends.
LEMMA StopAwake ==
    ASSUME InTime, StopInv, ~Asleep, ~Asleep',
           UNCHANGED <<now, spent, stop, stopAt>>, pc # "off"
    PROVE  StopInv'
BY StopTypes DEF StopInv

LEMMA StopEnvironment ==
    ASSUME InTime, StopInv, Tick \/ CalendarEnds \/ BootService \/ BootOnce \/ RequestStop \/ Kill
    PROVE  StopInv'
<1>1. CASE CalendarEnds
  BY <1>1 DEF CalendarEnds, vars, processVars, envVars, StopInv, Asleep
<1>2. CASE Tick
  <2>1. UNCHANGED <<pc, stop, sliceEnd, stopAt>> /\ now' = now + 1
    BY <1>2 DEF Tick, processVars
  <2>2. \/ pc = "off" /\ ~Asleep /\ spent' = spent
        \/ Asleep /\ now < sliceEnd + MaxLag /\ spent' = spent
        \/ ~Asleep /\ spent < MaxWork /\ spent' = spent + 1
    BY <1>2, StopTypes DEF Tick, Busy, Asleep
  <2>3. Asleep' = Asleep
    BY <2>1 DEF Asleep
  <2> QED BY <2>1, <2>2, <2>3, StopTypes DEF StopInv
<1>3. CASE BootService \/ BootOnce
  <2>1. pc' # "sleep" /\ spent' = 0 /\ stop' = FALSE
    BY <1>3 DEF BootService, BootOnce, Fresh
  <2> QED BY <2>1, StopTypes DEF StopInv, Asleep
<1>4. CASE RequestStop
  <2>1. UNCHANGED <<now, pc, sliceEnd, spent>> /\ stopAt' = now
    BY <1>4 DEF RequestStop, sleepVars
  <2>2. Asleep' = Asleep
    BY <2>1 DEF Asleep
  <2> QED BY <2>1, <2>2, StopTypes DEF StopInv
<1>5. CASE Kill
  <2>1. pc' = "off" /\ spent' = spent
    BY <1>5 DEF Kill
  <2> QED BY <2>1 DEF StopInv, Asleep
<1> QED BY <1>1, <1>2, <1>3, <1>4, <1>5

LEMMA StopSleep ==
    ASSUME InTime, StopInv, Sleeping
    PROVE  StopInv'
<1>1. CASE SleepOn
  <2> DEFINE length == Min({SleepSlice, target - now})
  <2>1. /\ UNCHANGED <<now, pc, stop, spent, stopAt>> /\ pc = "sleep" /\ ~stop
        /\ sliceEnd' = now + length /\ now < target
    BY <1>1 DEF SleepOn, SliceOver, loopVars, envVars
  <2>2. {SleepSlice, target - now} \in SUBSET Nat
    BY <2>1, StopTypes
  <2>3. length \in Nat /\ length <= SleepSlice
    BY <2>2, MinIsLeast
  <2> HIDE DEF length
  <2> QED BY <2>1, <2>3, StopTypes DEF StopInv, Asleep
<1>2. ASSUME NEW p \in {"top", "ensure", "finally"}, ResumeAt(p) PROVE StopInv'
  <2>1. /\ pc = "sleep" /\ pc' = p /\ UNCHANGED <<now, stop, stopAt>>
        /\ spent' = IF Asleep THEN 0 ELSE spent
    BY <1>2 DEF ResumeAt, SleepDone, SliceOver, loopVars, lifeVars
  <2>2. ~Asleep' /\ pc # "off"
    BY <2>1 DEF Asleep
  <2> QED BY <2>1, <2>2, StopTypes DEF StopInv
<1> QED BY <1>1, <1>2
        DEF Sleeping, WakeAtSession, WakeAfterClose, WakeStopped, WakeStale, WakeInTime

LEMMA StopStep ==
    ASSUME InTime, StopInv, Step
    PROVE  StopInv'
<1>1. CASE Sleeping
  BY <1>1, StopSleep
<1>2. CASE LoopStopped \/ LoopOutside \/ LoopOutsideFails \/ LoopInside
  <2>1. /\ pc = "top" /\ UNCHANGED <<now, spent, stop, stopAt>>
        /\ pc' = "finally" \/ (pc' = "sleep" /\ sliceEnd' = 0)
    BY <1>2 DEF LoopStopped, LoopOutside, LoopOutsideFails, LoopInside, Looping, AwaitSession,
       StartSleep, loopVars, envVars
  <2>2. ~Asleep /\ ~Asleep'
    BY <2>1 DEF Asleep
  <2> QED BY <2>1, <2>2, StopAwake
<1>3. CASE Cycling \/ Exit \/ ExitWriteFails
  <2>1. /\ pc \in {"ensure", "cycle", "finally"} /\ UNCHANGED <<now, spent, stop, stopAt>>
        /\ pc' \in {"cycle", "finally", "top", "off"}
    BY <1>3 DEF Cycling, EnsureReuses, EnsureCreates, EnsureFails, CycleEnds, CycleWriteFails,
       CycleRecorded, StartCycle, Exit, ExitWriteFails, Ended, loopVars, envVars
  <2>2. ~Asleep /\ ~Asleep'
    BY <2>1 DEF Asleep
  <2> QED BY <2>1, <2>2, StopAwake
<1> QED BY <1>1, <1>2, <1>3 DEF Step

LEMMA StopHolds == Spec => []StopInv
<1>1. InTime /\ StopInv /\ [Next]_vars => StopInv'
  <2>1. InTime /\ StopInv /\ UNCHANGED vars => StopInv'
    BY DEF vars, processVars, envVars, StopInv, Asleep
  <2> QED BY <2>1, StopEnvironment, StopStep DEF Next
<1> QED BY <1>1, TimeHolds, StopInit, PTL DEF Spec

\* A stop ends the process within a slice, an oversleep and the work in flight, for
\* every slice, calendar and cycle time, wherever the signal finds the process.
THEOREM StopsArePrompt == Spec => []StopIsPrompt
<1>1. InTime /\ StopInv => StopIsPrompt
  BY StopTypes DEF StopInv, StopIsPrompt
<1> QED BY <1>1, TimeHolds, StopHolds, PTL

----------------------------------------------------------------------------
(***************************************************************************)
(* A cycle starts at its boundary or within the grace after it, and the    *)
(* work since the wake-up.                                                 *)
(***************************************************************************)
PunctualInv ==
    /\ AwaitsBoundary => target = boundary
    /\ pc = "ensure" => now <= boundary + Grace + spent
    /\ pc \in {"ensure", "cycle"} => boundary <= now
    /\ pc \in BeforeCycle /\ lastBoundary # None => lastBoundary <= now

LEMMA PunctualTypes ==
    ASSUME InTime
    PROVE  /\ now \in Nat /\ boundary \in Nat /\ spent \in Nat /\ target \in Nat /\ Grace \in Nat
           /\ lastBoundary # None => lastBoundary \in Nat
BY NowTypes, ConstantTypes DEF InTime, TypeOK

LEMMA PunctualInit == Init => PunctualInv
BY DEF Init, PunctualInv, AwaitsBoundary, BeforeCycle

LEMMA PunctualEnvironment ==
    ASSUME InTime, PunctualInv,
           Tick \/ CalendarEnds \/ BootService \/ BootOnce \/ RequestStop \/ Kill
    PROVE  PunctualInv'
<1> USE DEF PunctualInv, AwaitsBoundary, BeforeCycle
<1>1. CASE CalendarEnds
  BY <1>1 DEF CalendarEnds, vars, processVars, envVars
<1>2. CASE Tick
  <2>1. UNCHANGED <<pc, purpose, target, boundary, lastBoundary>> /\ now' = now + 1
    BY <1>2 DEF Tick, processVars
  <2>2. pc = "ensure" => spent' = spent + 1
    BY <1>2 DEF Tick, Asleep
  <2> QED BY <2>1, <2>2, PunctualTypes
<1>3. CASE BootService \/ BootOnce
  <2>1. /\ now' = now /\ lastBoundary' = None /\ spent' = 0
        /\ pc' = "top" \/ (pc' = "ensure" /\ boundary' = now)
    BY <1>3 DEF BootService, BootOnce, Fresh
  <2> QED BY <2>1, PunctualTypes
<1>4. CASE RequestStop
  BY <1>4 DEF RequestStop, sleepVars
<1>5. CASE Kill
  BY <1>5 DEF Kill
<1> QED BY <1>1, <1>2, <1>3, <1>4, <1>5

LEMMA PunctualSleep ==
    ASSUME InTime, PunctualInv, Sleeping
    PROVE  PunctualInv'
<1> USE DEF PunctualInv, AwaitsBoundary, BeforeCycle
<1>1. CASE SleepOn
  BY <1>1 DEF SleepOn, SliceOver, loopVars, envVars
<1>2. ASSUME NEW p \in {"top", "finally"}, ResumeAt(p) PROVE PunctualInv'
  BY <1>2 DEF ResumeAt, SleepDone, SliceOver, loopVars
<1>3. CASE WakeInTime
  <2>1. /\ AwaitsBoundary /\ pc' = "ensure" /\ now >= target /\ now <= boundary + Grace
        /\ UNCHANGED <<now, boundary, lastBoundary>>
        /\ spent' = 0 \/ spent' = spent
    BY <1>3 DEF WakeInTime, ResumeAt, SleepDone, SliceOver, loopVars
  <2> QED BY <2>1, PunctualTypes
<1> QED BY <1>1, <1>2, <1>3
        DEF Sleeping, WakeAtSession, WakeAfterClose, WakeStopped, WakeStale

LEMMA PunctualLoop ==
    ASSUME InTime, PunctualInv, LoopStopped \/ LoopOutside \/ LoopOutsideFails \/ LoopInside
    PROVE  PunctualInv'
<1>1. /\ pc = "top" /\ pc' \in {"sleep", "finally"} /\ UNCHANGED <<now, lastBoundary>>
      /\ AwaitsBoundary' => target' = boundary'
  BY DEF LoopStopped, LoopOutside, LoopOutsideFails, LoopInside, Looping, AwaitSession,
     StartSleep, AwaitsBoundary, loopVars, envVars
<1> QED BY <1>1 DEF PunctualInv, AwaitsBoundary, BeforeCycle

LEMMA PunctualCycle ==
    ASSUME InTime, PunctualInv, Cycling \/ Exit \/ ExitWriteFails
    PROVE  PunctualInv'
<1>1. CASE EnsureReuses \/ EnsureCreates
  <2>1. pc = "ensure" /\ pc' = "cycle" /\ UNCHANGED <<now, boundary>>
    BY <1>1 DEF EnsureReuses, EnsureCreates, StartCycle
  <2> QED BY <2>1 DEF PunctualInv, AwaitsBoundary, BeforeCycle
<1>2. CASE EnsureFails \/ (\E ok \in BOOLEAN : CycleWriteFails(ok)) \/ Exit \/ ExitWriteFails
  <2>1. pc' \in {"finally", "off"}
    BY <1>2 DEF EnsureFails, CycleWriteFails, Exit, ExitWriteFails, Ended
  <2> QED BY <2>1 DEF PunctualInv, AwaitsBoundary, BeforeCycle
<1>3. ASSUME NEW ok \in BOOLEAN, CycleEnds(ok) PROVE PunctualInv'
  <2>1. /\ pc = "cycle" /\ UNCHANGED <<now, boundary>>
        /\ pc' = "finally" \/ (pc' = "top" /\ lastBoundary' = boundary)
    BY <1>3 DEF CycleEnds, CycleRecorded
  <2> QED BY <2>1 DEF PunctualInv, AwaitsBoundary, BeforeCycle
<1> QED BY <1>1, <1>2, <1>3 DEF Cycling

LEMMA PunctualStep == InTime /\ PunctualInv /\ [Next]_vars => PunctualInv'
<1>1. InTime /\ PunctualInv /\ UNCHANGED vars => PunctualInv'
  BY DEF vars, processVars, envVars, PunctualInv, AwaitsBoundary, BeforeCycle
<1> QED BY <1>1, PunctualEnvironment, PunctualSleep, PunctualLoop, PunctualCycle DEF Next, Step

LEMMA PunctualHolds == Spec => []PunctualInv
BY PunctualInit, PunctualStep, TimeHolds, PTL DEF Spec

\* Only the two ways through _ensure_health take a sample.
LEMMA SamplesTaken ==
    ASSUME InTime, [Next]_vars
    PROVE  \/ samples' = samples
           \/ pc = "ensure" /\ EnsureReuses
           \/ pc = "ensure" /\ EnsureCreates
<1>1. CASE UNCHANGED vars \/ Tick \/ CalendarEnds \/ BootService \/ BootOnce \/ RequestStop \/ Kill
  BY <1>1 DEF vars, historyVars, Tick, CalendarEnds, BootService, BootOnce, Fresh, RequestStop, Kill
<1>2. CASE LoopStopped \/ LoopOutside \/ LoopOutsideFails \/ LoopInside \/ Sleeping
  BY <1>2 DEF LoopStopped, LoopOutside, LoopOutsideFails, LoopInside, Sleeping, SleepOn,
     WakeAtSession, WakeAfterClose, WakeStopped, WakeStale, WakeInTime, ResumeAt, historyVars
<1>3. CASE Exit \/ ExitWriteFails \/ EnsureFails
  BY <1>3 DEF Exit, ExitWriteFails, Ended, EnsureFails, historyVars
<1>4. CASE \E ok \in BOOLEAN : CycleEnds(ok) \/ CycleWriteFails(ok)
  BY <1>4 DEF CycleEnds, CycleWriteFails
<1>5. CASE EnsureReuses \/ EnsureCreates
  BY <1>5 DEF EnsureReuses, EnsureCreates
<1> QED BY <1>1, <1>2, <1>3, <1>4, <1>5 DEF Next, Step, Cycling

\* No cycle starts before its boundary or after its grace, however long a sleep lasted
\* and through whatever path the loop came to it.
THEOREM CyclesArePunctual == Spec => NeverEarlyNeverStale
<1>1. InTime /\ PunctualInv /\ [Next]_vars
          => [Len(samples') > Len(samples) =>
                boundary <= now /\ now <= boundary + Grace + spent]_vars
  <2> SUFFICES ASSUME InTime, PunctualInv, [Next]_vars, Len(samples') > Len(samples)
               PROVE  boundary <= now /\ now <= boundary + Grace + spent
    OBVIOUS
  <2>1. samples' # samples
    BY DEF InTime, TypeOK
  <2>2. pc = "ensure"
    BY <2>1, SamplesTaken
  <2> QED BY <2>2 DEF PunctualInv
<1> QED BY <1>1, PunctualHolds, TimeHolds, PTL DEF Spec, NeverEarlyNeverStale

----------------------------------------------------------------------------
(***************************************************************************)
(* The boundary slept for belongs to the date that was looked up before    *)
(* the sleep, whatever the date is when the sleep is over.                 *)
(***************************************************************************)
HoldsBoundary == AwaitsBoundary \/ pc \in {"ensure", "cycle"}

DatedInv == HoldsBoundary => boundary \in Time /\ Today(boundary) = tradingDate

LEMMA ChoiceIsOfTheDay ==
    ASSUME InTime, Looping, ~Outside, ChosenBoundary <= Window.end
    PROVE  ChosenBoundary \in Time /\ Today(ChosenBoundary) = Today(now)
<1> DEFINE d == Today(now)
<1>1. d \in Days /\ now \in Time /\ now \in Nat
  BY NowTypes DEF InTime, TypeOK
<1>2. /\ Window.start \in Time /\ Window.end \in Time
      /\ DateOf[Window.start] = d /\ DateOf[Window.end] = d
  BY <1>1, WindowTypes DEF Outside, Window
<1>3. CASE AtOpening
  BY <1>2, <1>3 DEF ChosenBoundary, Today
<1>4. CASE ~AtOpening
  <2> DEFINE chosen == ChosenBoundary
  <2>1. chosen \in Nat /\ now < chosen /\ chosen <= Window.end
    BY <1>1, <1>4, NextBoundaryIsNext DEF ChosenBoundary
  <2> HIDE DEF chosen
  <2>2. chosen \in Time
    BY <1>2, <2>1, ClockBounds DEF Time
  <2>3. DateOf[now] <= DateOf[chosen] /\ DateOf[chosen] <= DateOf[Window.end]
    <3>1. now <= chosen
      BY <1>1, <2>1
    <3> QED BY <1>1, <1>2, <2>1, <2>2, <3>1, DatesAdvance
  <2>4. DateOf[chosen] \in Nat /\ d \in Nat
    BY <1>1, <2>2, CalendarTypes, ClockBounds DEF Days
  <2>5. DateOf[chosen] = d
    BY <1>2, <2>3, <2>4 DEF Today
  <2> QED BY <2>2, <2>5 DEF Today, chosen
<1> QED BY <1>3, <1>4

LEMMA DatedKept ==
    ASSUME DatedInv, UNCHANGED <<boundary, tradingDate>>, HoldsBoundary' => HoldsBoundary
    PROVE  DatedInv'
BY DEF DatedInv

LEMMA DatedStep == InTime /\ DatedInv /\ [Next]_vars => DatedInv'
<1> SUFFICES ASSUME InTime, DatedInv, [Next]_vars PROVE DatedInv'
  OBVIOUS
<1> USE DEF HoldsBoundary, AwaitsBoundary
<1>1. CASE UNCHANGED vars \/ Tick \/ CalendarEnds \/ RequestStop
  <2>1. UNCHANGED <<pc, purpose, boundary, tradingDate>>
    BY <1>1 DEF vars, Tick, CalendarEnds, RequestStop, processVars, sleepVars
  <2> QED BY <2>1, DatedKept
<1>2. CASE BootService \/ Kill \/ Exit \/ ExitWriteFails \/ LoopStopped \/ LoopOutside
           \/ LoopOutsideFails \/ EnsureFails \/ \E ok \in BOOLEAN : CycleWriteFails(ok)
  <2>1. pc' \in {"top", "off", "finally"} \/ (pc' = "sleep" /\ purpose' = "session")
    BY <1>2 DEF BootService, Kill, Exit, ExitWriteFails, Ended, LoopStopped, LoopOutside,
       AwaitSession, StartSleep, LoopOutsideFails, EnsureFails, CycleWriteFails
  <2> QED BY <2>1 DEF DatedInv
<1>3. CASE BootOnce
  <2>1. boundary' = now /\ tradingDate' = Today(now)
    BY <1>3 DEF BootOnce
  <2> QED BY <2>1 DEF DatedInv, InTime, TypeOK, Today
<1>4. CASE Sleeping
  <2>1. /\ UNCHANGED <<purpose, boundary, tradingDate>> /\ pc = "sleep"
        /\ pc' \in {"top", "finally", "sleep"} \/ (pc' = "ensure" /\ purpose = "boundary")
    BY <1>4 DEF Sleeping, SleepOn, WakeAtSession, WakeAfterClose, WakeStopped, WakeStale,
       WakeInTime, ResumeAt, SleepDone, SliceOver, loopVars
  <2> QED BY <2>1, DatedKept
<1>5. CASE LoopInside
  <2> DEFINE chosen == ChosenBoundary
  <2>1. /\ boundary' = chosen /\ tradingDate' = Today(now) /\ pc' = "sleep"
        /\ purpose' = IF chosen > Window.end THEN "close" ELSE "boundary"
    BY <1>5 DEF LoopInside, StartSleep
  <2>2. chosen \in Nat /\ Window.end \in Nat
    BY <1>5, BoundaryType DEF LoopInside
  <2>3. chosen <= Window.end => chosen \in Time /\ Today(chosen) = Today(now)
    BY <1>5, ChoiceIsOfTheDay DEF LoopInside
  <2> HIDE DEF chosen
  <2> QED BY <2>1, <2>2, <2>3 DEF DatedInv, Today
<1>6. CASE EnsureReuses \/ EnsureCreates
  <2>1. pc = "ensure" /\ UNCHANGED <<boundary, tradingDate>>
    BY <1>6 DEF EnsureReuses, EnsureCreates, loopVars
  <2> QED BY <2>1, DatedKept
<1>7. ASSUME NEW ok \in BOOLEAN, CycleEnds(ok) PROVE DatedInv'
  <2>1. pc' \in {"top", "finally"}
    BY <1>7 DEF CycleEnds
  <2> QED BY <2>1 DEF DatedInv
<1> QED BY <1>1, <1>2, <1>3, <1>4, <1>5, <1>6, <1>7 DEF Next, Step, Cycling

LEMMA DatedHolds == Spec => []DatedInv
<1>1. Init => DatedInv
  BY DEF Init, DatedInv, HoldsBoundary, AwaitsBoundary
<1> QED BY <1>1, DatedStep, TimeHolds, PTL DEF Spec

----------------------------------------------------------------------------
(***************************************************************************)
(* Every sample of the service is one that QA expects, when openings are   *)
(* on the grid; a `--once` labels its cycle with whatever time it is.      *)
(***************************************************************************)
OpeningsOnGrid == \A d \in TradingDays : OnGrid(SessionOpen[d])

Expected(t) == t \in ExpectedPollTimestamps(Today(t))

\* A boundary that the service waits for, or is about to sample, is expected.
GridInv == mode = "service" /\ (AwaitsBoundary \/ pc = "ensure") => Expected(boundary)

LEMMA ChoiceIsExpected ==
    ASSUME OpeningsOnGrid, InTime, PunctualInv, Looping, ~Outside, ChosenBoundary <= Window.end
    PROVE  Expected(ChosenBoundary)
<1> DEFINE d == Today(now)
           chosen == ChosenBoundary
           start == SessionOpen[d]
<1>1. d \in Days /\ now \in Nat
  BY NowTypes
<1>2. /\ Window.start = start /\ start \in Nat /\ d \in TradingDays
      /\ HasWindow(d) /\ Window.end = WindowEnd(d) /\ WindowEnd(d) \in Nat
  <2>1. SessionWindow(d) # NoWindow /\ Window = SessionWindow(d)
    BY DEF Outside, Window
  <2>2. HasWindow(d)
    BY <2>1 DEF SessionWindow
  <2>3. /\ d \in TradingDays /\ start \in Time /\ WindowEnd(d) \in Time
        /\ SessionWindow(d) = [start |-> start, end |-> WindowEnd(d)]
    BY <1>1, <2>1, WindowTypes
  <2> QED BY <2>1, <2>2, <2>3, ClockBounds DEF Time
<1>3. chosen \in Time /\ Today(chosen) = d /\ chosen \in Nat
  BY ChoiceIsOfTheDay, ClockBounds DEF Time
<1>4. PICK j \in Nat : start = j * Interval
  BY <1>2 DEF OpeningsOnGrid, OnGrid
<1>5. start <= chosen /\ OnGrid(chosen)
  <2>1. CASE AtOpening
    BY <1>2, <1>4, <2>1 DEF ChosenBoundary, OnGrid
  <2>2. CASE ~AtOpening
    <3>1. chosen = NextBoundary(now) /\ now < chosen /\ OnGrid(chosen)
      BY <1>1, <2>2, NextBoundaryIsNext DEF ChosenBoundary
    <3>2. start <= now
      <4>1. lastBoundary # None => lastBoundary <= now
        BY DEF PunctualInv, Looping, BeforeCycle
      <4>2. now > start + Grace \/ lastBoundary = start
        BY <1>1, <1>2, <2>2, PunctualTypes DEF AtOpening
      <4>3. start # None
        BY <1>2, ClockBounds
      <4> QED BY <1>1, <1>2, <4>1, <4>2, <4>3, PunctualTypes
    <3> QED BY <1>1, <1>2, <1>3, <3>1, <3>2
  <2> QED BY <2>1, <2>2
<1>6. PICK k \in Nat : chosen = k * Interval
  BY <1>5 DEF OnGrid
<1>7. start % Interval = 0 /\ (chosen - start) % Interval = 0
  BY <1>4, <1>5, <1>6, GridSteps
<1>8. FirstPoll(d) = start
  BY <1>7 DEF FirstPoll
<1>9. chosen <= WindowEnd(d)
  BY <1>2
<1> HIDE DEF chosen, start
<1>10. chosen \in ExpectedPollTimestamps(d)
  BY <1>2, <1>3, <1>5, <1>7, <1>8, <1>9 DEF ExpectedPollTimestamps
<1> QED BY <1>3, <1>10 DEF Expected, chosen

LEMMA GridStep ==
    ASSUME OpeningsOnGrid, InTime, PunctualInv, GridInv, [Next]_vars
    PROVE  GridInv'
<1> USE DEF AwaitsBoundary
<1>1. CASE UNCHANGED vars \/ Tick \/ CalendarEnds \/ RequestStop
  <2>1. UNCHANGED <<pc, mode, purpose, boundary>>
    BY <1>1 DEF vars, Tick, CalendarEnds, RequestStop, processVars, sleepVars
  <2> QED BY <2>1 DEF GridInv, Expected
<1>2. CASE \/ BootService \/ Kill \/ Exit \/ ExitWriteFails \/ LoopStopped
           \/ LoopOutside \/ LoopOutsideFails \/ Cycling
  <2>1. pc' \in {"top", "off", "cycle", "finally"} \/ (pc' = "sleep" /\ purpose' = "session")
    BY <1>2 DEF BootService, Kill, Exit, ExitWriteFails, Ended, LoopStopped,
       LoopOutside, AwaitSession, StartSleep, LoopOutsideFails, Cycling, EnsureReuses,
       EnsureCreates, StartCycle, EnsureFails, CycleEnds, CycleWriteFails
  <2> QED BY <2>1 DEF GridInv
<1>3. CASE BootOnce
  BY <1>3 DEF BootOnce, GridInv
<1>4. CASE Sleeping
  <2>1. /\ UNCHANGED <<mode, purpose, boundary>> /\ pc = "sleep"
        /\ pc' \in {"top", "finally", "sleep"} \/ (pc' = "ensure" /\ purpose = "boundary")
    BY <1>4 DEF Sleeping, SleepOn, WakeAtSession, WakeAfterClose, WakeStopped, WakeStale,
       WakeInTime, ResumeAt, SleepDone, SliceOver, loopVars
  <2> QED BY <2>1 DEF GridInv, Expected
<1>5. CASE LoopInside
  <2> DEFINE chosen == ChosenBoundary
  <2>1. /\ boundary' = chosen /\ pc' = "sleep"
        /\ purpose' = IF chosen > Window.end THEN "close" ELSE "boundary"
    BY <1>5 DEF LoopInside, StartSleep
  <2>2. chosen \in Nat /\ Window.end \in Nat
    BY <1>5, BoundaryType DEF LoopInside
  <2>3. chosen <= Window.end => Expected(chosen)
    BY <1>5, ChoiceIsExpected DEF LoopInside
  <2> HIDE DEF chosen
  <2> QED BY <2>1, <2>2, <2>3 DEF GridInv, Expected
<1> QED BY <1>1, <1>2, <1>3, <1>4, <1>5 DEF Next, Step

\* The service samples only expected timestamps, for every calendar whose openings are
\* on the grid, whatever it oversleeps, whenever it is restarted and whoever runs
\* `--once` in between.
THEOREM SamplesAreOnTheGrid ==
    ASSUME OpeningsOnGrid
    PROVE  Spec => OnTheGrid
<1>1. Init => GridInv
  BY DEF Init, GridInv, AwaitsBoundary
<1>2. InTime /\ PunctualInv /\ GridInv /\ [Next]_vars => GridInv'
  BY GridStep
<1>3. InTime /\ GridInv /\ [Next]_vars
        => [Len(samples') > Len(samples) /\ mode = "service" =>
              LET t == samples'[Len(samples')] IN t \in ExpectedPollTimestamps(Today(t))]_vars
  <2> SUFFICES ASSUME InTime, GridInv, [Next]_vars, Len(samples') > Len(samples),
                      mode = "service"
               PROVE  Expected(samples'[Len(samples')])
    BY DEF Expected
  <2>1. pc = "ensure" /\ (EnsureReuses \/ EnsureCreates)
    BY SamplesTaken DEF InTime, TypeOK
  <2>2. samples' = Append(samples, boundary)
    BY <2>1 DEF EnsureReuses, EnsureCreates, StartCycle
  <2>3. samples'[Len(samples')] = boundary
    BY <2>2 DEF InTime, TypeOK
  <2> QED BY <2>1, <2>3 DEF GridInv
<1> QED BY <1>1, <1>2, <1>3, TimeHolds, PunctualHolds, PTL DEF Spec, OnTheGrid

----------------------------------------------------------------------------
(***************************************************************************)
(* The counters are of the day.  A timestamp that is about to be counted   *)
(* was never sampled before, so the number of cycles is that of the        *)
(* timestamps; it is of the date of the tracker, whatever the date is now. *)
(***************************************************************************)
Taken == {samples[i] : i \in DOMAIN samples}

Tally(counters, d, taken) ==
    /\ IsFiniteSet(counters.stamps)
    /\ counters.cycles = Cardinality(counters.stamps)
    /\ \A t \in counters.stamps : Today(t) = d /\ t \in taken

StampInv ==
    /\ \A d \in Days : Tally(file[d], d, Taken)
    /\ healthDate # None => Tally(mem, healthDate, Taken)
    /\ pc = "cycle" => boundary \in Taken \ mem.stamps

LEMMA TallyOf ==
    ASSUME NEW counters, NEW d, NEW taken, Tally(counters, d, taken), NEW finished
    PROVE  /\ Tally(FileOf(counters, finished), d, taken)
           /\ Tally([cycles |-> counters.cycles, stamps |-> counters.stamps], d, taken)
BY DEF Tally, FileOf

LEMMA TallyGrows ==
    ASSUME NEW counters, NEW d, NEW taken, NEW more, Tally(counters, d, taken), taken \subseteq more
    PROVE  Tally(counters, d, more)
BY DEF Tally

LEMMA TallyAdds ==
    ASSUME NEW counters, NEW d, NEW taken, Tally(counters, d, taken),
           NEW t \in taken \ counters.stamps, Today(t) = d
    PROVE  Tally([cycles |-> counters.cycles + 1, stamps |-> counters.stamps \union {t}], d, taken)
<1> DEFINE stamps == counters.stamps \union {t}
<1>1. IsFiniteSet(stamps) /\ Cardinality(stamps) = counters.cycles + 1
  BY FS_AddElement DEF Tally
<1>2. \A s \in stamps : Today(s) = d /\ s \in taken
  BY DEF Tally
<1> HIDE DEF stamps
<1>3. Tally([cycles |-> counters.cycles + 1, stamps |-> stamps], d, taken)
  BY <1>1, <1>2 DEF Tally
<1> QED BY <1>3 DEF stamps

LEMMA StampInit == Init => StampInv
<1> SUFFICES ASSUME Init PROVE StampInv
  OBVIOUS
<1>1. \A d \in Days : file[d] = NoFile
  BY DEF Init
<1>2. NoFile.cycles = 0 /\ NoFile.stamps = {}
  BY DEF NoFile
<1>3. \A d \in Days : Tally(NoFile, d, Taken)
  BY <1>2, FS_EmptySet DEF Tally
<1> QED BY <1>1, <1>3 DEF Init, StampInv

\* Steps that touch neither the samples nor the files.
LEMMA StampKept ==
    ASSUME StampInv, UNCHANGED <<samples, file>>,
           healthDate' = None \/ UNCHANGED <<healthDate, mem>>,
           pc' = "cycle" => pc = "cycle" /\ UNCHANGED <<boundary, mem>>
    PROVE  StampInv'
<1>1. Taken' = Taken
  BY DEF Taken
<1> QED BY <1>1 DEF StampInv

\* The files once the live tracker is closed, where its final write succeeds.
LEMMA StampClosed ==
    ASSUME InTime, StampInv, NEW d \in Days,
           NEW closed, closed = IF healthDate = None THEN file ELSE Finalised
    PROVE  Tally(closed[d], d, Taken)
<1>1. closed[d] = file[d] \/ (d = healthDate /\ d # None /\ closed[d] = FileOf(mem, TRUE))
  BY NowTypes DEF Finalised, InTime, TypeOK
<1> QED BY <1>1, TallyOf DEF StampInv

LEMMA StampEnds ==
    ASSUME InTime, StampInv, Exit \/ LoopOutside \/ EnsureFails
    PROVE  StampInv'
<1>1. /\ samples' = samples /\ pc' # "cycle"
      /\ healthDate' = None \/ UNCHANGED <<healthDate, mem>>
      /\ file' = file \/ file' = IF healthDate = None THEN file ELSE Finalised
  BY DEF Exit, Ended, LoopOutside, AwaitSession, StartSleep, EnsureFails, OldDayClosed,
     healthVars, historyVars
<1>2. Taken' = Taken
  BY <1>1 DEF Taken
<1>3. \A d \in Days : Tally(file'[d], d, Taken)
  BY <1>1, StampClosed DEF StampInv
<1> QED BY <1>1, <1>2, <1>3 DEF StampInv

\* The sample is taken, by a tracker of the day which has not counted it.
LEMMA StampSample ==
    ASSUME InTime, AdvanceInv, StampInv, EnsureReuses \/ EnsureCreates
    PROVE  StampInv'
<1>1. /\ pc = "ensure" /\ samples' = Append(samples, boundary) /\ boundary' = boundary
      /\ samples \in Seq(Nat) /\ boundary \in Nat
  BY DEF EnsureReuses, EnsureCreates, StartCycle, InTime, TypeOK
<1>2. Taken \subseteq Taken' /\ boundary \in Taken'
  <2>1. /\ Len(samples) + 1 \in DOMAIN samples' /\ samples'[Len(samples) + 1] = boundary
        /\ \A i \in DOMAIN samples : i \in DOMAIN samples' /\ samples'[i] = samples[i]
    BY <1>1
  <2> QED BY <2>1 DEF Taken
<1>3. boundary \notin Taken
  BY <1>1, SampleTypes DEF AdvanceInv, SampledBefore, Taken
<1>4. \A d \in Days : Tally(file[d], d, Taken')
  BY <1>2, TallyGrows DEF StampInv
<1>5. CASE EnsureReuses
  <2>1. UNCHANGED <<healthDate, mem, file>> /\ healthDate # None
    BY <1>5, NowTypes DEF EnsureReuses, healthVars, InTime, TypeOK
  <2>2. Tally(mem, healthDate, Taken) /\ Tally(mem, healthDate, Taken')
    BY <1>2, <2>1, TallyGrows DEF StampInv
  <2>3. boundary \notin mem.stamps
    BY <1>3, <2>2 DEF Tally
  <2> QED BY <1>1, <1>2, <1>4, <2>1, <2>2, <2>3 DEF StampInv
<1>6. CASE EnsureCreates
  <2> DEFINE d == tradingDate
  <2>1. /\ d \in Days /\ healthDate' = d /\ mem' = Restored(d)
        /\ file' = [OldDayClosed EXCEPT ![d] = FileOf(mem', FALSE)]
    BY <1>6 DEF EnsureCreates, InTime, TypeOK
  <2>2. Tally(mem', d, Taken) /\ Tally(mem', d, Taken')
    <3>1. Tally(Restored(d), d, Taken)
      BY <2>1, TallyOf DEF StampInv, Restored
    <3> QED BY <1>2, <2>1, <3>1, TallyGrows
  <2>3. boundary \notin mem'.stamps
    BY <1>3, <2>2 DEF Tally
  <2>4. ASSUME NEW e \in Days PROVE Tally(file'[e], e, Taken')
    <3>1. DOMAIN OldDayClosed = Days
      BY DEF OldDayClosed, Finalised, InTime, TypeOK
    <3>2. CASE e = d
      <4>1. file'[e] = FileOf(mem', FALSE)
        BY <2>1, <3>1, <3>2
      <4> QED BY <2>2, <3>2, <4>1, TallyOf
    <3>3. CASE e # d
      <4>1. file'[e] = OldDayClosed[e]
        BY <2>1, <3>1, <3>3
      <4>2. Tally(OldDayClosed[e], e, Taken)
        BY StampClosed DEF OldDayClosed
      <4> QED BY <1>2, <4>1, <4>2, TallyGrows
    <3> QED BY <3>2, <3>3
  <2> HIDE DEF d
  <2> QED BY <1>1, <1>2, <2>1, <2>2, <2>3, <2>4 DEF StampInv
<1> QED BY <1>5, <1>6

LEMMA StampCycle ==
    ASSUME InTime, HealthInv, DatedInv, StampInv,
           NEW ok \in BOOLEAN, CycleEnds(ok) \/ CycleWriteFails(ok)
    PROVE  StampInv'
<1> DEFINE d == healthDate
<1>1. /\ pc = "cycle" /\ pc' # "cycle" /\ samples' = samples /\ healthDate' = d
      /\ mem' = Recorded(ok)
      /\ file' = file \/ file' = [file EXCEPT ![d] = FileOf(mem', FALSE)]
  BY DEF CycleEnds, CycleWriteFails, CycleRecorded
<1>2. d = tradingDate /\ d \in Days /\ d # None
  BY <1>1, HealthTypes DEF HealthInv
<1>3. Tally(mem', d, Taken)
  <2>1. CASE ok
    <3>1. boundary \in Taken \ mem.stamps /\ Today(boundary) = d /\ Tally(mem, d, Taken)
      BY <1>1, <1>2 DEF StampInv, DatedInv, HoldsBoundary
    <3> HIDE DEF d
    <3> QED BY <1>1, <2>1, <3>1, TallyAdds DEF Recorded
  <2>2. CASE ~ok
    BY <1>1, <1>2, <2>2 DEF StampInv, Recorded
  <2> QED BY <2>1, <2>2
<1>4. Taken' = Taken
  BY <1>1 DEF Taken
<1>5. ASSUME NEW e \in Days PROVE Tally(file'[e], e, Taken)
  <2>1. file'[e] = file[e] \/ (e = d /\ file'[e] = FileOf(mem', FALSE))
    BY <1>1 DEF InTime, TypeOK
  <2> QED BY <1>3, <2>1, TallyOf DEF StampInv
<1> HIDE DEF d
<1> QED BY <1>1, <1>3, <1>4, <1>5 DEF StampInv

LEMMA StampStep ==
    ASSUME InTime, HealthInv, AdvanceInv, DatedInv, StampInv, [Next]_vars
    PROVE  StampInv'
<1>1. CASE UNCHANGED vars \/ Tick \/ CalendarEnds \/ RequestStop
  <2>1. UNCHANGED <<samples, file, healthDate, mem, pc, boundary>>
    BY <1>1 DEF vars, Tick, CalendarEnds, RequestStop, processVars, healthVars, historyVars
  <2> QED BY <2>1, StampKept
<1>2. CASE BootService \/ BootOnce \/ Kill \/ ExitWriteFails
  <2>1. UNCHANGED <<samples, file>> /\ healthDate' = None /\ pc' # "cycle"
    BY <1>2 DEF BootService, BootOnce, Fresh, Kill, ExitWriteFails, Ended, historyVars
  <2> QED BY <2>1, StampKept
<1>3. CASE Sleeping \/ LoopStopped \/ LoopOutsideFails \/ LoopInside
  <2>1. UNCHANGED <<samples, file, healthDate, mem>> /\ pc' # "cycle"
    BY <1>3 DEF Sleeping, SleepOn, SliceOver, WakeAtSession, WakeAfterClose, WakeStopped,
       WakeStale, WakeInTime, ResumeAt, LoopStopped, LoopOutsideFails, LoopInside, StartSleep,
       healthVars, historyVars
  <2> QED BY <2>1, StampKept
<1> QED BY <1>1, <1>2, <1>3, StampEnds, StampSample, StampCycle DEF Next, Step, Cycling

\* The health file of a date counts each timestamp once, only those of that date and
\* only those that were sampled, through midnight in mid-sleep, restarts, `--once` and
\* lost writes.  That no timestamp comes twice needs what BoundariesAlwaysAdvance needs.
THEOREM CountsStayOfTheDay ==
    ASSUME OpeningsApart, RestartsApart
    PROVE  Spec => []CountsAreOfTheDay
<1>1. Spec => []AdvanceInv
  <2>1. InTime /\ AdvanceInv /\ [Next]_vars => AdvanceInv'
    BY AdvanceStep
  <2> QED BY <2>1, TimeHolds, AdvanceInit, PTL DEF Spec
<1>2. InTime /\ HealthInv /\ AdvanceInv /\ DatedInv /\ StampInv /\ [Next]_vars => StampInv'
  BY StampStep
<1>3. StampInv => CountsAreOfTheDay
  BY DEF StampInv, Tally, Taken, CountsAreOfTheDay
<1> QED BY <1>1, <1>2, <1>3, TimeHolds, HealthHolds, DatedHolds, StampInit, PTL DEF Spec
----------------------------------------------------------------------------
(***************************************************************************)
(* No boundary is missed.  Of the configuration: the grace holds an        *)
(* oversleep and the steps to the check, the interval an oversleep and a   *)
(* cycle, and the sessions lie apart, from each other and from midnight.   *)
(***************************************************************************)
SleepsFit == MaxLag + MaxStep <= Grace /\ MaxLag + MaxWork < Interval

WindowsHold ==
    \A d \in TradingDays : HasWindow(d) => SessionOpen[d] + MaxLag + MaxStep <= WindowEnd(d)

SessionsApart ==
    \A d, e \in TradingDays : d < e =>
        WindowEnd(d) + Second + MaxLag + MaxWork < SessionOpen[e]

OpeningsAfterMidnight ==
    \A d \in TradingDays : \A t \in Time : Today(t) < d => t + Minute <= SessionOpen[d]

Opens(t) == \E d \in TradingDays : HasWindow(d) /\ t = SessionOpen[d]

\* The timestamps that a process that came to its loop before them has not sampled.
Missing ==
    {t \in Time : /\ \E d \in Days : t \in ExpectedPollTimestamps(d)
                  /\ since + MaxWork < t
                  /\ \A i \in DOMAIN samples : samples[i] # t}

Working   == pc \in {"top", "sleep", "ensure", "cycle"} /\ mode = "service" /\ ~stop
Choosing  == pc = "top" \/ (pc = "sleep" /\ ~Asleep)

\* Awake since now - spent, the process is done before t; or t is the opening it slept for.
BeyondWork(t) == now - spent + MaxWork < t
JustOpened(t) == Opens(t) /\ t <= now - spent /\ now - spent <= t + MaxLag /\ spent <= MaxStep

MissInv ==
    Working =>
        /\ Choosing => \A t \in Missing : BeyondWork(t) \/ JustOpened(t)
        /\ pc = "sleep" /\ purpose = "session" => Opens(target) /\ \A t \in Missing : target <= t
        /\ pc = "sleep" /\ purpose = "close" =>
             \A t \in Missing : target + MaxLag + MaxWork < t
        /\ HoldsBoundary => OnGrid(boundary) /\ \A t \in Missing : boundary <= t
        /\ HoldsBoundary /\ ~Asleep =>
             \A t \in Missing : BeyondWork(t) \/ now - spent <= boundary + MaxLag
        /\ pc = "cycle" => boundary \notin Missing
        /\ lastBoundary # None => lastBoundary \notin Missing
        /\ Asleep => sliceEnd <= target

LEMMA MissTypes ==
    ASSUME InTime
    PROVE  /\ now \in Nat /\ spent \in Nat /\ since \in Nat /\ target \in Nat
           /\ sliceEnd \in Nat /\ boundary \in Nat
           /\ MaxLag \in Nat /\ MaxWork \in Nat /\ MaxStep \in Nat /\ MaxStep <= MaxWork
           /\ Grace \in Nat /\ Second \in Nat /\ Minute \in Nat /\ Interval \in Nat
           /\ \A t \in Missing : t \in Nat /\ t \in Time /\ t # None
<1>1. \A t \in Time : t \in Nat /\ t # None
  BY ClockBounds DEF Time
<1>2. Interval \in Nat
  BY ClockBounds
<1>3. \A t \in Missing : t \in Time
  BY DEF Missing
<1> QED BY <1>1, <1>2, <1>3, StopTypes, ConstantTypes DEF InTime, TypeOK

LEMMA MissingKept == ASSUME UNCHANGED <<since, samples>> PROVE Missing' = Missing
BY DEF Missing

LEMMA DayOrder ==
    ASSUME NEW s \in Time, NEW t \in Time, Today(s) < Today(t)
    PROVE  s < t
<1>1. Today(s) \in Nat /\ Today(t) \in Nat /\ s \in Nat /\ t \in Nat
  BY CalendarTypes, ClockBounds DEF Today, Days, Time
<1>2. t <= s => Today(t) <= Today(s)
  BY DatesAdvance DEF Today
<1> QED BY <1>1, <1>2

LEMMA GridApart ==
    ASSUME NEW s, NEW t, OnGrid(s), OnGrid(t), s < t
    PROVE  s + Interval <= t
<1>1. PICK j \in Nat : s = j * Interval
  BY DEF OnGrid
<1>2. PICK k \in Nat : t = k * Interval
  BY DEF OnGrid
<1>3. j + 1 <= k
  BY <1>1, <1>2, Product, ClockBounds
<1>4. (j + 1) * Interval <= k * Interval
  BY <1>3, Product
<1> QED BY <1>1, <1>2, <1>4, Product

LEMMA ExpectedFacts ==
    ASSUME OpeningsOnGrid, NEW d \in Days, NEW t \in ExpectedPollTimestamps(d)
    PROVE  /\ d \in TradingDays /\ HasWindow(d) /\ OnGrid(t) /\ t \in Time
           /\ SessionOpen[d] <= t /\ t <= WindowEnd(d) /\ Today(t) = d
<1> DEFINE open == SessionOpen[d]
           end  == WindowEnd(d)
<1>1. HasWindow(d)
  BY DEF ExpectedPollTimestamps
<1>2. SessionWindow(d) # NoWindow
  <2>1. SessionOpen[d] \in Int /\ WindowEnd(d) \in Int
    BY <1>1, CalendarTypes, ClockBounds, SessionsWithinTheirDay
       DEF HasWindow, WindowEnd, IsEarlyClose, Time
  <2> QED BY <1>1, <2>1, CalendarTypes DEF SessionWindow
<1>3. /\ d \in TradingDays /\ open \in Time /\ end \in Time
      /\ DateOf[open] = d /\ DateOf[end] = d
  BY <1>2, WindowTypes
<1>4. PICK j \in Nat : open = j * Interval
  BY <1>3 DEF OpeningsOnGrid, OnGrid
<1>5. FirstPoll(d) = open
  <2>1. j * Interval <= j * Interval
    BY Product
  <2>2. open % Interval = 0
    BY <1>4, <2>1, GridSteps
  <2> QED BY <2>2 DEF FirstPoll
<1> HIDE DEF open, end
<1>6. t \in open .. end /\ (t - open) % Interval = 0
  BY <1>1, <1>5 DEF ExpectedPollTimestamps, end
<1>7. open \in Nat /\ end \in Nat /\ t \in Nat /\ open <= t /\ t <= end /\ t \in Time
  BY <1>3, <1>6, ClockBounds DEF Time
<1>8. OnGrid(t)
  <2> DEFINE q == (t - open) \div Interval
  <2>1. t - open \in Nat
    BY <1>7
  <2>2. q \in Nat /\ t - open = q * Interval
    BY <1>6, <2>1, ClockBounds
  <2> HIDE DEF q
  <2>3. j + q \in Nat /\ t = (j + q) * Interval
    BY <1>4, <1>7, <2>2, ClockBounds
  <2> QED BY <2>3 DEF OnGrid
<1>9. Today(t) = d
  <2>1. DateOf[open] <= DateOf[t] /\ DateOf[t] <= DateOf[end]
    BY <1>3, <1>7, DatesAdvance
  <2>2. DateOf[t] \in Nat /\ d \in Nat
    BY <1>7, CalendarTypes, ClockBounds DEF Days
  <2> QED BY <1>3, <2>1, <2>2 DEF Today
<1> QED BY <1>1, <1>3, <1>7, <1>8, <1>9 DEF open, end

LEMMA MissingFacts ==
    ASSUME OpeningsOnGrid, NEW t \in Missing
    PROVE  /\ OnGrid(t) /\ t \in Time
           /\ Today(t) \in TradingDays /\ HasWindow(Today(t))
           /\ SessionOpen[Today(t)] <= t /\ t <= WindowEnd(Today(t))
           /\ t \in ExpectedPollTimestamps(Today(t))
<1>1. PICK d \in Days : t \in ExpectedPollTimestamps(d)
  BY DEF Missing
<1> QED BY <1>1, ExpectedFacts

\* Just after an opening the window is that of the opening, which is the boundary chosen.
LEMMA OpeningChosen ==
    ASSUME SleepsFit, WindowsHold, OpeningsOnGrid, InTime, StopInv, MissInv,
           pc = "top", Working, NEW t \in Missing, JustOpened(t)
    PROVE  ~Outside /\ Window.start = t /\ t <= now /\ ChosenBoundary = t
<1>1. PICK d \in TradingDays : HasWindow(d) /\ t = SessionOpen[d]
  BY DEF JustOpened, Opens
<1>2. d \in Days /\ SessionWindow(d) # NoWindow
  <2>1. d \in Days
    BY CalendarTypes
  <2>2. SessionOpen[d] \in Int /\ WindowEnd(d) \in Int
    BY <1>1, <2>1, CalendarTypes, ClockBounds, SessionsWithinTheirDay
       DEF WindowEnd, IsEarlyClose, Time
  <2> QED BY <1>1, <2>1, <2>2, CalendarTypes DEF SessionWindow
<1>3. /\ t \in Time /\ WindowEnd(d) \in Time /\ DateOf[t] = d /\ DateOf[WindowEnd(d)] = d
      /\ SessionWindow(d) = [start |-> t, end |-> WindowEnd(d)]
  BY <1>1, <1>2, WindowTypes
<1>4. WindowEnd(d) \in Nat /\ t \in Nat
  BY <1>3, ClockBounds DEF Time
<1>5. t <= now /\ now <= t + Grace /\ now <= WindowEnd(d)
  <2>1. t + MaxLag + MaxStep <= WindowEnd(d)
    BY <1>1 DEF WindowsHold
  <2> QED BY <1>4, <2>1, MissTypes DEF JustOpened, SleepsFit
<1>6. Today(now) = d
  <2>1. now \in Time /\ DateOf[t] <= DateOf[now] /\ DateOf[now] <= DateOf[WindowEnd(d)]
    BY <1>3, <1>5, DatesAdvance DEF InTime, TypeOK
  <2>2. DateOf[now] \in Nat /\ d \in Nat
    BY <1>2, <2>1, CalendarTypes, ClockBounds DEF Days
  <2> QED BY <1>3, <2>1, <2>2 DEF Today
<1>7. Window = [start |-> t, end |-> WindowEnd(d)] /\ Window # NoWindow
  BY <1>2, <1>3, <1>6 DEF Window
<1>8. ~Outside
  BY <1>4, <1>5, <1>7, MissTypes DEF Outside
<1>9. lastBoundary # t
  BY MissTypes DEF MissInv
<1>10. AtOpening
  BY <1>5, <1>7, <1>9 DEF AtOpening
<1> QED BY <1>5, <1>7, <1>8, <1>10 DEF ChosenBoundary

\* The session slept for is the next one: nothing is expected before it opens.
LEMMA NextSessionIsFirst ==
    ASSUME OpeningsOnGrid, OpeningsAfterMidnight, InTime, Outside,
           NextSessionStart(now + Minute) # None
    PROVE  /\ Opens(NextSessionStart(now + Minute))
           /\ \A t \in Missing : now < t => NextSessionStart(now + Minute) <= t
<1> DEFINE m == now + Minute
           Candidates == {d \in Days : /\ Today(m) <= d
                                       /\ d < Today(m) + SearchDays
                                       /\ HasWindow(d)
                                       /\ m <= WindowEnd(d)}
           c == Min(Candidates)
<1>1. /\ now \in Nat /\ now \in Time /\ m \in Time /\ m \in Nat /\ now <= m
      /\ Today(now) \in Days /\ Days \subseteq Nat /\ Today(m) \in Nat /\ SearchDays \in Nat
  <2>1. /\ now \in Nat /\ now \in Time /\ m \in Time /\ m \in Nat /\ now <= m
        /\ Today(now) \in Days
    <3>1. now \in Time
      BY DEF InTime, TypeOK
    <3>2. now \in Nat /\ Minute \in Nat /\ m \in Time /\ Today(now) \in Days
      BY NowTypes, MissTypes
    <3>3. m \in Nat /\ now <= m
      BY <3>2
    <3> QED BY <3>1, <3>2, <3>3
  <2>2. Days \subseteq Nat /\ SearchDays \in Nat
    BY ClockBounds DEF Days
  <2>3. Today(m) \in Days
    BY <2>1, CalendarTypes DEF Today
  <2> QED BY <2>1, <2>2, <2>3
<1>2. Today(now) <= Today(m)
  BY <1>1, DatesAdvance DEF Today
<1>3. Candidates # {}
  BY DEF NextSessionStart
<1>4. c \in Candidates /\ \A d \in Candidates : c <= d
  BY <1>1, <1>3, MinIsLeast
<1>5. \A d \in Days : HasWindow(d) => d \in TradingDays /\ SessionWindow(d) # NoWindow
                                      /\ WindowEnd(d) \in Nat /\ SessionOpen[d] \in Nat
  <2> SUFFICES ASSUME NEW d \in Days, HasWindow(d)
               PROVE  /\ d \in TradingDays /\ SessionWindow(d) # NoWindow
                      /\ WindowEnd(d) \in Nat /\ SessionOpen[d] \in Nat
    OBVIOUS
  <2>1. SessionOpen[d] \in Int /\ WindowEnd(d) \in Int
    BY CalendarTypes, ClockBounds, SessionsWithinTheirDay
       DEF HasWindow, WindowEnd, IsEarlyClose, Time
  <2>2. SessionWindow(d) # NoWindow
    BY <2>1, CalendarTypes DEF SessionWindow
  <2> QED BY <2>2, WindowTypes, ClockBounds DEF HasWindow, Time
<1>6. ASSUME NEW d \in Days, HasWindow(d), Today(now) < d
      PROVE  m <= SessionOpen[d]
  BY <1>1, <1>5, <1>6 DEF OpeningsAfterMidnight
<1>7. HasWindow(Today(now)) => WindowEnd(Today(now)) < now
  <2> SUFFICES ASSUME HasWindow(Today(now)) PROVE WindowEnd(Today(now)) < now
    OBVIOUS
  <2>1. Window # NoWindow /\ Window.end = WindowEnd(Today(now))
    <3>1. SessionWindow(Today(now)) # NoWindow
      BY <1>1, <1>5
    <3>2. SessionWindow(Today(now)) =
            [start |-> SessionOpen[Today(now)], end |-> WindowEnd(Today(now))]
      BY <1>1, <3>1, WindowTypes
    <3> QED BY <3>1, <3>2 DEF Window
  <2> QED BY <2>1 DEF Outside
<1>8. Today(now) < c /\ HasWindow(c) /\ c \in Days /\ c \in TradingDays
  <2>1. c \in Days /\ HasWindow(c) /\ m <= WindowEnd(c) /\ Today(m) <= c /\ c \in TradingDays
    BY <1>4, <1>5
  <2>2. c # Today(now)
    <3>1. SUFFICES ASSUME c = Today(now) PROVE FALSE
      OBVIOUS
    <3>2. WindowEnd(c) < now /\ m <= WindowEnd(c) /\ WindowEnd(c) \in Nat
      BY <1>5, <1>7, <2>1, <3>1
    <3> QED BY <1>1, <3>2
  <2>3. Today(now) \in Nat /\ c \in Nat
    BY <1>1, <2>1
  <2> HIDE DEF c, m, Candidates
  <2> QED BY <1>1, <1>2, <2>1, <2>2, <2>3
<1>9. NextSessionStart(m) = SessionOpen[c]
  <2>1. m <= SessionOpen[c]
    BY <1>6, <1>8
  <2> QED BY <1>3, <2>1 DEF NextSessionStart
<1> HIDE DEF m, c
<1>10. ASSUME NEW t \in Missing, now < t PROVE SessionOpen[c] <= t
  <2> DEFINE d == Today(t)
  <2>1. /\ d \in TradingDays /\ d \in Days /\ HasWindow(d) /\ t \in Time /\ t \in Nat
        /\ SessionOpen[d] <= t /\ t <= WindowEnd(d)
    BY MissingFacts, MissTypes, CalendarTypes
  <2>2. Today(now) <= d
    BY <1>1, <1>10, <2>1, DatesAdvance DEF Today
  <2>3. d # Today(now)
    <3>1. SUFFICES ASSUME d = Today(now) PROVE FALSE
      OBVIOUS
    <3>2. WindowEnd(d) < now /\ WindowEnd(d) \in Nat
      BY <1>5, <1>7, <2>1, <3>1
    <3> QED BY <1>1, <1>10, <2>1, <3>2
  <2> HIDE DEF d
  <2>4. d \in Nat /\ Today(now) < d
    <3>1. d \in Nat /\ Today(now) \in Nat
      BY <1>1, <2>1
    <3> QED BY <2>2, <2>3, <3>1
  <2>5. m <= SessionOpen[d]
    BY <1>6, <2>1, <2>4
  <2>6. c <= d
    <3>1. CASE d < Today(m) + SearchDays
      <4>1. Today(m) <= d
        <5>1. DateOf[m] <= DateOf[SessionOpen[d]] /\ DateOf[SessionOpen[d]] = d
          BY <1>1, <2>1, <2>5, CalendarTypes, SessionsWithinTheirDay, DatesAdvance
        <5> QED BY <5>1 DEF Today
      <4>2. m <= WindowEnd(d)
        BY <1>1, <1>5, <2>1, <2>5
      <4> QED BY <1>4, <2>1, <3>1, <4>1, <4>2 DEF c
    <3>2. CASE ~(d < Today(m) + SearchDays)
      <4>1. c < Today(m) + SearchDays /\ c \in Nat
        BY <1>1, <1>4 DEF c
      <4> QED BY <1>1, <2>4, <3>2, <4>1
    <3> QED BY <3>1, <3>2
  <2>7. SessionOpen[c] \in Nat /\ SessionOpen[d] \in Nat
    BY <1>5, <1>8, <2>1
  <2>8. CASE c = d
    BY <2>1, <2>8
  <2>9. CASE c < d
    <3>1. SessionOpen[c] < SessionOpen[d]
      BY <1>8, <2>1, <2>9, OpeningsAdvance
    <3> QED BY <2>1, <2>7, <3>1
  <2> QED BY <1>1, <1>8, <2>4, <2>6, <2>8, <2>9
<1> QED BY <1>8, <1>9, <1>10 DEF Opens, m

\* The boundary chosen inside a session is at or before whatever is missing, and a cycle
\* at it, begun within an oversleep, is over before the next.
LEMMA ChoiceMissesNothing ==
    ASSUME SleepsFit, WindowsHold, OpeningsOnGrid, SessionsApart,
           InTime, StopInv, MissInv, Working, Looping, ~Outside
    PROVE  /\ OnGrid(ChosenBoundary) /\ ChosenBoundary \in Nat /\ Window.end \in Nat
           /\ \A t \in Missing : ChosenBoundary <= t
           /\ \A t \in Missing : BeyondWork(t) \/ now - spent <= ChosenBoundary + MaxLag
           /\ ChosenBoundary > Window.end =>
                \A t \in Missing : Window.end + Second + MaxLag + MaxWork < t
<1> DEFINE d == Today(now)
           chosen == ChosenBoundary
<1>1. /\ pc = "top" /\ now \in Nat /\ now \in Time /\ d \in Days /\ spent <= MaxWork
      /\ \A t \in Missing : BeyondWork(t) \/ JustOpened(t)
  BY NowTypes DEF Looping, Choosing, MissInv, InTime, TypeOK, StopInv
<1>2. /\ d \in TradingDays /\ Window.start = SessionOpen[d] /\ Window.end = WindowEnd(d)
      /\ Window.start \in Time /\ Window.end \in Time
      /\ DateOf[Window.start] = d /\ DateOf[Window.end] = d
  <2>1. SessionWindow(d) # NoWindow /\ Window = SessionWindow(d)
    BY DEF Outside, Window
  <2>2. SessionWindow(d) = [start |-> SessionOpen[d], end |-> WindowEnd(d)]
    BY <1>1, <2>1, WindowTypes
  <2> QED BY <1>1, <2>1, <2>2, WindowTypes
<1>3. Window.end \in Nat /\ Window.start \in Nat /\ now <= Window.end
  BY <1>1, <1>2, ClockBounds DEF Time, Outside
<1>4. d \in Nat /\ \A t \in Missing : t \in Nat /\ t \in Time /\ Today(t) \in Nat
  BY <1>1, MissTypes, CalendarTypes, ClockBounds DEF Days, Today
<1>5. OnGrid(chosen) /\ chosen \in Nat
  BY <1>1, <1>2, <1>3, NextBoundaryIsNext DEF ChosenBoundary, OpeningsOnGrid
<1>6. \A t \in Missing : BeyondWork(t) => now < t
  BY <1>1, <1>4, MissTypes DEF BeyondWork
<1>7. \A t \in Missing : now < t => chosen <= t
  <2> SUFFICES ASSUME NEW t \in Missing, now < t PROVE chosen <= t
    OBVIOUS
  <2>1. Window.start <= t
    <3>1. d <= Today(t)
      BY <1>1, <1>4, DatesAdvance DEF Today
    <3>2. CASE Today(t) = d
      BY <1>2, <3>2, MissingFacts
    <3>3. CASE d < Today(t)
      <4>1. Today(Window.start) = d
        BY <1>2 DEF Today
      <4>2. Window.start < t
        BY <1>2, <1>4, <3>3, <4>1, DayOrder
      <4> QED BY <1>3, <1>4, <4>2
    <3> HIDE DEF d
    <3> QED BY <1>4, <3>1, <3>2, <3>3
  <2>2. NextBoundary(now) <= t
    BY <1>1, MissingFacts, NextBoundaryIsNext
  <2> QED BY <2>1, <2>2 DEF ChosenBoundary
<1> HIDE DEF chosen, d
<1>8. /\ \A t \in Missing : chosen <= t
      /\ \A t \in Missing : BeyondWork(t) \/ now - spent <= chosen + MaxLag
  <2>1. CASE \E o \in Missing : JustOpened(o)
    <3>1. PICK o \in Missing : JustOpened(o)
      BY <2>1
    <3>2. Window.start = o /\ chosen = o /\ o <= now /\ o \in Nat
      BY <1>1, <1>4, <3>1, OpeningChosen DEF chosen
    <3>3. ASSUME NEW t \in Missing PROVE chosen <= t
      <4>1. CASE BeyondWork(t)
        BY <1>1, <1>4, <1>6, <3>2, <4>1
      <4>2. CASE JustOpened(t)
        <5>1. Window.start = t
          BY <1>1, <4>2, OpeningChosen
        <5> QED BY <1>4, <3>2, <5>1
      <4> QED BY <1>1, <4>1, <4>2
    <3>4. now - spent <= chosen + MaxLag
      BY <3>1, <3>2 DEF JustOpened
    <3> QED BY <3>3, <3>4
  <2>2. CASE ~\E o \in Missing : JustOpened(o)
    BY <1>1, <1>6, <1>7, <2>2
  <2> QED BY <2>1, <2>2
<1>9. ASSUME chosen > Window.end, NEW t \in Missing
      PROVE  Window.end + Second + MaxLag + MaxWork < t
  <2> DEFINE e == Today(t)
  <2>1. /\ e \in TradingDays /\ SessionOpen[e] <= t /\ t <= WindowEnd(e)
        /\ SessionOpen[e] \in Nat /\ e \in Nat
    BY <1>4, MissingFacts, CalendarTypes, ClockBounds DEF Time
  <2>2. Window.end < t
    BY <1>3, <1>4, <1>5, <1>8, <1>9
  <2>3. d <= e
    <3>1. Window.end <= t
      BY <1>3, <1>4, <2>2
    <3> QED BY <1>2, <1>4, <3>1, DatesAdvance DEF Today
  <2>4. e # d
    BY <1>2, <1>3, <1>4, <2>1, <2>2
  <2> HIDE DEF e
  <2>5. Window.end + Second + MaxLag + MaxWork < SessionOpen[e]
    BY <1>2, <1>4, <2>1, <2>3, <2>4 DEF SessionsApart
  <2> QED BY <1>3, <1>4, <2>1, <2>5, MissTypes
<1> QED BY <1>3, <1>5, <1>8, <1>9 DEF chosen

LEMMA MissLoop ==
    ASSUME SleepsFit, WindowsHold, OpeningsOnGrid, SessionsApart, OpeningsAfterMidnight,
           InTime, StopInv, MissInv,
           LoopStopped \/ LoopOutside \/ LoopOutsideFails \/ LoopInside
    PROVE  MissInv'
<1>1. CASE LoopStopped \/ LoopOutsideFails
  <2>1. pc' = "finally"
    BY <1>1 DEF LoopStopped, LoopOutsideFails
  <2> QED BY <2>1 DEF MissInv, Working
<1>2. CASE LoopOutside
  <2> DEFINE next == NextSessionStart(now + Minute)
  <2>1. /\ Looping /\ Outside /\ pc = "top" /\ ~stop
        /\ UNCHANGED <<now, spent, since, samples, mode, stop, lastBoundary>>
    BY <1>2 DEF LoopOutside, Looping, envVars, historyVars
  <2>2. CASE next = None
    <3>1. pc' = "finally"
      BY <1>2, <2>2 DEF LoopOutside, AwaitSession
    <3> QED BY <3>1 DEF MissInv, Working
  <2>3. CASE next # None
    <3>1. pc' = "sleep" /\ purpose' = "session" /\ target' = next /\ sliceEnd' = 0
      BY <1>2, <2>3 DEF LoopOutside, AwaitSession, StartSleep
    <3>2. Missing' = Missing
      BY <2>1, MissingKept
    <3>3. SUFFICES ASSUME Working PROVE MissInv'
      BY <2>1, <3>1 DEF MissInv, Working
    <3>4. \A t \in Missing : BeyondWork(t) \/ JustOpened(t)
      BY <2>1, <3>3 DEF MissInv, Choosing
    <3>5. \A t \in Missing : now < t
      <4>1. \A t \in Missing : BeyondWork(t)
        BY <2>1, <3>3, <3>4, OpeningChosen
      <4> QED BY <4>1, MissTypes DEF BeyondWork, StopInv
    <3>6. Opens(next) /\ \A t \in Missing : next <= t
      BY <2>1, <2>3, <3>5, NextSessionIsFirst
    <3>7. \A t \in Missing : BeyondWork(t)' \/ JustOpened(t)'
      BY <2>1, <3>4 DEF BeyondWork, JustOpened, Opens
    <3>8. lastBoundary # None => lastBoundary \notin Missing
      BY <3>3 DEF MissInv
    <3> HIDE DEF next
    <3> QED BY <2>1, <3>1, <3>2, <3>6, <3>7, <3>8
            DEF MissInv, HoldsBoundary, AwaitsBoundary, Asleep, Opens
  <2> QED BY <2>2, <2>3
<1>3. CASE LoopInside
  <2> DEFINE chosen == ChosenBoundary
             end == Window.end
  <2>1. /\ Looping /\ ~Outside /\ pc = "top" /\ ~stop
        /\ UNCHANGED <<now, spent, since, samples, mode, stop, lastBoundary>>
        /\ boundary' = chosen /\ pc' = "sleep" /\ sliceEnd' = 0
        /\ IF chosen > end THEN purpose' = "close" /\ target' = end + Second
                           ELSE purpose' = "boundary" /\ target' = chosen
    BY <1>3 DEF LoopInside, Looping, StartSleep, envVars, historyVars
  <2>2. Missing' = Missing
    BY <2>1, MissingKept
  <2>3. SUFFICES ASSUME Working PROVE MissInv'
    BY <2>1 DEF MissInv, Working
  <2>4. /\ OnGrid(chosen)
        /\ \A t \in Missing : chosen <= t
        /\ \A t \in Missing : BeyondWork(t) \/ now - spent <= chosen + MaxLag
        /\ chosen > end => \A t \in Missing : end + Second + MaxLag + MaxWork < t
    BY <2>1, <2>3, ChoiceMissesNothing
  <2>5. /\ \A t \in Missing : BeyondWork(t) \/ JustOpened(t)
        /\ lastBoundary # None => lastBoundary \notin Missing
    BY <2>1, <2>3 DEF MissInv, Choosing
  <2> HIDE DEF chosen, end
  <2> QED BY <2>1, <2>2, <2>4, <2>5
          DEF MissInv, HoldsBoundary, AwaitsBoundary, Asleep, BeyondWork, JustOpened, Opens, OnGrid
<1> QED BY <1>1, <1>2, <1>3

LEMMA MissEnvironment ==
    ASSUME InTime, MissInv,
           Tick \/ CalendarEnds \/ BootService \/ BootOnce \/ RequestStop \/ Kill
    PROVE  MissInv'
<1> USE DEF HoldsBoundary, AwaitsBoundary, Choosing
<1>1. CASE CalendarEnds
  BY <1>1 DEF CalendarEnds, vars, processVars, envVars, historyVars, MissInv, Working, Missing,
     Asleep, BeyondWork, JustOpened, Opens
<1>2. CASE Tick
  <2>1. /\ UNCHANGED <<pc, mode, stop, purpose, target, sliceEnd, boundary, lastBoundary, since,
                       samples>>
        /\ now' = now + 1
    BY <1>2 DEF Tick, processVars, historyVars
  <2>2. Missing' = Missing /\ Asleep' = Asleep /\ Working' = Working
    BY <2>1, MissingKept DEF Asleep, Working
  <2>3. Working /\ ~Asleep => spent' = spent + 1
    BY <1>2 DEF Tick, Working
  <2>4. Working /\ Choosing => spent < MaxStep
    BY <1>2 DEF Tick, Busy, Working, Asleep
  <2>5. ASSUME Working, ~Asleep
        PROVE  /\ now' - spent' = now - spent
               /\ \A t \in Missing : BeyondWork(t)' <=> BeyondWork(t)
               /\ spent < MaxStep => \A t \in Missing : JustOpened(t) => JustOpened(t)'
    <3>1. now' - spent' = now - spent /\ spent' = spent + 1
      BY <2>1, <2>3, <2>5, MissTypes
    <3> QED BY <3>1, MissTypes DEF BeyondWork, JustOpened, Opens
  <2>6. CASE Working /\ Asleep
    BY <2>1, <2>2, <2>6 DEF MissInv, Opens, Asleep
  <2>7. CASE Working /\ ~Asleep
    BY <2>1, <2>2, <2>4, <2>5, <2>7 DEF MissInv, Opens
  <2> QED BY <2>2, <2>6, <2>7 DEF MissInv
<1>3. CASE BootService
  <2>1. /\ pc' = "top" /\ lastBoundary' = None /\ spent' = 0 /\ now' = now /\ since' = now
    BY <1>3 DEF BootService, Fresh
  <2>2. \A t \in Missing' : BeyondWork(t)'
    BY <2>1, MissTypes DEF Missing, BeyondWork
  <2> QED BY <2>1, <2>2 DEF MissInv, Asleep
<1>4. CASE BootOnce \/ RequestStop \/ Kill
  <2>1. mode' = "once" \/ stop' \/ pc' = "off"
    BY <1>4 DEF BootOnce, RequestStop, Kill
  <2> QED BY <2>1 DEF MissInv, Working
<1> QED BY <1>1, <1>2, <1>3, <1>4

\* A process that wakes from a slice is at most an oversleep late for its target.
LEMMA WakeUps ==
    ASSUME SleepsFit, OpeningsOnGrid, InTime, StopInv, MissInv, Working, SleepDone, Asleep
    PROVE  /\ target <= now /\ now <= target + MaxLag
           /\ purpose = "session" => \A t \in Missing : now + MaxWork < t \/
                                        (Opens(t) /\ t <= now /\ now <= t + MaxLag)
           /\ purpose = "close" => \A t \in Missing : now + MaxWork < t
<1>1. target <= now /\ now <= target + MaxLag
  BY MissTypes DEF SleepDone, Working, StopInv, MissInv
<1>2. ASSUME purpose = "session", NEW t \in Missing
      PROVE  now + MaxWork < t \/ (Opens(t) /\ t <= now /\ now <= t + MaxLag)
  <2>1. Opens(target) /\ target <= t
    BY <1>2 DEF MissInv, Asleep
  <2>2. CASE t = target
    BY <1>1, <2>1, <2>2
  <2>3. CASE target < t
    <3>1. target + Interval <= t
      BY <2>1, <2>3, MissingFacts, GridApart DEF Opens, OpeningsOnGrid
    <3> QED BY <1>1, <3>1, MissTypes DEF SleepsFit
  <2> QED BY <2>1, <2>2, <2>3, MissTypes
<1>3. ASSUME purpose = "close", NEW t \in Missing PROVE now + MaxWork < t
  BY <1>1, <1>3, MissTypes DEF MissInv, Asleep
<1> QED BY <1>1, <1>2, <1>3

LEMMA MissSleep ==
    ASSUME SleepsFit, OpeningsOnGrid, InTime, StopInv, PunctualInv, MissInv, Sleeping
    PROVE  MissInv'
<1> USE DEF HoldsBoundary, AwaitsBoundary, Choosing
<1>1. CASE SleepOn
  <2>1. /\ UNCHANGED <<now, pc, mode, stop, purpose, target, boundary, lastBoundary, spent, since,
                       samples>>
        /\ now < target /\ sliceEnd' = now + Min({SleepSlice, target - now}) /\ pc = "sleep"
    BY <1>1 DEF SleepOn, SliceOver, loopVars, envVars, historyVars
  <2>2. SleepSlice \in Nat \ {0} /\ {SleepSlice, target - now} \in SUBSET Nat
    BY <2>1, MissTypes, SchedulerAssumption
  <2>3. /\ Min({SleepSlice, target - now}) \in {SleepSlice, target - now}
        /\ Min({SleepSlice, target - now}) <= target - now
    BY <2>2, MinIsLeast
  <2>4. sliceEnd' > 0 /\ sliceEnd' <= target
    BY <2>1, <2>2, <2>3, MissTypes
  <2>5. Missing' = Missing /\ Working' = Working /\ Asleep'
    BY <2>1, <2>4, MissingKept DEF Working, Asleep
  <2> QED BY <2>1, <2>4, <2>5 DEF MissInv, Opens
<1>2. ASSUME NEW p \in {"top", "ensure"}, ResumeAt(p), ~stop, pc = "sleep", Working
      PROVE  /\ pc' = p /\ Missing' = Missing
             /\ UNCHANGED <<now, boundary, lastBoundary>>
             /\ spent' = IF Asleep THEN 0 ELSE spent
             /\ lastBoundary # None => lastBoundary \notin Missing
             /\ SleepDone /\ ~Asleep'
  BY <1>2, MissingKept DEF ResumeAt, loopVars, lifeVars, historyVars, MissInv, Asleep
<1>3. ASSUME Working, ResumeAt("top"), ~stop, pc = "sleep",
             Asleep => \A t \in Missing : now + MaxWork < t \/
                                          (Opens(t) /\ t <= now /\ now <= t + MaxLag)
      PROVE  MissInv'
  <2>1. /\ pc' = "top" /\ Missing' = Missing /\ UNCHANGED <<now, lastBoundary>>
        /\ spent' = IF Asleep THEN 0 ELSE spent
        /\ lastBoundary # None => lastBoundary \notin Missing
    BY <1>2, <1>3
  <2>2. \A t \in Missing : BeyondWork(t)' \/ JustOpened(t)'
    <3>1. CASE Asleep
      BY <1>3, <2>1, <3>1, MissTypes DEF BeyondWork, JustOpened, Opens
    <3>2. CASE ~Asleep
      BY <1>3, <2>1, <3>2 DEF MissInv, BeyondWork, JustOpened, Opens
    <3> QED BY <3>1, <3>2
  <2> QED BY <2>1, <2>2 DEF MissInv, Asleep
<1>4. CASE WakeAtSession \/ WakeAfterClose
  <2>1. pc = "sleep" /\ SleepDone /\ UNCHANGED <<mode, stop>>
    BY <1>4 DEF WakeAtSession, WakeAfterClose, ResumeAt, SleepDone, SliceOver, loopVars
  <2>2. CASE ~Working
    BY <2>1, <2>2 DEF MissInv, Working
  <2>3. CASE Working
    <3>1. ResumeAt("top") /\ ~stop /\ purpose \in {"session", "close"}
      BY <1>4, <2>3 DEF WakeAtSession, WakeAfterClose, Working
    <3> QED BY <1>3, <2>1, <2>3, <3>1, WakeUps
  <2> QED BY <2>2, <2>3
<1>5. CASE WakeStopped
  <2>1. pc' = "finally"
    BY <1>5 DEF WakeStopped, ResumeAt
  <2> QED BY <2>1 DEF MissInv, Working
<1>6. CASE WakeStale
  <2>1. /\ pc = "sleep" /\ purpose = "boundary" /\ ~stop /\ ResumeAt("top") /\ SleepDone
        /\ now > boundary + Grace /\ UNCHANGED <<mode, stop>>
    BY <1>6 DEF WakeStale, ResumeAt, SleepDone, SliceOver, loopVars
  <2>2. CASE ~Working
    BY <2>1, <2>2 DEF MissInv, Working
  <2>3. CASE Working
    <3>1. ~Asleep
      <4>1. SUFFICES ASSUME Asleep PROVE FALSE
        OBVIOUS
      <4>2. target = boundary /\ now <= target + MaxLag
        BY <2>1, <2>3, <4>1, WakeUps DEF PunctualInv
      <4> QED BY <2>1, <4>2, MissTypes DEF SleepsFit
    <3> QED BY <1>3, <2>1, <2>3, <3>1
  <2> QED BY <2>2, <2>3
<1>7. CASE WakeInTime
  <2>1. /\ pc = "sleep" /\ purpose = "boundary" /\ ~stop /\ ResumeAt("ensure") /\ SleepDone
        /\ UNCHANGED <<mode, stop>>
    BY <1>7 DEF WakeInTime, ResumeAt, SleepDone, SliceOver, loopVars
  <2>2. CASE ~Working
    BY <2>1, <2>2 DEF MissInv, Working
  <2>3. CASE Working
    <3>1. /\ pc' = "ensure" /\ Missing' = Missing /\ UNCHANGED <<now, boundary, lastBoundary>>
          /\ spent' = IF Asleep THEN 0 ELSE spent
          /\ lastBoundary # None => lastBoundary \notin Missing
      BY <1>2, <2>1, <2>3
    <3>2. OnGrid(boundary) /\ \A t \in Missing : boundary <= t
      BY <2>1, <2>3 DEF MissInv
    <3>3. \A t \in Missing : BeyondWork(t)' \/ now' - spent' <= boundary' + MaxLag
      <4>1. CASE Asleep
        <5>1. target = boundary /\ now <= target + MaxLag
          BY <2>1, <2>3, <4>1, WakeUps DEF PunctualInv
        <5> QED BY <3>1, <4>1, <5>1, MissTypes
      <4>2. CASE ~Asleep
        BY <2>1, <2>3, <3>1, <4>2 DEF MissInv, BeyondWork
      <4> QED BY <4>1, <4>2
    <3> QED BY <3>1, <3>2, <3>3 DEF MissInv, Asleep, OnGrid
  <2> QED BY <2>2, <2>3
<1> QED BY <1>1, <1>4, <1>5, <1>6, <1>7 DEF Sleeping

LEMMA MissCycle ==
    ASSUME SleepsFit, OpeningsOnGrid, InTime, StopInv, MissInv, Cycling \/ Exit \/ ExitWriteFails
    PROVE  MissInv'
<1> USE DEF HoldsBoundary, AwaitsBoundary, Choosing
<1>1. CASE EnsureReuses \/ EnsureCreates
  <2>1. /\ pc = "ensure" /\ pc' = "cycle" /\ samples' = Append(samples, boundary)
        /\ UNCHANGED <<now, mode, stop, boundary, lastBoundary, spent, since>>
    BY <1>1 DEF EnsureReuses, EnsureCreates, StartCycle, loopVars, envVars
  <2>2. samples \in Seq(Nat) /\ boundary \in Nat
    BY DEF InTime, TypeOK
  <2>3. /\ \A i \in DOMAIN samples : i \in DOMAIN samples' /\ samples'[i] = samples[i]
        /\ Len(samples) + 1 \in DOMAIN samples' /\ samples'[Len(samples) + 1] = boundary
    BY <2>1, <2>2
  <2>4. Missing' \subseteq Missing /\ boundary \notin Missing'
    BY <2>1, <2>3 DEF Missing
  <2>5. CASE ~Working
    BY <2>1, <2>5 DEF MissInv, Working
  <2>6. CASE Working
    BY <2>1, <2>4, <2>6 DEF MissInv, Asleep, BeyondWork, OnGrid
  <2> QED BY <2>5, <2>6
<1>2. CASE EnsureFails \/ (\E ok \in BOOLEAN : CycleWriteFails(ok)) \/ Exit \/ ExitWriteFails
  <2>1. pc' \in {"finally", "off"}
    BY <1>2 DEF EnsureFails, CycleWriteFails, Exit, ExitWriteFails, Ended
  <2> QED BY <2>1 DEF MissInv, Working
<1>3. ASSUME NEW ok \in BOOLEAN, CycleEnds(ok) PROVE MissInv'
  <2>1. /\ pc = "cycle" /\ UNCHANGED <<now, mode, stop, spent, since, samples>>
        /\ pc' = "finally" \/ (pc' = "top" /\ lastBoundary' = boundary)
    BY <1>3 DEF CycleEnds, CycleRecorded, envVars
  <2>2. CASE ~Working \/ pc' = "finally"
    BY <2>1, <2>2 DEF MissInv, Working
  <2>3. CASE Working /\ pc' = "top" /\ lastBoundary' = boundary
    <3>1. Missing' = Missing
      BY <2>1, MissingKept
    <3>2. /\ OnGrid(boundary) /\ boundary \notin Missing
          /\ \A t \in Missing : boundary <= t
          /\ \A t \in Missing : BeyondWork(t) \/ now - spent <= boundary + MaxLag
      BY <2>1, <2>3 DEF MissInv, Asleep
    <3>3. ASSUME NEW t \in Missing PROVE BeyondWork(t)
      <4>1. boundary < t
        BY <3>2, MissTypes
      <4>2. boundary + Interval <= t
        BY <3>2, <4>1, MissingFacts, GridApart
      <4> QED BY <3>2, <4>2, MissTypes DEF BeyondWork, SleepsFit
    <3>4. \A t \in Missing : BeyondWork(t)'
      BY <2>1, <3>3 DEF BeyondWork
    <3> QED BY <2>3, <3>1, <3>2, <3>4 DEF MissInv, Asleep
  <2> QED BY <2>1, <2>2, <2>3
<1> QED BY <1>1, <1>2, <1>3 DEF Cycling

LEMMA MissImplies ==
    ASSUME InTime, StopInv, PunctualInv, MissInv
    PROVE  NoBoundaryMissed
<1> SUFFICES ASSUME Working, NEW d \in Days, NEW t \in ExpectedPollTimestamps(d),
                    since + MaxWork < t, t + MaxLag + MaxWork < now,
                    \A i \in DOMAIN samples : samples[i] # t
             PROVE  FALSE
  BY DEF NoBoundaryMissed, Working
<1>1. t \in Missing
  <2>1. t \in Int
    BY DEF ExpectedPollTimestamps
  <2>2. t \in Time
    BY <2>1, MissTypes, ClockBounds DEF Time, InTime, TypeOK
  <2> QED BY <2>2 DEF Missing
<1>2. t \in Nat /\ spent <= MaxWork
  BY <1>1, MissTypes DEF StopInv
<1>3. ~BeyondWork(t)
  BY <1>2, MissTypes DEF BeyondWork
<1>4. CASE Choosing
  BY <1>1, <1>2, <1>3, <1>4, MissTypes DEF MissInv, JustOpened
<1>5. CASE Asleep
  <2>1. now <= sliceEnd + MaxLag /\ sliceEnd <= target /\ pc = "sleep"
    BY <1>5 DEF StopInv, MissInv, Asleep
  <2>2. purpose \in {"boundary", "close", "session"}
    BY DEF InTime, TypeOK
  <2>3. target <= t
    BY <1>1, <1>2, <2>1, <2>2, MissTypes DEF MissInv, PunctualInv, HoldsBoundary, AwaitsBoundary
  <2> QED BY <1>2, <2>1, <2>3, MissTypes
<1>6. CASE pc \in {"ensure", "cycle"}
  <2>1. now - spent <= boundary + MaxLag /\ boundary <= t
    BY <1>1, <1>3, <1>6 DEF MissInv, HoldsBoundary, Asleep
  <2> QED BY <1>2, <2>1, MissTypes
<1> QED BY <1>4, <1>5, <1>6 DEF Working, Choosing

\* A process that is up, not stopping and came to its loop before a boundary takes that
\* boundary's sample, for every calendar, interval and grace that the oversleeps and the
\* cycles fit, over restarts, failed writes, days without a session and early closes.
THEOREM NoBoundaryIsMissed ==
    ASSUME SleepsFit, WindowsHold, OpeningsOnGrid, SessionsApart, OpeningsAfterMidnight
    PROVE  Spec => []NoBoundaryMissed
<1>1. Init => MissInv
  BY DEF Init, MissInv, Working
<1>2. InTime /\ StopInv /\ PunctualInv /\ MissInv /\ [Next]_vars => MissInv'
  <2>1. MissInv /\ UNCHANGED vars => MissInv'
    BY DEF vars, processVars, envVars, historyVars, MissInv, Working, Missing, Asleep, BeyondWork,
       JustOpened, Opens, HoldsBoundary, AwaitsBoundary, Choosing
  <2> QED BY <2>1, MissEnvironment, MissSleep, MissLoop, MissCycle DEF Next, Step
<1>3. InTime /\ StopInv /\ PunctualInv /\ MissInv => NoBoundaryMissed
  BY MissImplies
<1> QED BY <1>1, <1>2, <1>3, TimeHolds, StopHolds, PunctualHolds, PTL DEF Spec
=============================================================================
