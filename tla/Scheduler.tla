----------------------------- MODULE Scheduler -----------------------------
(***************************************************************************)
(* The collector process of scheduler.py: the loop of CollectorScheduler   *)
(* over wall-clock boundaries, the sliced sleep, the stop flag, the life   *)
(* of the daily health file, `--once`, and the death and restart of the    *)
(* process.  A cycle is one step here with a success bit (Collection.tla   *)
(* opens it up); the accounting is that of one ticker.                     *)
(***************************************************************************)
EXTENDS MarketClock, Sequences

CONSTANTS
    Grace,            \* BOUNDARY_GRACE
    SleepSlice,       \* SLEEP_SLICE_SECONDS
    Second,           \* the timedelta(seconds=1) of the sleep past the close
    Minute,           \* the timedelta(minutes=1) of _wait_for_next_session
    HealthWriteEvery, \* HEALTH_WRITE_EVERY
    RestartDelay,     \* least time between a death and the next start
    MaxLag,           \* how much a single sleep may oversleep
    MaxStep,          \* how long it may be busy outside a cycle
    MaxWork,          \* how long it may be busy between two sleeps, cycle included
    MaxBoots,         \* bound: starts of the process
    MaxDeaths,        \* bound: kills of the process
    MayStop,          \* a stop signal may arrive
    MayFailWrite,     \* a health write may raise OSError
    MayRunOnce        \* an operator may run `--once` while the service is off

ASSUME SchedulerAssumption ==
    /\ {Grace, Minute, RestartDelay, MaxLag, MaxStep, MaxWork, MaxBoots, MaxDeaths}
           \subseteq Nat
    /\ MaxStep <= MaxWork /\ Minute <= Horizon
    /\ {SleepSlice, Second, HealthWriteEvery} \subseteq Nat \ {0}
    /\ {MayStop, MayFailWrite, MayRunOnce} \subseteq BOOLEAN

VARIABLES
    now,          \* the wall clock
    pc,           \* where the process is; "off" when there is none
    mode,         \* "service" (run) or "once" (run_immediate_cycle)
    stop,         \* self._stop
    purpose,      \* what the current sleep waits for
    target,       \* argument of _sleep_until
    sliceEnd,     \* end of the current slice of the sleep
    boundary,     \* local variable of run
    tradingDate,  \* local variable of run
    lastBoundary, \* last_scheduled_boundary
    healthDate,   \* self._health_date; None when self.health is None
    mem,          \* the counters of self.health
    unwritten,    \* self._cycles_since_health_write
    file,         \* date -> the health file of that date
    spent,        \* ticks of work since the last sleep or start
    boots,        \* starts of the process so far
    deaths,       \* times a process ended without its final health write
    since,        \* time of the last start, or of the last end when off
    stopAt,       \* time the pending stop was requested
    samples,      \* history: the poll timestamps of all cycles
    recorded      \* history: date -> successful cycles recorded by a tracker

processVars == <<pc, mode, stop, purpose, target, sliceEnd, boundary,
                 tradingDate, lastBoundary, healthDate, mem, unwritten>>
envVars     == <<spent, boots, deaths, since, stopAt>>
historyVars == <<samples, recorded>>
vars == <<now, processVars, file, envVars, historyVars>>

\* What a stretch of the process leaves alone.
loopVars   == <<mode, stop, tradingDate, lastBoundary>>
sleepVars  == <<purpose, target, sliceEnd>>
healthVars == <<healthDate, mem, unwritten>>
lifeVars   == <<boots, deaths, since, stopAt>>

Counters == [cycles : Nat, stamps : SUBSET Nat]
Files    == [cycles : Nat, stamps : SUBSET Nat, finished : BOOLEAN]
Empty    == [cycles |-> 0, stamps |-> {}]
NoFile   == [cycles |-> 0, stamps |-> {}, finished |-> FALSE]

FileOf(counters, finished) ==
    [cycles |-> counters.cycles, stamps |-> counters.stamps, finished |-> finished]

\* HealthTracker.restore: a restarted collector takes the counters of the day.
\* Mutated form: a restart starts the day from zero.
NotRestored(d) == Empty

Restored(d) == [cycles |-> file[d].cycles, stamps |-> file[d].stamps]

\* health.write(finished=True) of the live tracker.
Finalised == [file EXCEPT ![healthDate] = FileOf(mem, TRUE)]

Window == SessionWindow(Today(now))
Outside == Window = NoWindow \/ now > Window.end

\* The last tick the model reaches: the loop asks the calendar about now + Minute.
LastInstant == Horizon - Minute
----------------------------------------------------------------------------
Init ==
    /\ now = 0
    /\ pc = "off"
    /\ mode = "service"
    /\ stop = FALSE
    /\ purpose = "boundary" /\ target = 0 /\ sliceEnd = 0
    /\ boundary = 0 /\ tradingDate = 0
    /\ lastBoundary = None
    /\ healthDate = None /\ mem = Empty /\ unwritten = 0
    /\ file = [d \in Days |-> NoFile]
    /\ spent = 0 /\ boots = 0 /\ deaths = 0 /\ since = 0 /\ stopAt = 0
    /\ samples = <<>>
    /\ recorded = [d \in Days |-> 0]

(***************************************************************************)
(* The environment: time, the supervisor, the operator, the machine.       *)
(***************************************************************************)

\* Within time.sleep; 0 stands for no slice, as before the first one.
Asleep == pc = "sleep" /\ sliceEnd > 0

\* A cycle takes its time; the steps around it are short.
Busy ==
    \/ pc = "cycle" /\ spent < MaxWork
    \/ pc \notin {"off", "cycle"} /\ ~Asleep /\ spent < MaxStep

\* Time passes.  A sleeping process oversleeps a slice by at most MaxLag, a
\* busy one goes back to sleep within MaxWork.
Tick ==
    /\ now < LastInstant
    /\ \/ pc = "off" /\ UNCHANGED spent
       \/ Asleep /\ now < sliceEnd + MaxLag /\ UNCHANGED spent
       \/ Busy /\ spent' = spent + 1
    /\ now' = now + 1
    /\ UNCHANGED <<processVars, file, boots, deaths, since, stopAt, historyVars>>

\* The modelled calendar ends; everything before it must be able to move.
CalendarEnds == now = LastInstant /\ UNCHANGED vars

MayBoot ==
    /\ pc = "off"
    /\ boots < MaxBoots
    /\ boots > 0 => now >= since + RestartDelay

\* A fresh process: nothing but the files survives.
Fresh ==
    /\ stop' = FALSE
    /\ lastBoundary' = None
    /\ healthDate' = None /\ mem' = Empty /\ unwritten' = 0
    /\ spent' = 0
    /\ boots' = boots + 1
    /\ since' = now
    /\ stopAt' = 0
    /\ UNCHANGED <<now, purpose, target, sliceEnd, file, deaths, historyVars>>

BootService ==
    /\ MayBoot
    /\ pc' = "top"
    /\ mode' = "service"
    /\ Fresh
    /\ UNCHANGED <<boundary, tradingDate>>

\* run_immediate_cycle: one cycle labelled with the current time, whatever
\* the session window says.
BootOnce ==
    /\ MayRunOnce
    /\ MayBoot
    /\ pc' = "ensure"
    /\ mode' = "once"
    /\ boundary' = now
    /\ tradingDate' = Today(now)
    /\ Fresh

\* SIGTERM or SIGINT: run installs the handlers, run_immediate_cycle does not.
\* The last slice of a sleep must end within the modelled time.
RequestStop ==
    /\ MayStop
    /\ now + SleepSlice <= LastInstant
    /\ pc # "off" /\ mode = "service" /\ ~stop
    /\ stop' = TRUE
    /\ stopAt' = now
    /\ UNCHANGED <<now, pc, mode, sleepVars, boundary, tradingDate, lastBoundary,
                   healthVars, file, spent, boots, deaths, since, historyVars>>

\* The process disappears between two steps, by SIGKILL or out of memory.  The
\* restart must fall within the modelled time.
Kill ==
    /\ pc # "off" /\ deaths < MaxDeaths
    /\ now + RestartDelay <= LastInstant
    /\ pc' = "off"
    /\ healthDate' = None /\ mem' = Empty /\ unwritten' = 0
    /\ deaths' = deaths + 1
    /\ since' = now
    /\ UNCHANGED <<now, loopVars, sleepVars, boundary, file, spent, boots, stopAt,
                   historyVars>>
----------------------------------------------------------------------------
(***************************************************************************)
(* _sleep_until: slices of at most SleepSlice, the stop flag read between. *)
(***************************************************************************)
StartSleep(why, until) ==
    /\ pc' = "sleep"
    /\ purpose' = why
    /\ target' = until
    /\ sliceEnd' = 0

SliceOver == pc = "sleep" /\ now >= sliceEnd

\* Mutated form: one sleep for the whole wait.
SleepOnUnsliced ==
    /\ SliceOver
    /\ ~stop /\ now < target
    /\ sliceEnd' = target
    /\ UNCHANGED <<now, pc, loopVars, purpose, target, boundary, healthVars, file,
                   envVars, historyVars>>

SleepOn ==
    /\ SliceOver
    /\ ~stop /\ now < target
    /\ sliceEnd' = now + Min({SleepSlice, target - now})
    /\ UNCHANGED <<now, pc, loopVars, purpose, target, boundary, healthVars, file,
                   envVars, historyVars>>

SleepDone == SliceOver /\ (stop \/ now >= target)

\* The sleep is over and the program goes on at step p.
ResumeAt(p) ==
    /\ SleepDone
    /\ pc' = p
    /\ spent' = IF Asleep THEN 0 ELSE spent
    /\ target' = 0 /\ sliceEnd' = 0
    /\ UNCHANGED <<now, loopVars, purpose, boundary, healthVars, file, lifeVars,
                   historyVars>>

WakeAtSession  == purpose = "session" /\ ResumeAt(IF stop THEN "finally" ELSE "top")
WakeAfterClose == purpose = "close" /\ ResumeAt("top")
WakeStopped    == purpose = "boundary" /\ stop /\ ResumeAt("finally")
WakeStale      == purpose = "boundary" /\ ~stop /\ now > boundary + Grace /\ ResumeAt("top")
\* Mutated form: no check for a stale boundary.
WakeAnyTime    == purpose = "boundary" /\ ~stop /\ ResumeAt("ensure")
WakeInTime     == purpose = "boundary" /\ ~stop /\ now <= boundary + Grace /\ ResumeAt("ensure")

Sleeping == SleepOn \/ WakeAtSession \/ WakeAfterClose \/ WakeStopped \/ WakeStale \/ WakeInTime
----------------------------------------------------------------------------
(***************************************************************************)
(* The head of the loop of run.                                            *)
(***************************************************************************)
\* Mutated form: the condition of the while forgets the stop flag.
LoopingForever == pc = "top"

Looping == pc = "top" /\ ~stop

LoopStopped ==
    /\ pc = "top" /\ stop
    /\ pc' = "finally"
    /\ UNCHANGED <<now, loopVars, sleepVars, boundary, healthVars, file, envVars,
                   historyVars>>

\* _wait_for_next_session, once the health of the day is closed.
AwaitSession ==
    LET next == NextSessionStart(now + Minute)
    IN  IF next = None
        THEN pc' = "finally" /\ UNCHANGED sleepVars
        ELSE StartSleep("session", next)

LoopOutside ==
    /\ Looping /\ Outside
    /\ file' = IF healthDate = None THEN file ELSE Finalised
    /\ healthDate' = None /\ mem' = Empty
    /\ tradingDate' = Today(now)
    /\ AwaitSession
    /\ UNCHANGED <<now, mode, stop, lastBoundary, boundary, unwritten, envVars, historyVars>>

\* The finalising write raises: the exception leaves the loop.
LoopOutsideFails ==
    /\ MayFailWrite
    /\ Looping /\ Outside /\ healthDate # None
    /\ pc' = "finally"
    /\ tradingDate' = Today(now)
    /\ UNCHANGED <<now, mode, stop, lastBoundary, sleepVars, boundary, healthVars, file,
                   envVars, historyVars>>

\* Mutated forms: the opening is not remembered as sampled; a wake-up just after
\* the open is taken for a late one.
AtOpeningAgain == now <= Window.start + Grace
AtOpeningStrict == now < Window.start /\ lastBoundary # Window.start

AtOpening == now <= Window.start + Grace /\ lastBoundary # Window.start

ChosenBoundary == IF AtOpening THEN Window.start ELSE NextBoundary(now)

\* Mutated form: the end of the window is not looked at.
LoopInsideNoEnd ==
    /\ Looping /\ ~Outside
    /\ tradingDate' = Today(now)
    /\ boundary' = ChosenBoundary
    /\ StartSleep("boundary", ChosenBoundary)
    /\ UNCHANGED <<now, mode, stop, lastBoundary, healthVars, file, envVars, historyVars>>

LoopInside ==
    /\ Looping /\ ~Outside
    /\ tradingDate' = Today(now)
    /\ boundary' = ChosenBoundary
    /\ IF ChosenBoundary > Window.end
       THEN StartSleep("close", Window.end + Second)
       ELSE StartSleep("boundary", ChosenBoundary)
    /\ UNCHANGED <<now, mode, stop, lastBoundary, healthVars, file, envVars, historyVars>>
----------------------------------------------------------------------------
(***************************************************************************)
(* _run_one_cycle: the tracker of the day, the cycle, its accounting.      *)
(***************************************************************************)
\* Mutated form: the cycle is labelled with the previous boundary.
StartCycleOldLabel ==
    /\ pc' = "cycle"
    /\ samples' = Append(samples, lastBoundary)

StartCycle ==
    /\ pc' = "cycle"
    /\ samples' = Append(samples, boundary)

\* Mutated form: any live tracker is taken for the tracker of the day.
EnsureReusesAny ==
    /\ pc = "ensure" /\ healthDate # None
    /\ StartCycle
    /\ UNCHANGED <<now, loopVars, sleepVars, boundary, healthVars, file, envVars, recorded>>

EnsureReuses ==
    /\ pc = "ensure" /\ healthDate = tradingDate
    /\ StartCycle
    /\ UNCHANGED <<now, loopVars, sleepVars, boundary, healthVars, file, envVars, recorded>>

\* The files after the tracker of another day, if there is one, is finalised.
\* Mutated form: the tracker of another day is dropped without its final write.
OldDayDropped == file

OldDayClosed == IF healthDate = None THEN file ELSE Finalised

EnsureCreates ==
    /\ pc = "ensure" /\ healthDate # tradingDate
    /\ mem' = Restored(tradingDate)
    /\ file' = [OldDayClosed EXCEPT ![tradingDate] = FileOf(mem', FALSE)]
    /\ healthDate' = tradingDate
    /\ unwritten' = 0
    /\ StartCycle
    /\ UNCHANGED <<now, loopVars, sleepVars, boundary, envVars, recorded>>

\* Either write of _ensure_health raises; self.health is assigned after both.
EnsureFails ==
    /\ MayFailWrite
    /\ pc = "ensure" /\ healthDate # tradingDate
    /\ file' \in {file, OldDayClosed}
    /\ pc' = "finally"
    /\ UNCHANGED <<now, loopVars, sleepVars, boundary, healthVars, envVars, historyVars>>

\* record_cycle: only a successful ticker counts as observed.
Recorded(ok) ==
    IF ok THEN [cycles |-> mem.cycles + 1, stamps |-> mem.stamps \union {boundary}] ELSE mem

WriteDue == unwritten + 1 >= HealthWriteEvery

CycleRecorded(ok) ==
    /\ pc = "cycle"
    /\ mem' = Recorded(ok)
    /\ recorded' = IF ok THEN [recorded EXCEPT ![tradingDate] = @ + 1] ELSE recorded

CycleEnds(ok) ==
    /\ CycleRecorded(ok)
    /\ IF WriteDue
       THEN /\ file' = [file EXCEPT ![healthDate] = FileOf(mem', FALSE)]
            /\ unwritten' = 0
       ELSE /\ unwritten' = unwritten + 1
            /\ UNCHANGED file
    /\ IF mode = "service"
       THEN pc' = "top" /\ lastBoundary' = boundary
       ELSE pc' = "finally" /\ UNCHANGED lastBoundary
    /\ UNCHANGED <<now, mode, stop, tradingDate, sleepVars, boundary, healthDate, envVars,
                   samples>>

CycleWriteFails(ok) ==
    /\ MayFailWrite
    /\ WriteDue
    /\ CycleRecorded(ok)
    /\ unwritten' = unwritten + 1
    /\ pc' = "finally"
    /\ UNCHANGED <<now, loopVars, sleepVars, boundary, healthDate, file, envVars, samples>>
----------------------------------------------------------------------------
(***************************************************************************)
(* The finally clause: the health is finalised and the process ends.       *)
(***************************************************************************)
Ended ==
    /\ pc' = "off"
    /\ healthDate' = None /\ mem' = Empty /\ unwritten' = 0
    /\ since' = now
    /\ UNCHANGED <<now, loopVars, sleepVars, boundary, spent, boots, stopAt, historyVars>>

Exit ==
    /\ pc = "finally"
    /\ file' = IF healthDate = None THEN file ELSE Finalised
    /\ Ended
    /\ UNCHANGED deaths

ExitWriteFails ==
    /\ MayFailWrite
    /\ pc = "finally" /\ healthDate # None
    /\ deaths' = deaths + 1
    /\ Ended
    /\ UNCHANGED file

Cycling ==
    \/ EnsureReuses \/ EnsureCreates \/ EnsureFails
    \/ \E ok \in BOOLEAN : CycleEnds(ok) \/ CycleWriteFails(ok)

Step ==
    \/ LoopStopped \/ LoopOutside \/ LoopOutsideFails \/ LoopInside
    \/ Sleeping
    \/ Cycling
    \/ Exit \/ ExitWriteFails

Next == Tick \/ CalendarEnds \/ BootService \/ BootOnce \/ RequestStop \/ Kill \/ Step

Spec == Init /\ [][Next]_vars

\* Wall time passes and the operating system schedules the process.  Nothing
\* obliges the supervisor to start it, a signal to arrive or a kill to happen.
Fairness == WF_vars(Tick) /\ WF_vars(Step)
FairSpec == Spec /\ Fairness
----------------------------------------------------------------------------
(***************************************************************************)
(* Properties.                                                             *)
(***************************************************************************)
Steps == {"off", "top", "sleep", "ensure", "cycle", "finally"}

\* Every variable has its type: the state of CollectorScheduler.run and of its
\* health tracker.
TypeOK ==
    /\ now \in Time
    /\ pc \in Steps
    /\ mode \in {"service", "once"}
    /\ stop \in BOOLEAN
    /\ purpose \in {"boundary", "close", "session"}
    /\ target \in Nat /\ sliceEnd \in Nat
    /\ boundary \in Nat
    /\ tradingDate \in Days
    /\ lastBoundary \in Nat \union {None}
    /\ healthDate \in Days \union {None}
    /\ mem \in Counters
    /\ unwritten \in Nat
    /\ file \in [Days -> Files]
    /\ spent \in Nat /\ boots \in Nat /\ deaths \in Nat
    /\ since \in Nat /\ stopAt \in Nat
    /\ samples \in Seq(Nat)
    /\ recorded \in [Days -> Nat]

\* No boundary is ever sampled twice and the poll timestamps never go back, over
\* all lives of the process: last_scheduled_boundary keeps the opening from being
\* repeated, next_boundary looks strictly ahead, and a restart comes too late to
\* find the opening within its grace.
BoundariesAdvance ==
    \A i, j \in DOMAIN samples : i < j => samples[i] < samples[j]

\* Every cycle of the service is labelled with a timestamp that QA expects for that
\* date (expected_poll_timestamps): a wake-up after a long stall, a restart, a `--once`
\* in between, an early close or a holiday never makes it sample off the grid.
OnTheGrid ==
    [][Len(samples') > Len(samples) /\ mode = "service" =>
         LET t == samples'[Len(samples')] IN t \in ExpectedPollTimestamps(Today(t))]_vars

\* A cycle never starts before its boundary, nor later than the grace plus the work
\* done since the wake-up was checked (the stale-boundary check of run).
NeverEarlyNeverStale ==
    [][Len(samples') > Len(samples) =>
         boundary <= now /\ now <= boundary + Grace + spent]_vars

\* When an oversleep and the steps to the loop's check fit in the grace, and an
\* oversleep and a cycle in the interval, a process that is up, not stopping and has
\* come to its loop before a boundary takes that boundary's sample: 406 of 406.
NoBoundaryMissed ==
    pc \in {"top", "sleep", "ensure", "cycle"} /\ mode = "service" /\ ~stop =>
        \A d \in Days : \A t \in ExpectedPollTimestamps(d) :
            since + MaxWork < t /\ t + MaxLag + MaxWork < now =>
                \E i \in DOMAIN samples : samples[i] = t

\* A death costs at most the cycles since the last periodic health write: the file,
\* what the live tracker still holds and this bound account for every successful
\* cycle ever recorded.
LossPerDeath == IF MayFailWrite THEN HealthWriteEvery ELSE HealthWriteEvery - 1

LossBounded ==
    \A d \in Days :
        recorded[d] <= file[d].cycles + LossPerDeath * deaths
                       + (IF healthDate = d THEN unwritten ELSE 0)

\* A restart, a rollover of the date or a failed write never makes the health file
\* of a day forget a cycle it had counted (restore).
CountersNeverDrop ==
    [][\A d \in Days : file[d].cycles <= file'[d].cycles
                       /\ file[d].stamps \subseteq file'[d].stamps]_vars

\* The health file of a date counts each observed timestamp once, only timestamps
\* of that date, and only cycles that were really run: nothing leaks from one
\* session into the next when a stalled process crosses midnight.
CountsAreOfTheDay ==
    \A d \in Days :
        /\ file[d].cycles = Cardinality(file[d].stamps)
        /\ \A t \in file[d].stamps :
             Today(t) = d /\ \E i \in DOMAIN samples : samples[i] = t

\* A stop request ends the process within one slice, one oversleep and the work
\* that was in flight.
StopIsPrompt ==
    stop /\ pc # "off" => now <= stopAt + SleepSlice + MaxLag + MaxWork

\* A stop request is always followed by the end of the process.
StopLeadsToExit == stop ~> pc = "off"

\* A day whose health file is being kept is finalised in the end (health.py: the
\* file is "finalised at the end of the session").
DayFinalised == \A d \in Days : healthDate = d ~> file[d].finished
=============================================================================
